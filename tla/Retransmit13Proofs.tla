------------------------- MODULE Retransmit13Proofs -------------------------
(***************************************************************************)
(* Theorems about Retransmit13 for every set of records, every timeout and *)
(* every number of attempts.                                               *)
(***************************************************************************)
EXTENDS Retransmit13, SetInduction

(* A record that was never sent is neither in flight nor acknowledged: the *)
(* strengthening AckReleases needs when Emit puts a record in flight.      *)
UnsentIsIdle == \A r \in Records : copies[r] = 0 => r \notin in_flight \cup acked

IInv == TypeOK /\ TimerCoversFlight /\ AckReleases /\ UnsentIsIdle

(* Every step keeps the ranges. *)
LEMMA TypeStep == IInv /\ [Next]_vars => TypeOK'
<1> USE TimeoutAssumption DEF TimeoutAssumption, None
<1> SUFFICES ASSUME IInv, [Next]_vars PROVE TypeOK'
  OBVIOUS
<1> USE DEF IInv
<1>1. ASSUME NEW r \in Records, Emit(r) PROVE TypeOK'
  <2>1. /\ in_flight' \subseteq Records
        /\ copies' \in [Records -> Nat]
        /\ sent_at' \in [Records -> Nat]
    BY <1>1 DEF Emit, on_record_sent, TypeOK
  <2>2. /\ deadline' \in Nat \cup {None} /\ timeout' \in INITIAL_TIMEOUT .. MAX_TIMEOUT
        /\ attempts' \in 0 .. MAX_RETRANSMITS /\ armed_at' \in Nat
    BY <1>1 DEF Emit, on_record_sent, TypeOK
  <2>3. UNCHANGED <<established, closed, now, acked>>
    BY <1>1 DEF Emit
  <2> QED BY <2>1, <2>2, <2>3 DEF TypeOK
<1>2. ASSUME NEW keep \in SUBSET in_flight, Retain(keep),
             UNCHANGED <<copies, established, closed, now, armed_at, sent_at>>,
             acked' \subseteq Records
      PROVE  TypeOK'
  <2>1. /\ deadline' \in Nat \cup {None} /\ timeout' \in INITIAL_TIMEOUT .. MAX_TIMEOUT
        /\ attempts' \in 0 .. MAX_RETRANSMITS
    BY <1>2 DEF Retain, TypeOK
  <2>2. in_flight' \subseteq Records
    BY <1>2 DEF Retain, TypeOK
  <2> QED BY <1>2, <2>1, <2>2 DEF TypeOK
<1>3. ASSUME NEW acks \in AckedSets, on_ack(acks), \A rn \in acks : rn[1] \in Records
      PROVE  TypeOK'
  BY <1>2, <1>3 DEF on_ack, TypeOK
<1>4. ASSUME NEW acks \in AckedSets, on_ack(acks) PROVE TypeOK'
  <2>1. acks \subseteq Numbers
    BY DEF AckedSets, kSubset
  <2>2. \A rn \in acks : rn[1] \in Records
    BY <2>1 DEF Numbers
  <2> QED BY <1>3, <1>4, <2>2
<1>5. ASSUME NEW epoch \in Range(EpochOf), release_epoch(epoch) PROVE TypeOK'
  BY <1>2, <1>5 DEF release_epoch, TypeOK
<1>6. ASSUME NEW reset \in BOOLEAN, Establish(reset) PROVE TypeOK'
  <2>1. /\ deadline' \in Nat \cup {None} /\ timeout' \in INITIAL_TIMEOUT .. MAX_TIMEOUT
        /\ attempts' \in 0 .. MAX_RETRANSMITS /\ in_flight' \subseteq Records
    BY <1>6 DEF Establish, new, machine, TypeOK
  <2>2. established' \in BOOLEAN /\ UNCHANGED <<copies, closed, now, history>>
    BY <1>6 DEF Establish
  <2> QED BY <2>1, <2>2 DEF TypeOK, history
<1>7. CASE Retransmit
  <2>1. /\ deadline' \in Nat \cup {None} /\ timeout' \in INITIAL_TIMEOUT .. MAX_TIMEOUT
        /\ attempts' \in 0 .. MAX_RETRANSMITS
    BY <1>7 DEF Retransmit, Backoff, AttemptsLeft, Smaller, TypeOK
  <2>2. copies' \in [Records -> Nat]
    BY <1>7 DEF Retransmit, TypeOK
  <2>3. UNCHANGED <<in_flight, established, closed, now, history>>
    BY <1>7 DEF Retransmit
  <2> QED BY <2>1, <2>2, <2>3 DEF TypeOK, history
<1>8. CASE GiveUp
  <2>1. /\ deadline' \in Nat \cup {None} /\ timeout' \in INITIAL_TIMEOUT .. MAX_TIMEOUT
        /\ attempts' \in 0 .. MAX_RETRANSMITS /\ in_flight' \subseteq Records
    BY <1>8 DEF GiveUp, new, TypeOK
  <2>2. closed' \in BOOLEAN /\ UNCHANGED <<copies, established, now, history>>
    BY <1>8 DEF GiveUp, TypeOK
  <2> QED BY <2>1, <2>2 DEF TypeOK, history
<1>9. CASE Tick
  <2>1. now' \in Nat /\ UNCHANGED <<machine, copies, established, closed, history>>
    BY <1>9 DEF Tick, TypeOK
  <2> QED BY <2>1 DEF TypeOK, machine, history
<1>10. CASE UNCHANGED vars
  BY <1>10 DEF vars, machine, history, TypeOK
<1> QED BY <1>1, <1>4, <1>5, <1>6, <1>7, <1>8, <1>9, <1>10 DEF Next

(* Every step keeps the timer armed exactly while something is in flight.  *)
LEMMA TimerStep == IInv /\ [Next]_vars => TimerCoversFlight'
<1> USE TimeoutAssumption DEF TimeoutAssumption, None
<1> SUFFICES ASSUME IInv, [Next]_vars PROVE TimerCoversFlight'
  OBVIOUS
<1> USE DEF IInv, TimerCoversFlight
<1>1. ASSUME NEW r \in Records, Emit(r) PROVE TimerCoversFlight'
  BY <1>1 DEF Emit, on_record_sent, TypeOK
<1>2. ASSUME NEW keep \in SUBSET in_flight, Retain(keep), UNCHANGED closed
      PROVE  TimerCoversFlight'
  BY <1>2 DEF Retain
<1>3. ASSUME NEW acks \in AckedSets, on_ack(acks) PROVE TimerCoversFlight'
  BY <1>2, <1>3 DEF on_ack
<1>4. ASSUME NEW epoch \in Range(EpochOf), release_epoch(epoch) PROVE TimerCoversFlight'
  BY <1>2, <1>4 DEF release_epoch
<1>5. ASSUME NEW reset \in BOOLEAN, Establish(reset) PROVE TimerCoversFlight'
  BY <1>5 DEF Establish, new, machine
<1>6. CASE Retransmit
  BY <1>6 DEF Retransmit, Due, Backoff, Smaller, TypeOK
<1>7. CASE GiveUp
  BY <1>7 DEF GiveUp, new
<1>8. CASE Tick
  BY <1>8 DEF Tick, machine
<1>9. CASE UNCHANGED vars
  BY <1>9 DEF vars, machine
<1> QED BY <1>1, <1>3, <1>4, <1>5, <1>6, <1>7, <1>8, <1>9 DEF Next

(* No step puts an acknowledged record back in flight. *)
LEMMA AckStep == IInv /\ [Next]_vars => AckReleases' /\ UnsentIsIdle'
<1> SUFFICES ASSUME IInv, [Next]_vars PROVE AckReleases' /\ UnsentIsIdle'
  OBVIOUS
<1> USE DEF IInv, AckReleases, UnsentIsIdle
<1>1. ASSUME NEW r \in Records, Emit(r) PROVE AckReleases' /\ UnsentIsIdle'
  BY <1>1 DEF Emit, on_record_sent, TypeOK
<1>2. ASSUME NEW acks \in AckedSets, on_ack(acks) PROVE AckReleases' /\ UnsentIsIdle'
  <2>1. \A rn \in acks : copies[rn[1]] # 0
    BY DEF AckedSets, kSubset, Numbers, TypeOK
  <2> QED BY <1>2, <2>1 DEF on_ack, Retain
<1>3. ASSUME NEW epoch \in Range(EpochOf), release_epoch(epoch)
      PROVE  AckReleases' /\ UnsentIsIdle'
  BY <1>3 DEF release_epoch, Retain
<1>4. ASSUME NEW reset \in BOOLEAN, Establish(reset) PROVE AckReleases' /\ UnsentIsIdle'
  BY <1>4 DEF Establish, new, machine, history
<1>5. CASE Retransmit
  BY <1>5 DEF Retransmit, history, TypeOK
<1>6. CASE GiveUp
  BY <1>6 DEF GiveUp, new, history
<1>7. CASE Tick
  BY <1>7 DEF Tick, machine, history
<1>8. CASE UNCHANGED vars
  BY <1>8 DEF vars, machine, history
<1> QED BY <1>1, <1>2, <1>3, <1>4, <1>5, <1>6, <1>7, <1>8 DEF Next

(* IInv holds in every reachable state. *)
THEOREM Invariance == Spec => []IInv
<1>1. Init => IInv
  <2> SUFFICES ASSUME Init PROVE IInv
    OBVIOUS
  <2>1. TypeOK
    <3>1. copies \in [Records -> Nat] /\ sent_at \in [Records -> Nat]
      BY DEF Init
    <3>2. timeout \in INITIAL_TIMEOUT .. MAX_TIMEOUT /\ attempts \in 0 .. MAX_RETRANSMITS
      BY TimeoutAssumption DEF TimeoutAssumption, Init
    <3>3. established \in BOOLEAN /\ closed \in BOOLEAN
      BY DEF Init
    <3> QED BY <3>1, <3>2, <3>3 DEF Init, TypeOK
  <2>2. TimerCoversFlight /\ AckReleases /\ UnsentIsIdle
    BY DEF Init, TimerCoversFlight, AckReleases, UnsentIsIdle
  <2> QED BY <2>1, <2>2 DEF IInv
<1>2. IInv /\ [Next]_vars => IInv'
  BY TypeStep, TimerStep, AckStep DEF IInv
<1> QED BY <1>1, <1>2, PTL DEF Spec

(* The attempts never exceed MAX_RETRANSMITS and the timeout never leaves  *)
(* its bounds, whatever records, ACKs and polls arrive.                    *)
THEOREM TypeCorrect == Spec => []TypeOK
BY Invariance, PTL DEF IInv

(* A live endpoint never holds an unacknowledged record without a running  *)
(* timer, nor a timer without a record: the wake-up is never lost          *)
(* (on_record_sent, on_ack, release_epoch, on_timeout).                    *)
THEOREM NoLostTimer == Spec => []TimerCoversFlight
BY Invariance, PTL DEF IInv

(* An acknowledged record never comes back into flight, whichever of its   *)
(* transmissions the ACK named (on_ack).                                   *)
THEOREM AckIsFinal == Spec => []AckReleases
BY Invariance, PTL DEF IInv

-----------------------------------------------------------------------------
(* The backoff schedule.                                                   *)

(* What the recursive definition of TimeoutAt says. *)
LEMMA TimeoutAtDef ==
    /\ TimeoutAt \in [Nat -> Nat] /\ TimeoutAt[0] = INITIAL_TIMEOUT
    /\ \A k \in Nat : TimeoutAt[k + 1] = Smaller(2 * TimeoutAt[k], MAX_TIMEOUT)
<1> DEFINE step == [k \in Nat |-> [v \in Nat |-> Smaller(2 * v, MAX_TIMEOUT)]]
<1>1. \A k, v \in Nat : Following(step, k, v) = Smaller(2 * v, MAX_TIMEOUT)
  BY DEF Following
<1> HIDE DEF step
<1>2. \A v \in Nat : Smaller(2 * v, MAX_TIMEOUT) \in Nat
  BY TimeoutAssumption DEF TimeoutAssumption, Smaller
<1>3. Steps(step)
  BY <1>1, <1>2 DEF Steps
<1>4. INITIAL_TIMEOUT \in Nat
  BY TimeoutAssumption DEF TimeoutAssumption
<1>5. PICK g : Sequence(g, INITIAL_TIMEOUT, step)
  BY <1>3, <1>4, Recursion
<1>6. \A k \in Nat : g[k + 1] = Smaller(2 * g[k], MAX_TIMEOUT)
  BY <1>1, <1>5 DEF Sequence
<1>7. \A k \in Nat : k # 0 => g[k] = Smaller(2 * g[k - 1], MAX_TIMEOUT)
  <2> SUFFICES ASSUME NEW k \in Nat, k # 0 PROVE g[k] = Smaller(2 * g[k - 1], MAX_TIMEOUT)
    OBVIOUS
  <2>1. k - 1 \in Nat /\ (k - 1) + 1 = k
    OBVIOUS
  <2> QED BY <1>6, <2>1
<1>8. g = [k \in Nat |->
             IF k = 0 THEN INITIAL_TIMEOUT ELSE Smaller(2 * g[k - 1], MAX_TIMEOUT)]
  BY <1>5, <1>7 DEF Sequence
<1> DEFINE T == TimeoutAt
<1>9. T = [k \in Nat |->
             IF k = 0 THEN INITIAL_TIMEOUT ELSE Smaller(2 * T[k - 1], MAX_TIMEOUT)]
  BY <1>8 DEF TimeoutAt
<1> HIDE DEF T
<1>10. T[0] = INITIAL_TIMEOUT
  BY <1>9
<1>11. ASSUME NEW k \in Nat PROVE T[k + 1] = Smaller(2 * T[k], MAX_TIMEOUT)
  <2>1. k + 1 \in Nat /\ k + 1 # 0 /\ (k + 1) - 1 = k
    OBVIOUS
  <2> QED BY <1>9, <2>1
<1>12. T \in [Nat -> Nat]
  <2> DEFINE S == {k \in Nat : T[k] \in Nat}
  <2>1. 0 \in S
    BY <1>4, <1>10
  <2>2. ASSUME NEW k \in Nat, k \in S PROVE k + 1 \in S
    BY <1>2, <1>11, <2>2
  <2> HIDE DEF S
  <2>3. Nat \subseteq S
    BY <2>1, <2>2, SetInduction
  <2>4. \A k \in Nat : T[k] \in Nat
    BY <2>3 DEF S
  <2> QED BY <1>9, <2>4
<1> QED BY <1>10, <1>11, <1>12 DEF T

(* The same of Elapsed. *)
LEMMA ElapsedDef ==
    /\ Elapsed \in [Nat -> Nat] /\ Elapsed[0] = INITIAL_TIMEOUT
    /\ \A k \in Nat : Elapsed[k + 1] = Elapsed[k] + TimeoutAt[k + 1]
<1> DEFINE step == [k \in Nat |-> [v \in Nat |-> v + TimeoutAt[k]]]
<1>1. \A k, v \in Nat : Following(step, k, v) = v + TimeoutAt[k + 1]
  BY DEF Following
<1> HIDE DEF step
<1>2. \A k, v \in Nat : v + TimeoutAt[k + 1] \in Nat
  BY TimeoutAtDef
<1>3. Steps(step)
  BY <1>1, <1>2 DEF Steps
<1>4. INITIAL_TIMEOUT \in Nat
  BY TimeoutAssumption DEF TimeoutAssumption
<1>5. PICK g : Sequence(g, INITIAL_TIMEOUT, step)
  BY <1>3, <1>4, Recursion
<1>6. \A k \in Nat : g[k + 1] = g[k] + TimeoutAt[k + 1]
  BY <1>1, <1>5 DEF Sequence
<1>7. \A k \in Nat : k # 0 => g[k] = g[k - 1] + TimeoutAt[k]
  <2> SUFFICES ASSUME NEW k \in Nat, k # 0 PROVE g[k] = g[k - 1] + TimeoutAt[k]
    OBVIOUS
  <2>1. k - 1 \in Nat /\ (k - 1) + 1 = k
    OBVIOUS
  <2> QED BY <1>6, <2>1
<1>8. g = [k \in Nat |-> IF k = 0 THEN INITIAL_TIMEOUT ELSE g[k - 1] + TimeoutAt[k]]
  BY <1>5, <1>7 DEF Sequence
<1> DEFINE T == Elapsed
<1>9. T = [k \in Nat |-> IF k = 0 THEN INITIAL_TIMEOUT ELSE T[k - 1] + TimeoutAt[k]]
  BY <1>8 DEF Elapsed
<1> HIDE DEF T
<1>10. T[0] = INITIAL_TIMEOUT
  BY <1>9
<1>11. ASSUME NEW k \in Nat PROVE T[k + 1] = T[k] + TimeoutAt[k + 1]
  <2>1. k + 1 \in Nat /\ k + 1 # 0 /\ (k + 1) - 1 = k
    OBVIOUS
  <2> QED BY <1>9, <2>1
<1>12. T \in [Nat -> Nat]
  <2> DEFINE S == {k \in Nat : T[k] \in Nat}
  <2>1. 0 \in S
    BY <1>4, <1>10
  <2>2. ASSUME NEW k \in Nat, k \in S PROVE k + 1 \in S
    BY <1>2, <1>11, <2>2
  <2> HIDE DEF S
  <2>3. Nat \subseteq S
    BY <2>1, <2>2, SetInduction
  <2>4. \A k \in Nat : T[k] \in Nat
    BY <2>3 DEF S
  <2> QED BY <1>9, <2>4
<1> QED BY <1>10, <1>11, <1>12 DEF T

(* Later attempts end later. *)
LEMMA ElapsedGrows ==
    ASSUME NEW m \in Nat, NEW k \in Nat, k <= m
    PROVE  Elapsed[k] <= Elapsed[m]
<1> DEFINE S == {n \in Nat : k <= n => Elapsed[k] <= Elapsed[n]}
<1>1. 0 \in S
  BY ElapsedDef
<1>2. ASSUME NEW n \in Nat, n \in S PROVE n + 1 \in S
  <2>1. /\ Elapsed[n + 1] = Elapsed[n] + TimeoutAt[n + 1] /\ TimeoutAt[n + 1] \in Nat
        /\ Elapsed[k] \in Nat /\ Elapsed[n] \in Nat
    BY ElapsedDef, TimeoutAtDef
  <2> QED BY <1>2, <2>1
<1> HIDE DEF S
<1>3. Nat \subseteq S
  BY <1>1, <1>2, SetInduction
<1> QED BY <1>3 DEF S

(* The lateness that k more polls can add. *)
LEMMA LatePolls ==
    ASSUME NEW k \in Nat, NEW m \in Nat, k <= m
    PROVE  /\ k * MaxLate \in Nat /\ (k + 1) * MaxLate = k * MaxLate + MaxLate
           /\ k * MaxLate <= m * MaxLate
<1>1. MaxLate \in Nat
  BY TimeoutAssumption DEF TimeoutAssumption
<1>2. m * MaxLate = k * MaxLate + (m - k) * MaxLate
  BY <1>1
<1>3. (m - k) * MaxLate \in Nat /\ k * MaxLate \in Nat
  BY <1>1
<1>4. (k + 1) * MaxLate = k * MaxLate + MaxLate
  BY <1>1
<1> QED BY <1>2, <1>3, <1>4

-----------------------------------------------------------------------------
(* The clock against the schedule.                                         *)

(* A due timer is polled within MaxLate, and the records of a flight were  *)
(* sent since its timer was armed.                                         *)
ClockOK ==
    /\ armed_at <= now
    /\ deadline # None => now <= deadline + MaxLate
    /\ \A r \in in_flight : sent_at[r] >= armed_at

SInv == IInv /\ ScheduleKept /\ ClockOK

(* Arming the timer starts the schedule. *)
LEMMA ScheduleStarts ==
    ASSUME TypeOK
    PROVE  /\ INITIAL_TIMEOUT = TimeoutAt[0]
           /\ (now + INITIAL_TIMEOUT) - now >= Elapsed[0]
           /\ (now + INITIAL_TIMEOUT) - now <= Elapsed[0] + 0 * MaxLate
BY TimeoutAtDef, ElapsedDef, TimeoutAssumption DEF TimeoutAssumption, TypeOK

(* Every step keeps the schedule and the clock. *)
LEMMA ScheduleStep == SInv /\ [Next]_vars => ScheduleKept' /\ ClockOK'
<1> SUFFICES ASSUME SInv, [Next]_vars PROVE ScheduleKept' /\ ClockOK'
  OBVIOUS
<1>0. TypeOK /\ IInv /\ ScheduleKept /\ ClockOK
  BY DEF SInv, IInv
<1>t. /\ INITIAL_TIMEOUT \in Nat /\ MaxLate \in Nat /\ now \in Nat /\ armed_at \in Nat
      /\ None \notin Nat /\ attempts \in Nat
  BY <1>0, TimeoutAssumption DEF TimeoutAssumption, TypeOK, None
<1>1. ASSUME NEW r \in Records, Emit(r) PROVE ScheduleKept' /\ ClockOK'
  <2>1. CASE in_flight = {}
    <3>1. /\ timeout' = INITIAL_TIMEOUT /\ attempts' = 0 /\ now' = now
          /\ deadline' = now + INITIAL_TIMEOUT /\ armed_at' = now
          /\ in_flight' = {r} /\ sent_at'[r] = now
      BY <1>0, <1>1, <2>1 DEF Emit, on_record_sent, TypeOK
    <3>2. ScheduleKept'
      BY <1>0, <3>1, ScheduleStarts DEF ScheduleKept
    <3>3. ClockOK'
      BY <1>t, <3>1 DEF ClockOK
    <3> QED BY <3>2, <3>3
  <2>2. CASE in_flight # {}
    <3>1. UNCHANGED <<deadline, timeout, attempts, armed_at, now>> /\ in_flight' = in_flight \cup {r}
      BY <1>1, <2>2 DEF Emit, on_record_sent
    <3>2. \A q \in in_flight' : sent_at'[q] = now \/ (q \in in_flight /\ sent_at'[q] = sent_at[q])
      BY <1>0, <1>1, <3>1 DEF Emit, TypeOK
    <3>3. \A q \in in_flight' : sent_at'[q] >= armed_at
      BY <1>0, <1>t, <3>2 DEF ClockOK
    <3> QED BY <1>0, <3>1, <3>3 DEF ScheduleKept, ClockOK
  <2> QED BY <2>1, <2>2
<1>2. ASSUME NEW keep \in SUBSET in_flight, Retain(keep),
             UNCHANGED <<copies, established, closed, now, armed_at, sent_at>>
      PROVE  ScheduleKept' /\ ClockOK'
  BY <1>0, <1>2 DEF Retain, ScheduleKept, ClockOK
<1>3. ASSUME NEW acks \in AckedSets, on_ack(acks) PROVE ScheduleKept' /\ ClockOK'
  BY <1>2, <1>3 DEF on_ack
<1>4. ASSUME NEW epoch \in Range(EpochOf), release_epoch(epoch) PROVE ScheduleKept' /\ ClockOK'
  BY <1>2, <1>4 DEF release_epoch
<1>5. ASSUME NEW reset \in BOOLEAN, Establish(reset) PROVE ScheduleKept' /\ ClockOK'
  BY <1>0, <1>5 DEF Establish, new, machine, history, ScheduleKept, ClockOK
<1>6. CASE Retransmit
  <2>1. /\ deadline \in Nat /\ deadline # None /\ now >= deadline
        /\ attempts' = attempts + 1 /\ timeout' = Smaller(2 * timeout, MAX_TIMEOUT)
        /\ deadline' = now + timeout'
        /\ UNCHANGED <<in_flight, now, armed_at, sent_at>>
    BY <1>0, <1>6 DEF Retransmit, Due, Backoff, history, TypeOK
  <2>2. /\ timeout = TimeoutAt[attempts]
        /\ deadline - armed_at >= Elapsed[attempts]
        /\ deadline - armed_at <= Elapsed[attempts] + attempts * MaxLate
        /\ now <= deadline + MaxLate
    BY <1>0, <2>1 DEF ScheduleKept, ClockOK
  <2>3. timeout' = TimeoutAt[attempts + 1] /\ timeout' \in Nat
    BY <1>t, <2>1, <2>2, TimeoutAtDef
  <2>4. /\ Elapsed[attempts + 1] = Elapsed[attempts] + timeout'
        /\ Elapsed[attempts] \in Nat
    BY <1>t, <2>3, ElapsedDef
  <2>5. (attempts + 1) * MaxLate = attempts * MaxLate + MaxLate /\ attempts * MaxLate \in Nat
    BY <1>t, LatePolls
  <2>6. /\ deadline' - armed_at >= Elapsed[attempts + 1]
        /\ deadline' - armed_at <= Elapsed[attempts + 1] + (attempts + 1) * MaxLate
    BY <1>t, <2>1, <2>2, <2>3, <2>4, <2>5
  <2>7. ScheduleKept'
    BY <2>1, <2>3, <2>6 DEF ScheduleKept
  <2>8. ClockOK'
    BY <1>0, <1>t, <2>1, <2>3 DEF ClockOK
  <2> QED BY <2>7, <2>8
<1>7. CASE GiveUp
  BY <1>0, <1>7 DEF GiveUp, new, history, ScheduleKept, ClockOK
<1>8. CASE Tick
  <2>1. now' = now + 1 /\ UNCHANGED <<machine, history>> /\ (deadline # None => now < deadline + MaxLate)
    BY <1>8 DEF Tick
  <2>2. ScheduleKept'
    BY <1>0, <2>1 DEF ScheduleKept, machine, history
  <2>3. ClockOK'
    BY <1>0, <1>t, <2>1 DEF ClockOK, machine, history, TypeOK
  <2> QED BY <2>2, <2>3
<1>9. CASE UNCHANGED vars
  BY <1>0, <1>9 DEF vars, machine, history, ScheduleKept, ClockOK
<1> QED BY <1>1, <1>3, <1>4, <1>5, <1>6, <1>7, <1>8, <1>9 DEF Next

(* SInv holds in every reachable state. *)
LEMMA ScheduleInvariance == Spec => []SInv
<1>1. Init => ScheduleKept /\ ClockOK
  BY DEF Init, ScheduleKept, ClockOK
<1>2. Spec => []IInv
  BY Invariance
<1>3. IInv /\ ScheduleKept /\ ClockOK /\ [Next]_vars => (ScheduleKept /\ ClockOK)'
  BY ScheduleStep DEF SInv
<1> QED BY <1>1, <1>2, <1>3, PTL DEF Spec, SInv

(* A running timer is where the doubling schedule says, up to the lateness *)
(* of the polls, whichever records joined the flight or left it            *)
(* (on_record_sent, on_ack, release_epoch, on_timeout).                    *)
THEOREM ScheduleHolds == Spec => []ScheduleKept
BY ScheduleInvariance, PTL DEF SInv

(* The grace time covers the last retransmission of a flight: in the code  *)
(* 1 + 2 + 4 + 8 + 16 + 32 = 63 s of timeouts against 120 s.               *)
GraceCoversSchedule ==
    /\ PREV_EPOCH_GRACE_TIME \in Nat
    /\ MAX_RETRANSMITS # 0 =>
          Elapsed[MAX_RETRANSMITS - 1] + MAX_RETRANSMITS * MaxLate <= PREV_EPOCH_GRACE_TIME

(* A caller whose polls are not later than what the grace time leaves never *)
(* retransmits a record after the peer has dropped the keys that open it   *)
(* (epoch13.rs, PREV_EPOCH_GRACE_TIME).                                    *)
THEOREM RetransmissionsReadable ==
    ASSUME GraceCoversSchedule
    PROVE  Spec => RetransmitsWithinGrace
<1> DEFINE A == Retransmit => \A r \in in_flight : now - sent_at[r] <= PREV_EPOCH_GRACE_TIME
<1>1. SInv /\ [Next]_vars => [A]_vars
  <2> SUFFICES ASSUME SInv, Retransmit, NEW r \in in_flight
               PROVE  now - sent_at[r] <= PREV_EPOCH_GRACE_TIME
    OBVIOUS
  <2>1. TypeOK /\ ScheduleKept /\ ClockOK
    BY DEF SInv, IInv
  <2>2. /\ deadline \in Nat /\ deadline # None /\ attempts \in Nat /\ attempts < MAX_RETRANSMITS
        /\ MAX_RETRANSMITS \in Nat /\ now \in Nat /\ armed_at \in Nat /\ sent_at[r] \in Nat
        /\ MaxLate \in Nat /\ PREV_EPOCH_GRACE_TIME \in Nat
    BY <2>1, TimeoutAssumption
    DEF Retransmit, Due, AttemptsLeft, TypeOK, TimeoutAssumption, GraceCoversSchedule
  <2>3. /\ deadline - armed_at <= Elapsed[attempts] + attempts * MaxLate
        /\ now <= deadline + MaxLate /\ sent_at[r] >= armed_at
    BY <2>1, <2>2 DEF ScheduleKept, ClockOK
  <2> DEFINE last == MAX_RETRANSMITS - 1
  <2>4. last \in Nat /\ attempts <= last /\ last + 1 = MAX_RETRANSMITS
    BY <2>2
  <2>5. /\ Elapsed[attempts] <= Elapsed[last]
        /\ Elapsed[attempts] \in Nat /\ Elapsed[last] \in Nat
    BY <2>2, <2>4, ElapsedGrows, ElapsedDef
  <2>6. /\ attempts * MaxLate <= last * MaxLate
        /\ attempts * MaxLate \in Nat /\ last * MaxLate \in Nat
        /\ MAX_RETRANSMITS * MaxLate = last * MaxLate + MaxLate
    BY <2>2, <2>4, LatePolls
  <2>7. Elapsed[last] + MAX_RETRANSMITS * MaxLate <= PREV_EPOCH_GRACE_TIME
    BY <2>2 DEF GraceCoversSchedule
  <2> HIDE DEF last
  <2> QED BY <2>2, <2>3, <2>5, <2>6, <2>7
<1> QED BY <1>1, ScheduleInvariance, PTL DEF Spec, RetransmitsWithinGrace

=============================================================================
