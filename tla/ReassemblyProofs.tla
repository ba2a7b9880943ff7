-------------------------- MODULE ReassemblyProofs --------------------------
(***************************************************************************)
(* Theorems about Reassembly for every flight, every set of claims, every  *)
(* budget and any number of spoofed fragments.                             *)
(***************************************************************************)
EXTENDS Reassembly, SetInduction, FiniteSetTheorems

(* What the map holds: a candidate has at least one unit, and one for a    *)
(* message the flight does not have holds nothing genuine, so the loop     *)
(* that dispatches stops at the end of the flight at the latest.           *)
CandidateOK(k, stored) ==
    /\ k[1] \in Nat /\ DOMAIN stored # {}
    /\ k[1] > LastSeq => \A u \in DOMAIN stored : stored[u] = "bad"

MapOK(prog) ==
    /\ IsFiniteSet(DOMAIN prog)
    /\ \A k \in DOMAIN prog : CandidateOK(k, prog[k])

IInv ==
    /\ expected_msg_seq \in 0 .. LastSeq + 1
    /\ MapOK(in_progress)
    /\ BudgetKept /\ InOrderOnce

-----------------------------------------------------------------------------
(* What a fragment does to the map.                                        *)

(* The parts of a record's handling that every fragment shares. *)
Fragment(k, units, content) ==
    /\ k[1] \in Nat /\ units # {}
    /\ k[1] > LastSeq => content = "bad"
    /\ Admits(k) /\ Agrees(k, units, content)

(* The map stays well formed when a fragment is stored. *)
LEMMA StoredOK ==
    ASSUME IInv, NEW k, NEW units, NEW content, Fragment(k, units, content)
    PROVE  MapOK(WithFragment(k, units, content))
<1> DEFINE prog == WithFragment(k, units, content)
           D == (DOMAIN in_progress \ Evicted(k)) \cup {k}
           new == [u \in DOMAIN Stored(k) \cup units |->
                      IF u \in units THEN content ELSE Stored(k)[u]]
<1>1. DOMAIN prog = D /\ prog[k] = new /\ \A l \in D : l # k => prog[l] = in_progress[l]
  BY DEF WithFragment
<1>2. IsFiniteSet(D)
  <2>1. IsFiniteSet(DOMAIN in_progress)
    BY DEF IInv, MapOK
  <2>2. IsFiniteSet(DOMAIN in_progress \ Evicted(k))
    BY <2>1, FS_Subset
  <2> QED BY <2>2, FS_AddElement
<1>3. CandidateOK(k, new)
  <2>1. k[1] > LastSeq => \A u \in DOMAIN Stored(k) : Stored(k)[u] = "bad"
    BY DEF IInv, MapOK, CandidateOK, Stored, Empty
  <2>2. DOMAIN new = DOMAIN Stored(k) \cup units /\ units # {}
    BY DEF Fragment
  <2>3. k[1] > LastSeq => \A u \in DOMAIN new : new[u] = "bad"
    BY <2>1 DEF Fragment
  <2> HIDE DEF new
  <2> QED BY <2>2, <2>3 DEF Fragment, CandidateOK
<1> HIDE DEF prog, D, new
<1>4. \A l \in D : CandidateOK(l, prog[l])
  <2>1. \A l \in D : l # k => l \in DOMAIN in_progress
    BY DEF D
  <2> QED BY <1>1, <1>3, <2>1 DEF IInv, MapOK
<1> QED BY <1>1, <1>2, <1>4 DEF MapOK, prog

(* A new candidate fits in the budget, in the place of the evicted one if  *)
(* the map was full.                                                       *)
LEMMA StoredFits ==
    ASSUME IInv, NEW k, NEW units, NEW content, Fragment(k, units, content)
    PROVE  Cardinality(DOMAIN WithFragment(k, units, content)) <= max_in_progress
<1> DEFINE D == DOMAIN in_progress
           E == (D \ Evicted(k)) \cup {k}
<1>1. DOMAIN WithFragment(k, units, content) = E
  BY DEF WithFragment
<1>2. IsFiniteSet(D) /\ Cardinality(D) <= max_in_progress
  BY DEF IInv, MapOK, BudgetKept
<1>3. Cardinality(D) \in Nat /\ max_in_progress \in Nat
  BY <1>2, FS_CardinalityType, LimitsAssumption DEF LimitsAssumption
<1>4. CASE k \in D
  <2>1. E = D
    BY <1>4 DEF Evicted, Full
  <2> QED BY <1>1, <1>2, <2>1
<1>5. CASE k \notin D /\ ~Full(k)
  <2>1. E = D \cup {k} /\ Cardinality(D) < max_in_progress
    BY <1>3, <1>5 DEF Evicted, Full
  <2>2. Cardinality(D \cup {k}) = Cardinality(D) + 1
    BY <1>2, <1>5, FS_AddElement
  <2> QED BY <1>1, <1>3, <2>1, <2>2
<1>6. CASE Full(k)
  <2>1. Victims # {} /\ Victims \subseteq D /\ k \notin D
    BY <1>6 DEF Fragment, Admits, Full, Victims
  <2>2. PICK v \in D : v \in Victims
    BY <2>1
  <2>3. IsFiniteSet(D \ {v}) /\ Cardinality(D \ {v}) = Cardinality(D) - 1
    BY <1>2, FS_RemoveElement
  <2>4. /\ IsFiniteSet((D \ {v}) \cup {k})
        /\ Cardinality((D \ {v}) \cup {k}) = Cardinality(D)
    <3>1. k \notin D \ {v}
      BY <2>1
    <3>2. /\ IsFiniteSet((D \ {v}) \cup {k})
          /\ Cardinality((D \ {v}) \cup {k}) = Cardinality(D \ {v}) + 1
      BY <2>3, <3>1, FS_AddElement, Zenon
    <3> QED BY <1>3, <2>3, <3>2
  <2>5. E \subseteq (D \ {v}) \cup {k}
    BY <1>6, <2>2 DEF Evicted
  <2>6. IsFiniteSet(E) /\ Cardinality(E) <= Cardinality((D \ {v}) \cup {k})
    BY <2>4, <2>5, FS_Subset
  <2>7. Cardinality(E) \in Nat
    BY <2>6, FS_CardinalityType
  <2> QED BY <1>1, <1>2, <1>3, <2>4, <2>6, <2>7
<1> QED BY <1>4, <1>5, <1>6 DEF Full

(* Every candidate is at most MAX_SEQ_AHEAD - 1 past the head. *)
LEMMA StoredNear ==
    ASSUME IInv, NEW k, NEW units, NEW content, Fragment(k, units, content),
           NEW l \in DOMAIN WithFragment(k, units, content)
    PROVE  l[1] \in expected_msg_seq .. expected_msg_seq + MAX_SEQ_AHEAD - 1
<1>1. l = k \/ l \in DOMAIN in_progress
  BY DEF WithFragment
<1>2. k[1] \in Nat /\ k[1] >= expected_msg_seq /\ k[1] - expected_msg_seq < MAX_SEQ_AHEAD
  BY DEF Fragment, Admits
<1>3. expected_msg_seq \in Nat /\ MAX_SEQ_AHEAD \in Nat
  BY LimitsAssumption DEF LimitsAssumption, IInv
<1> QED BY <1>1, <1>2, <1>3 DEF IInv, BudgetKept

-----------------------------------------------------------------------------
(* What dispatching does to it.                                            *)

(* The loop stops: a message past the flight is never consumed. *)
LEMMA Stops ==
    ASSUME expected_msg_seq \in 0 .. LastSeq + 1, NEW prog, MapOK(prog)
    PROVE  StopsAt(prog) \in expected_msg_seq .. LastSeq + 1
<1>1. LastSeq \in Nat /\ expected_msg_seq \in Nat
  BY LimitsAssumption DEF LimitsAssumption
<1>2. ~Consumed(prog, LastSeq + 1)
  <2> SUFFICES ASSUME NEW k \in DOMAIN prog, k[1] = LastSeq + 1, Valid(prog, k) PROVE FALSE
    BY DEF Consumed, Ready
  <2>1. PICK u \in DOMAIN prog[k] : TRUE
    BY DEF MapOK, CandidateOK
  <2>2. prog[k][u] = "bad"
    BY <1>1 DEF MapOK, CandidateOK
  <2>3. prog[k][u] = "good"
    BY DEF Valid
  <2> QED BY <2>2, <2>3
<1> DEFINE T == {s \in expected_msg_seq .. LastSeq + 1 : ~Consumed(prog, s)}
<1>3. PICK m \in T : \A n \in T : m <= n
  <2>1. LastSeq + 1 \in T /\ T \subseteq Nat
    BY <1>1, <1>2
  <2> HIDE DEF T
  <2> QED BY <2>1, LeastNumber
<1>4. \A r \in expected_msg_seq .. m - 1 : Consumed(prog, r)
  BY <1>1, <1>3
<1> QED BY <1>3, <1>4 DEF StopsAt

(* One record: what is left of the map once the loop stopped at s. *)
LEMMA KeptOK ==
    ASSUME NEW prog, MapOK(prog), NEW s \in Nat
    PROVE  /\ MapOK(Kept(prog, s)) /\ Ready(Kept(prog, s), s) = {}
           /\ Cardinality(DOMAIN Kept(prog, s)) <= Cardinality(DOMAIN prog)
           /\ \A k \in DOMAIN Kept(prog, s) :
                 k \in DOMAIN prog /\ k[1] >= s /\ Kept(prog, s)[k] = prog[k]
<1> DEFINE D == {k \in DOMAIN prog : k[1] > s \/ (k[1] = s /\ Ready(prog, s) = {})}
           K == Kept(prog, s)
<1>1. DOMAIN K = D /\ \A k \in D : K[k] = prog[k]
  BY DEF Kept, Restrict
<1>2. \A k \in D : k \in DOMAIN prog /\ k[1] >= s
  BY DEF MapOK, CandidateOK
<1>3. IsFiniteSet(D) /\ Cardinality(D) <= Cardinality(DOMAIN prog)
  BY FS_Subset DEF MapOK
<1>4. Ready(K, s) = {}
  <2> SUFFICES ASSUME NEW k \in DOMAIN K, k[1] = s, Complete(K, k) PROVE FALSE
    BY DEF Ready
  <2>1. k \in DOMAIN prog /\ Ready(prog, s) = {}
    BY <1>1
  <2>2. Complete(prog, k)
    BY <1>1 DEF Complete
  <2> QED BY <2>1, <2>2 DEF Ready
<1> HIDE DEF D, K
<1>5. MapOK(K)
  BY <1>1, <1>2, <1>3 DEF MapOK
<1> QED BY <1>1, <1>2, <1>3, <1>4, <1>5 DEF K

(* Whatever the record held, the invariant holds after it. *)
LEMMA FeedStep ==
    ASSUME IInv, NEW k, NEW units, NEW content, k[1] \in Nat, units # {},
           k[1] > LastSeq => content = "bad", Feed(k, units, content)
    PROVE  IInv'
<1> DEFINE prog == WithFragment(k, units, content)
           stop == StopsAt(prog)
<1>1. Fragment(k, units, content)
  BY DEF Feed, Fragment
<1>2. /\ MapOK(prog) /\ Cardinality(DOMAIN prog) <= max_in_progress
      /\ \A l \in DOMAIN prog : l[1] \in expected_msg_seq .. expected_msg_seq + MAX_SEQ_AHEAD - 1
  BY <1>1, StoredOK, StoredFits, StoredNear
<1>3. stop \in expected_msg_seq .. LastSeq + 1
  BY <1>2, Stops DEF IInv
<1>4. /\ expected_msg_seq' = stop /\ in_progress' = Kept(prog, stop)
      /\ dispatched' = dispatched \o [i \in 1 .. stop - expected_msg_seq |-> expected_msg_seq + i - 1]
  BY DEF Feed, HeadAfter
<1>5. expected_msg_seq \in Nat /\ MAX_SEQ_AHEAD \in Nat /\ LastSeq \in Nat /\ max_in_progress \in Nat
  BY LimitsAssumption DEF LimitsAssumption, IInv
<1> HIDE DEF prog, stop
<1>6. stop \in Nat /\ stop >= expected_msg_seq /\ stop <= LastSeq + 1
  BY <1>3, <1>5
<1>7. expected_msg_seq' \in 0 .. LastSeq + 1
  BY <1>4, <1>5, <1>6
<1>8. /\ MapOK(in_progress') /\ Ready(in_progress', stop) = {}
      /\ Cardinality(DOMAIN in_progress') <= Cardinality(DOMAIN prog)
      /\ \A l \in DOMAIN in_progress' : l \in DOMAIN prog /\ l[1] >= stop
  BY <1>2, <1>4, <1>6, KeptOK
<1>9. BudgetKept'
  <2>1. Cardinality(DOMAIN in_progress') <= max_in_progress
    <3>1. Cardinality(DOMAIN in_progress') \in Nat /\ Cardinality(DOMAIN prog) \in Nat
      BY <1>2, <1>8, FS_CardinalityType DEF MapOK
    <3> QED BY <1>2, <1>5, <1>8, <3>1
  <2>2. \A l \in DOMAIN in_progress' : l[1] \in stop .. stop + MAX_SEQ_AHEAD - 1
    BY <1>2, <1>5, <1>6, <1>8
  <2> QED BY <1>4, <1>8, <2>1, <2>2 DEF BudgetKept, Ready, Complete, Units
<1>10. InOrderOnce'
  <2> DEFINE old == [i \in 1 .. expected_msg_seq |-> i - 1]
             new == [i \in 1 .. stop - expected_msg_seq |-> expected_msg_seq + i - 1]
  <2>1. dispatched' = old \o new
    BY <1>4 DEF IInv, InOrderOnce
  <2>2. old \in Seq(Nat) /\ new \in Seq(Nat) /\ Len(old) = expected_msg_seq
        /\ Len(new) = stop - expected_msg_seq
    BY <1>5, <1>6
  <2>3. old \o new = [i \in 1 .. stop |-> i - 1]
    BY <1>5, <1>6, <2>2
  <2> QED BY <1>4, <2>1, <2>3 DEF InOrderOnce
<1> QED BY <1>7, <1>8, <1>9, <1>10 DEF IInv, MapOK, CandidateOK

(* IInv holds in every reachable state. *)
LEMMA Invariance == Spec => []IInv
<1>1. Init => IInv
  <2> SUFFICES ASSUME Init PROVE IInv
    OBVIOUS
  <2>1. DOMAIN in_progress = {} /\ expected_msg_seq = 0 /\ dispatched = << >>
    BY DEF Init
  <2>2. IsFiniteSet(DOMAIN in_progress) /\ Cardinality(DOMAIN in_progress) = 0
    BY <2>1, FS_EmptySet
  <2>3. MapOK(in_progress) /\ Ready(in_progress, expected_msg_seq) = {}
    BY <2>1, <2>2 DEF MapOK, Ready
  <2>4. BudgetKept
    BY <2>1, <2>2, <2>3, LimitsAssumption DEF BudgetKept, LimitsAssumption
  <2>5. InOrderOnce
    BY <2>1 DEF InOrderOnce
  <2> QED BY <2>1, <2>3, <2>4, <2>5, LimitsAssumption DEF IInv, LimitsAssumption
<1>2. IInv /\ [Next]_vars => IInv'
  <2> SUFFICES ASSUME IInv, [Next]_vars PROVE IInv'
    OBVIOUS
  <2>1. ASSUME NEW s \in 0 .. LastSeq, NEW u \in Units(Genuine), FeedGenuine(s, u)
        PROVE  IInv'
    <3>1. s \in Nat /\ ~(s > LastSeq)
      BY LimitsAssumption DEF LimitsAssumption
    <3>2. <<s, Genuine>>[1] = s /\ {u} # {}
      OBVIOUS
    <3> QED BY <2>1, <3>1, <3>2, FeedStep DEF FeedGenuine
  <2>2. ASSUME NEW k \in Keys, NEW u \in Units(k[2]), FeedSpoofed(k[1], k[2], u)
        PROVE  IInv'
    <3>1. k[1] \in Nat /\ <<k[1], k[2]>>[1] = k[1] /\ {u} # {}
      BY DEF Keys
    <3> QED BY <2>2, <3>1, FeedStep DEF FeedSpoofed
  <2>3. CASE clear_if_stalled
    <3>1. CASE UNCHANGED in_progress
      BY <2>3, <3>1 DEF clear_if_stalled, IInv, BudgetKept, InOrderOnce, MapOK, Ready, Complete
    <3>2. CASE in_progress' = [k \in {} |-> Empty]
      <4>1. DOMAIN in_progress' = {} /\ UNCHANGED <<expected_msg_seq, dispatched>>
        BY <2>3, <3>2 DEF clear_if_stalled
      <4>2. IsFiniteSet(DOMAIN in_progress') /\ Cardinality(DOMAIN in_progress') = 0
        BY <4>1, FS_EmptySet
      <4>3. MapOK(in_progress') /\ Ready(in_progress', expected_msg_seq') = {}
        BY <4>1, <4>2 DEF MapOK, Ready
      <4>4. BudgetKept'
        BY <4>1, <4>2, <4>3, LimitsAssumption DEF BudgetKept, LimitsAssumption, Ready, Complete
      <4> QED BY <4>1, <4>3, <4>4 DEF IInv, InOrderOnce, MapOK, CandidateOK
    <3> QED BY <2>3, <3>1, <3>2 DEF clear_if_stalled
  <2>4. CASE UNCHANGED vars
    BY <2>4 DEF vars, IInv, BudgetKept, InOrderOnce, MapOK, CandidateOK, Ready, Complete
  <2> QED BY <2>1, <2>2, <2>3, <2>4 DEF Next
<1> QED BY <1>1, <1>2, PTL DEF Spec

(* The memory budget holds whatever arrives, for every limit, and is spent *)
(* only on candidates that still wait for something (max_in_progress,      *)
(* drop_stale_candidates).                                                 *)
THEOREM BudgetHolds == Spec => []BudgetKept
BY Invariance, PTL DEF IInv

(* The valid messages are dispatched in message_seq order, each exactly    *)
(* once, whatever was spoofed, reordered, repeated or rewound in between.  *)
THEOREM DispatchInOrder == Spec => []InOrderOnce
BY Invariance, PTL DEF IInv

(* No fragment replaces a byte received before it while the candidate      *)
(* lives (feed, overlap-conflict scan).                                    *)
THEOREM FirstBytesStay == Spec => ReceivedBytesStay
<1> DEFINE Stay ==
      \A k \in DOMAIN in_progress \cap DOMAIN in_progress' :
        \A u \in DOMAIN in_progress[k] :
          u \in DOMAIN in_progress'[k] => in_progress'[k][u] = in_progress[k][u]
<1>1. ASSUME IInv, NEW k, NEW units, NEW content, k[1] \in Nat, units # {},
             k[1] > LastSeq => content = "bad", Feed(k, units, content)
      PROVE  Stay
  <2> DEFINE prog == WithFragment(k, units, content)
             stop == StopsAt(prog)
  <2>1. Fragment(k, units, content)
    BY <1>1 DEF Feed, Fragment
  <2>2. MapOK(prog) /\ expected_msg_seq \in 0 .. LastSeq + 1
    BY <1>1, <2>1, StoredOK DEF IInv
  <2>3. stop \in Nat
    BY <2>2, Stops, LimitsAssumption DEF LimitsAssumption
  <2>4. in_progress' = Kept(prog, stop)
    BY <1>1 DEF Feed
  <2>5. \A l \in DOMAIN in_progress' : in_progress'[l] = prog[l]
    BY <2>2, <2>3, <2>4, KeptOK
  <2>6. \A l \in DOMAIN prog : l # k => prog[l] = in_progress[l]
    BY DEF WithFragment
  <2>7. k \in DOMAIN in_progress =>
          \A u \in DOMAIN in_progress[k] : u \in DOMAIN prog[k] => prog[k][u] = in_progress[k][u]
    BY <2>1 DEF WithFragment, Stored, Fragment, Agrees
  <2>8. \A l \in DOMAIN in_progress' : l \in DOMAIN prog
    BY <2>2, <2>3, <2>4, KeptOK
  <2> HIDE DEF prog, stop
  <2> QED BY <2>5, <2>6, <2>7, <2>8
<1>2. IInv /\ [Next]_vars => [Stay]_vars
  <2> SUFFICES ASSUME IInv, Next PROVE Stay
    OBVIOUS
  <2>1. ASSUME NEW s \in 0 .. LastSeq, NEW u \in Units(Genuine), FeedGenuine(s, u)
        PROVE  Stay
    <3>1. s \in Nat /\ ~(s > LastSeq)
      BY LimitsAssumption DEF LimitsAssumption
    <3>2. <<s, Genuine>>[1] = s /\ {u} # {}
      OBVIOUS
    <3> HIDE DEF Stay
    <3> QED BY <2>1, <3>1, <3>2, <1>1 DEF FeedGenuine
  <2>2. ASSUME NEW k \in Keys, NEW u \in Units(k[2]), FeedSpoofed(k[1], k[2], u)
        PROVE  Stay
    <3>1. k[1] \in Nat /\ <<k[1], k[2]>>[1] = k[1] /\ {u} # {}
      BY DEF Keys
    <3> HIDE DEF Stay
    <3> QED BY <2>2, <3>1, <1>1 DEF FeedSpoofed
  <2>3. CASE clear_if_stalled
    BY <2>3 DEF clear_if_stalled
  <2> QED BY <2>1, <2>2, <2>3 DEF Next
<1> QED BY <1>2, Invariance, PTL DEF Spec, ReceivedBytesStay

=============================================================================
