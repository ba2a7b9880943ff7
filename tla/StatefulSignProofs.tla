------------------------- MODULE StatefulSignProofs -------------------------
(***************************************************************************)
(* No one-time key signs twice, for every kind of key, any number of       *)
(* processes and any number of signatures.                                 *)
(*                                                                         *)
(* The argument orders positions of a key lexicographically.  Signing      *)
(* moves the key to a strictly later position, and the signature it makes  *)
(* uses the leaves just before that position (SignAdvances).  A signature  *)
(* is handed out only after the position it was made at is durable, so all *)
(* that were handed out lie up to the durable position, and whatever is    *)
(* signed next starts from a file that is no earlier, crash or not.        *)
(*                                                                         *)
(* remaining() is counted against the same positions: those of the levels  *)
(* from m on that lie past the key's own are the unused leaves of level m, *)
(* each over every tail of the levels below, and the tails past the        *)
(* position below the present leaf (Counts).  The saturated loop keeps     *)
(* both numbers modulo saturation (CountStep).                             *)
(***************************************************************************)
EXTENDS StatefulSign, SetInduction, FiniteSetTheorems

(* The lexicographic order of positions, and its reflexive form.           *)
Before(s, a, b) ==
    \E i \in Level(s) : a[i] < b[i] /\ \A j \in Level(s) : j < i => a[j] = b[j]

UpTo(s, a, b) == Before(s, a, b) \/ a = b

Positions(s) == [Level(s) -> Int]

(* A key in its range whose upper levels have signed with the last leaf    *)
(* they reserved.                                                          *)
GoodKey(s, k) ==
    /\ k \in KeyStates(s)
    /\ \A i \in Upper(s) : k.pubs[i] = [leaf |-> k.q[i] - 1, c |-> 0]

GoodFile(s, f) ==
    /\ f.synced = TRUE
    /\ GoodKey(s, from_bytes(s, f.key, 0))
    /\ Parses(s, f.key)

Position(s, f) == from_bytes(s, f.key, 0).q

GoodSig(s, g) ==
    /\ g.path \in [Level(s) -> Nat]
    /\ \A i \in Level(s) : g.path[i] < s.leaves[i]
    /\ \A i \in Upper(s) : g.pubs[i] = [leaf |-> g.path[i], c |-> 0]

(* The position a signature leaves its key at.                             *)
After(s, g) == [i \in Level(s) |-> g.path[i] + 1]

-----------------------------------------------------------------------------
(* The order.                                                              *)

(* Positions are compared like numbers.                                    *)
LEMMA BeforeTransitive ==
    ASSUME NEW s \in Schemes, NEW a \in Positions(s), NEW b \in Positions(s),
           NEW c \in Positions(s), Before(s, a, b), Before(s, b, c)
    PROVE  Before(s, a, c)
<1> USE SchemesAssumption DEF SchemesAssumption, Positions, Level
<1>1. PICK i \in Level(s) : a[i] < b[i] /\ \A j \in Level(s) : j < i => a[j] = b[j]
  BY DEF Before
<1>2. PICK k \in Level(s) : b[k] < c[k] /\ \A j \in Level(s) : j < k => b[j] = c[j]
  BY DEF Before
<1>3. CASE i <= k
  <2>1. a[i] < c[i]
    BY <1>1, <1>2, <1>3
  <2>2. \A j \in Level(s) : j < i => a[j] = c[j]
    BY <1>1, <1>2, <1>3
  <2> QED BY <2>1, <2>2 DEF Before
<1>4. CASE k < i
  <2>1. a[k] < c[k]
    BY <1>1, <1>2, <1>4
  <2>2. \A j \in Level(s) : j < k => a[j] = c[j]
    BY <1>1, <1>2, <1>4
  <2> QED BY <2>1, <2>2 DEF Before
<1> QED BY <1>3, <1>4

(* The reflexive form composes with itself and with the strict one.        *)
LEMMA UpToTransitive ==
    ASSUME NEW s \in Schemes, NEW a \in Positions(s), NEW b \in Positions(s),
           NEW c \in Positions(s), UpTo(s, a, b), UpTo(s, b, c)
    PROVE  UpTo(s, a, c) /\ (Before(s, b, c) => Before(s, a, c))
BY BeforeTransitive DEF UpTo

(* Signatures made at different positions use different bottom keys.       *)
LEMMA LaterPathDiffers ==
    ASSUME NEW s \in Schemes, NEW g, NEW h, GoodSig(s, g), GoodSig(s, h),
           Before(s, After(s, g), After(s, h))
    PROVE  g.path # h.path
<1>1. PICK i \in Level(s) : After(s, g)[i] < After(s, h)[i]
  BY DEF Before
<1> QED BY <1>1 DEF After, GoodSig

(* Positions of keys, files and signatures are positions.                  *)
LEMMA PositionTypes ==
    /\ \A s, k : GoodKey(s, k) => k.q \in Positions(s)
    /\ \A s, f : GoodFile(s, f) => Position(s, f) \in Positions(s)
    /\ \A s, g : GoodSig(s, g) => After(s, g) \in Positions(s)
<1>1. ASSUME NEW s, NEW k, GoodKey(s, k) PROVE k.q \in Positions(s)
  BY <1>1 DEF GoodKey, KeyStates, Positions
<1>2. ASSUME NEW s, NEW f, GoodFile(s, f) PROVE Position(s, f) \in Positions(s)
  BY <1>1, <1>2 DEF GoodFile, Position
<1>3. ASSUME NEW s, NEW g, GoodSig(s, g) PROVE After(s, g) \in Positions(s)
  BY <1>3 DEF GoodSig, After, Positions
<1> QED BY <1>1, <1>2, <1>3

-----------------------------------------------------------------------------
(* The key.                                                                *)

(* A field stores every index below its span.                              *)
LEMMA FieldHolds ==
    ASSUME NEW s \in Schemes, NEW n \in Nat, n < s.span
    PROVE  idx_to_bytes(s, n) = n
<1>1. s.span \in Nat /\ s.span > 0
  BY SchemesAssumption DEF SchemesAssumption
<1> QED BY <1>1, SMT DEF idx_to_bytes

(* Signing moves the key on and names the leaves it moved past.            *)
LEMMA SignAdvances ==
    ASSUME NEW s \in Schemes, NEW k, GoodKey(s, k), NEW live \in Level(s),
           IsLive(s, k, live), NEW msg
    PROVE  /\ GoodKey(s, signed_key(s, k, live, msg))
           /\ GoodSig(s, assemble(s, k, live, msg))
           /\ After(s, assemble(s, k, live, msg)) = signed_key(s, k, live, msg).q
           /\ Before(s, k.q, signed_key(s, k, live, msg).q)
<1> DEFINE K == signed_key(s, k, live, msg)
           G == assemble(s, k, live, msg)
<1>1. /\ s.depth \in Nat \ {0} /\ s.span \in Nat
      /\ \A i \in Level(s) :
            /\ s.leaves[i] \in Nat /\ 2 <= s.leaves[i] /\ s.leaves[i] <= s.span
            /\ exhausted_index(s, i) \in Nat
            /\ 1 <= exhausted_index(s, i)
            /\ exhausted_index(s, i) < s.span
            /\ exhausted_index(s, i) <= s.leaves[i]
  BY SchemesAssumption DEF SchemesAssumption, Level, exhausted_index
<1>2. /\ k.q \in [Level(s) -> Nat] /\ k.pubs \in [Upper(s) -> [leaf : Nat, c : {0}]]
      /\ \A i \in Level(s) : k.q[i] <= exhausted_index(s, i)
      /\ \A i \in Upper(s) : k.pubs[i] = [leaf |-> k.q[i] - 1, c |-> 0]
  BY DEF GoodKey, KeyStates
<1>3. k.q[live] < exhausted_index(s, live)
  BY <1>1, <1>2 DEF IsLive, is_exhausted
<1>4. \A i \in Level(s) :
        /\ Reserved(s, k, live, i) \in Nat
        /\ i >= live => Reserved(s, k, live, i) < exhausted_index(s, i)
  BY <1>1, <1>2, <1>3 DEF Reserved, Level
<1>5. \A i \in Level(s) :
        reserve_leaf(s, k, live, i)
            = IF i < live THEN k.q[i] ELSE Reserved(s, k, live, i) + 1
  BY <1>1, <1>4, FieldHolds DEF reserve_leaf, Level
<1>6. /\ K.q = [i \in Level(s) |-> reserve_leaf(s, k, live, i)]
      /\ K.pubs = [i \in Upper(s) |->
            IF i < live THEN k.pubs[i] ELSE [leaf |-> Reserved(s, k, live, i), c |-> 0]]
  BY DEF signed_key, SignedPub, derive_c
<1>7. Upper(s) \subseteq Level(s) /\ Level(s) \subseteq Nat
  BY <1>1 DEF Upper, Level
<1>8. G.path = [i \in Level(s) |->
                    IF i < live THEN k.pubs[i].leaf ELSE Reserved(s, k, live, i)]
  BY DEF assemble
<1>9. G.pubs = K.pubs /\ K = [q |-> K.q, pubs |-> K.pubs]
  BY DEF assemble, signed_key
<1> HIDE DEF K, G
<1>10. \A i \in Level(s) :
        K.q[i] = IF i < live THEN k.q[i] ELSE Reserved(s, k, live, i) + 1
  BY <1>5, <1>6
<1>11. K.q \in [Level(s) -> Nat] /\ \A i \in Level(s) : K.q[i] <= exhausted_index(s, i)
  <2>1. \A i \in Level(s) : K.q[i] \in Nat /\ K.q[i] <= exhausted_index(s, i)
    BY <1>1, <1>2, <1>4, <1>7, <1>10
  <2> QED BY <1>6, <2>1
<1>12. \A i \in Upper(s) : K.pubs[i] = [leaf |-> K.q[i] - 1, c |-> 0]
  BY <1>2, <1>4, <1>5, <1>6, <1>7
<1>13. K.pubs \in [Upper(s) -> [leaf : Nat, c : {0}]]
  BY <1>2, <1>4, <1>6, <1>7
<1>14. GoodKey(s, K)
  BY <1>11, <1>12, <1>13, <1>9 DEF GoodKey, KeyStates
<1>15. \A i \in Level(s) : G.path[i] = K.q[i] - 1 /\ G.path[i] \in Nat
  <2> SUFFICES ASSUME NEW i \in Level(s)
               PROVE  G.path[i] = K.q[i] - 1 /\ G.path[i] \in Nat
    OBVIOUS
  <2>1. CASE i < live
    <3>1. i \in Upper(s)
      BY <1>1, <2>1 DEF Level, Upper
    <3>2. G.path[i] = k.pubs[i].leaf /\ K.q[i] = k.q[i]
      BY <1>8, <1>10, <2>1
    <3>3. k.pubs[i].leaf = k.q[i] - 1
      <4>1. k.pubs[i] = [leaf |-> k.q[i] - 1, c |-> 0]
        BY <1>2, <3>1
      <4> QED BY <4>1
    <3>4. k.pubs[i] \in [leaf : Nat, c : {0}]
      BY <1>2, <3>1
    <3> QED BY <3>2, <3>3, <3>4
  <2>2. CASE ~(i < live)
    BY <1>4, <1>8, <1>10, <2>2
  <2> QED BY <2>1, <2>2
<1>16. GoodSig(s, G)
  <2>1. G.path \in [Level(s) -> Nat]
    BY <1>15, <1>8
  <2>2. \A i \in Level(s) : G.path[i] < s.leaves[i]
    BY <1>1, <1>11, <1>15
  <2> QED BY <1>7, <1>12, <1>15, <1>9, <2>1, <2>2 DEF GoodSig
<1>17. After(s, G) = K.q
  BY <1>6, <1>11, <1>15 DEF After
<1>18. Before(s, k.q, K.q)
  <2>1. k.q[live] < K.q[live]
    BY <1>2, <1>7, <1>10 DEF Reserved
  <2>2. \A j \in Level(s) : j < live => k.q[j] = K.q[j]
    BY <1>10
  <2> QED BY <2>1, <2>2 DEF Before
<1> QED BY <1>14, <1>16, <1>17, <1>18 DEF K, G

(* What is written is read back.                                           *)
LEMMA RoundTrip ==
    ASSUME NEW s \in Schemes, NEW k, GoodKey(s, k)
    PROVE  GoodFile(s, SyncedFile(to_bytes(k))) /\ Position(s, SyncedFile(to_bytes(k))) = k.q
<1> DEFINE f == SyncedFile(to_bytes(k))
<1>1. /\ f.synced = TRUE /\ f.key.form = "tagged"
      /\ f.key.q = k.q /\ f.key.pubs = k.pubs
  BY DEF SyncedFile, to_bytes
<1>2. k \in KeyStates(s)
  BY DEF GoodKey
<1>3. k = [q |-> k.q, pubs |-> k.pubs] /\ k.q \in [Level(s) -> Nat]
  BY <1>2 DEF KeyStates
<1>4. from_bytes(s, f.key, 0) = k
  BY <1>1, <1>3 DEF from_bytes
<1>5. Upper(s) \subseteq Level(s)
  BY SchemesAssumption DEF SchemesAssumption, Upper, Level
<1>6. Parses(s, f.key)
  <2>1. \A i \in Level(s) : k.q[i] <= exhausted_index(s, i)
    BY <1>2 DEF KeyStates
  <2>2. ASSUME NEW i \in Upper(s) PROVE k.pubs[i].leaf < k.q[i]
    <3>1. k.pubs[i] = [leaf |-> k.q[i] - 1, c |-> 0]
      BY DEF GoodKey
    <3>2. k.pubs[i].leaf = k.q[i] - 1
      BY <3>1
    <3>3. k.q[i] \in Nat
      BY <1>3, <1>5
    <3> QED BY <3>2, <3>3
  <2> QED BY <1>1, <2>1, <2>2 DEF Parses
<1> QED BY <1>1, <1>4, <1>6 DEF GoodFile, Position

(* The message plays no part in loading a key.                             *)
LEMMA LoadIgnoresMessage ==
    \A s, f, m : from_bytes(s, f, m) = from_bytes(s, f, 0)
BY DEF from_bytes, SignedPub, derive_c

-----------------------------------------------------------------------------
(* The inductive invariant.                                                *)

(* A signature that will be handed out unless its process fails.           *)
Pledged == {"durable", "unlocked"}

(* What is true of a process, given lock, file and durable file: it holds  *)
(* the lock where it should; the key it loaded is the one in the file; the *)
(* key it signed with is past the file until it is the file, and what it   *)
(* renamed is past the durable file until it is that.                      *)
ProcessOK(s, l, f, d, p, c, m, g, t) ==
    /\ c \in Critical => l = p
    /\ c = "loaded" => m = from_bytes(s, f.key, 0)
    /\ c \in {"signed", "written", "synced"} =>
          /\ GoodKey(s, m) /\ GoodSig(s, g)
          /\ After(s, g) = m.q /\ Before(s, Position(s, f), m.q)
    /\ c = "written" => t = [key |-> to_bytes(m), synced |-> FALSE]
    /\ c = "synced" => t = SyncedFile(to_bytes(m))
    /\ c = "renamed" =>
          /\ GoodKey(s, m) /\ GoodSig(s, g)
          /\ After(s, g) = Position(s, f) /\ Before(s, Position(s, d), Position(s, f))
    /\ c = "durable" => GoodKey(s, m)
    /\ c \in Pledged => GoodSig(s, g) /\ UpTo(s, After(s, g), Position(s, d))

Ranges ==
    /\ scheme \in Schemes
    /\ lock \in Process \cup {NoOwner, Stale}
    /\ pc \in [Process -> PC]
    /\ DOMAIN mem = Process /\ DOMAIN sig = Process /\ DOMAIN tmp = Process
    /\ made \in 0 .. MaxMessages

FilesOK ==
    /\ GoodFile(scheme, file) /\ GoodFile(scheme, durable)
    /\ UpTo(scheme, Position(scheme, durable), Position(scheme, file))

ProcessesOK ==
    \A p \in Process :
        ProcessOK(scheme, lock, file, durable, p, pc[p], mem[p], sig[p], tmp[p])

ReleasedOK ==
    \A g \in released :
        GoodSig(scheme, g) /\ UpTo(scheme, After(scheme, g), Position(scheme, durable))

(* Signatures handed out, or about to be, have different bottom keys.      *)
Distinct ==
    /\ \A a, b \in released : a # b => a.path # b.path
    /\ \A g \in released : \A p \in Process : pc[p] \in Pledged => g.path # sig[p].path
    /\ \A p, r \in Process :
          p # r /\ pc[p] \in Pledged /\ pc[r] \in Pledged => sig[p].path # sig[r].path

IInv == Ranges /\ FilesOK /\ ProcessesOK /\ ReleasedOK /\ Distinct

-----------------------------------------------------------------------------
(* Steps.                                                                  *)

(* A step of one process that leaves the files and the signatures alone    *)
(* keeps the invariant if it keeps what is true of that process and takes  *)
(* the lock from no other.                                                 *)
LEMMA LocalStep ==
    ASSUME IInv, NEW p \in Process,
           UNCHANGED <<scheme, file, durable, released>>,
           Ranges',
           \A r \in Process \ {p} :
                /\ pc'[r] = pc[r] /\ mem'[r] = mem[r] /\ sig'[r] = sig[r] /\ tmp'[r] = tmp[r]
                /\ pc[r] \in Critical => lock' = r,
           ProcessOK(scheme, lock', file, durable, p, pc'[p], mem'[p], sig'[p], tmp'[p]),
           pc'[p] \in Pledged => pc[p] \in Pledged /\ sig'[p] = sig[p]
    PROVE  IInv'
<1>1. FilesOK' /\ ReleasedOK'
  BY DEF IInv, FilesOK, ReleasedOK
<1>2. ASSUME NEW r \in Process
      PROVE  ProcessOK(scheme, lock', file, durable, r, pc'[r], mem'[r], sig'[r], tmp'[r])
  <2>1. CASE r = p
    BY <2>1
  <2>2. CASE r # p
    <3>1. ProcessOK(scheme, lock, file, durable, r, pc[r], mem[r], sig[r], tmp[r])
      BY DEF IInv, ProcessesOK
    <3>2. /\ pc'[r] = pc[r] /\ mem'[r] = mem[r] /\ sig'[r] = sig[r] /\ tmp'[r] = tmp[r]
          /\ pc[r] \in Critical => lock' = r
      BY <2>2
    <3> QED BY <3>1, <3>2 DEF ProcessOK
  <2> QED BY <2>1, <2>2
<1>3. ProcessesOK'
  BY <1>2 DEF ProcessesOK
<1>4. \A r \in Process : pc'[r] \in Pledged => pc[r] \in Pledged /\ sig'[r] = sig[r]
  OBVIOUS
<1>5. Distinct'
  BY <1>4 DEF IInv, Distinct
<1> QED BY <1>1, <1>3, <1>5 DEF IInv

(* While one process is between taking and dropping the lock, no other is. *)
LEMMA Exclusion ==
    ASSUME IInv, NEW p \in Process, pc[p] \in Critical
    PROVE  lock = p /\ \A r \in Process \ {p} : pc[r] \notin Critical
BY DEF IInv, ProcessesOK, ProcessOK

(* Nobody is there while the lock is free or stale.                        *)
LEMMA Vacancy ==
    ASSUME IInv, lock \in {NoOwner, Stale}, NEW p \in Process
    PROVE  pc[p] \notin Critical
BY ProcessAssumption DEF ProcessAssumption, IInv, ProcessesOK, ProcessOK

(* A process that ends, in any way, takes only its own state with it.      *)
LEMMA EndStep ==
    ASSUME IInv, NEW p \in Process, NEW x \in {NoOwner, Stale}, Forget(p),
           lock' = IF pc[p] \in Critical THEN x ELSE lock,
           UNCHANGED <<scheme, file, durable, released, made>>
    PROVE  IInv'
<1>1. Ranges'
  BY DEF IInv, Ranges, Forget, PC
<1>2. \A r \in Process \ {p} :
        pc'[r] = pc[r] /\ mem'[r] = mem[r] /\ sig'[r] = sig[r] /\ tmp'[r] = tmp[r]
  BY DEF IInv, Ranges, Forget
<1>3. \A r \in Process \ {p} : pc[r] \in Critical => lock' = r
  <2>1. \A r \in Process : pc[r] \in Critical => lock = r
    BY DEF IInv, ProcessesOK, ProcessOK
  <2> QED BY <2>1, Exclusion
<1>4. pc'[p] = "idle"
  BY DEF IInv, Ranges, Forget
<1>5. ProcessOK(scheme, lock', file, durable, p, pc'[p], mem'[p], sig'[p], tmp'[p])
  BY <1>4 DEF ProcessOK, Critical, Pledged
<1>6. pc'[p] \notin Pledged
  BY <1>4 DEF Pledged
<1> QED BY <1>1, <1>2, <1>3, <1>5, <1>6, LocalStep

(* A step of a process that holds the lock and keeps it, up to the rename. *)
LEMMA HolderStep ==
    ASSUME IInv, NEW p \in Process, pc[p] \in Critical, NEW c \in Critical \ Pledged,
           Goto(p, c), UNCHANGED <<scheme, file, durable, released, lock>>,
           DOMAIN mem' = Process, DOMAIN sig' = Process, DOMAIN tmp' = Process,
           \A r \in Process \ {p} : mem'[r] = mem[r] /\ sig'[r] = sig[r] /\ tmp'[r] = tmp[r],
           made' \in 0 .. MaxMessages,
           ProcessOK(scheme, lock, file, durable, p, c, mem'[p], sig'[p], tmp'[p])
    PROVE  IInv'
<1>1. pc \in [Process -> PC] /\ pc' = [pc EXCEPT ![p] = c]
  BY DEF IInv, Ranges, Goto
<1>2. pc' \in [Process -> PC] /\ pc'[p] = c /\ \A r \in Process \ {p} : pc'[r] = pc[r]
  BY <1>1 DEF PC
<1>3. Ranges'
  BY <1>2 DEF IInv, Ranges
<1>4. \A r \in Process \ {p} : pc[r] \in Critical => lock' = r
  BY Exclusion
<1>5. ProcessOK(scheme, lock', file, durable, p, pc'[p], mem'[p], sig'[p], tmp'[p])
  BY <1>2
<1>6. pc'[p] \notin Pledged
  BY <1>2
<1> QED BY <1>2, <1>3, <1>4, <1>5, <1>6, LocalStep

(* Beginning takes no lock.                                                *)
LEMMA StartStep ==
    ASSUME IInv, NEW p \in Process, Start(p)
    PROVE  IInv'
<1>1. pc \in [Process -> PC] /\ pc' = [pc EXCEPT ![p] = "waiting"]
  BY DEF IInv, Ranges, Start, Goto
<1>2. /\ pc' \in [Process -> PC] /\ pc'[p] = "waiting"
      /\ \A r \in Process \ {p} : pc'[r] = pc[r]
  BY <1>1 DEF PC
<1>3. Ranges'
  BY <1>2 DEF IInv, Ranges, Start
<1>4. \A r \in Process \ {p} : pc[r] \in Critical => lock' = r
  BY DEF IInv, ProcessesOK, ProcessOK, Start
<1>5. ProcessOK(scheme, lock', file, durable, p, pc'[p], mem'[p], sig'[p], tmp'[p])
  BY <1>2 DEF ProcessOK, Critical, Pledged
<1>6. pc'[p] \notin Pledged
  BY <1>2 DEF Pledged
<1> QED BY <1>2, <1>3, <1>4, <1>5, <1>6, LocalStep DEF Start

(* The lock is taken from nobody.                                          *)
LEMMA AcquireStep ==
    ASSUME IInv, NEW p \in Process, Acquire(p)
    PROVE  IInv'
<1>1. pc \in [Process -> PC] /\ pc' = [pc EXCEPT ![p] = "locked"]
  BY DEF IInv, Ranges, Acquire, Goto
<1>2. /\ pc' \in [Process -> PC] /\ pc'[p] = "locked"
      /\ \A r \in Process \ {p} : pc'[r] = pc[r]
  BY <1>1 DEF PC, Critical
<1>3. Ranges'
  BY <1>2 DEF IInv, Ranges, Acquire
<1>4. \A r \in Process \ {p} : pc[r] \notin Critical
  BY Vacancy DEF Acquire
<1>5. ProcessOK(scheme, lock', file, durable, p, pc'[p], mem'[p], sig'[p], tmp'[p])
  BY <1>2 DEF ProcessOK, Pledged, Acquire
<1>6. pc'[p] \notin Pledged
  BY <1>2 DEF Pledged
<1> QED BY <1>2, <1>3, <1>4, <1>5, <1>6, LocalStep DEF Acquire

(* The key that is loaded is the one in the file.                          *)
LEMMA LoadStep ==
    ASSUME IInv, NEW p \in Process, Load(p)
    PROVE  IInv'
<1>1. mem'[p] = from_bytes(scheme, file.key, 0)
  BY LoadIgnoresMessage DEF IInv, Ranges, Load
<1>2. pc[p] \in Critical /\ lock = p /\ "loaded" \in Critical \ Pledged
  BY Exclusion DEF Load, Critical, Pledged
<1>3. ProcessOK(scheme, lock, file, durable, p, "loaded", mem'[p], sig'[p], tmp'[p])
  BY <1>1, <1>2 DEF ProcessOK, Pledged
<1> QED BY <1>2, <1>3, HolderStep DEF Load, IInv, Ranges

(* The signature is made past the position of the file.                    *)
LEMMA SignStep ==
    ASSUME IInv, NEW p \in Process, Sign(p)
    PROVE  IInv'
<1>1. pc[p] \in Critical /\ lock = p /\ "signed" \in Critical \ Pledged
  BY Exclusion DEF Sign, Critical, Pledged
<1>2. mem[p] = from_bytes(scheme, file.key, 0) /\ GoodKey(scheme, mem[p])
  BY DEF Sign, IInv, ProcessesOK, ProcessOK, FilesOK, GoodFile
<1>3. PICK live \in Level(scheme) :
        /\ IsLive(scheme, mem[p], live)
        /\ sig' = [sig EXCEPT ![p] = assemble(scheme, mem[p], live, made')]
        /\ mem' = [mem EXCEPT ![p] = signed_key(scheme, mem[p], live, made')]
  BY DEF Sign
<1>4. /\ sig'[p] = assemble(scheme, mem[p], live, made')
      /\ mem'[p] = signed_key(scheme, mem[p], live, made')
      /\ DOMAIN mem' = Process /\ DOMAIN sig' = Process /\ DOMAIN tmp' = Process
      /\ \A r \in Process \ {p} : mem'[r] = mem[r] /\ sig'[r] = sig[r] /\ tmp'[r] = tmp[r]
  BY <1>3 DEF IInv, Ranges, Sign
<1>5. /\ GoodKey(scheme, mem'[p]) /\ GoodSig(scheme, sig'[p])
      /\ After(scheme, sig'[p]) = mem'[p].q /\ Before(scheme, mem[p].q, mem'[p].q)
  BY <1>2, <1>3, <1>4, SignAdvances DEF IInv, Ranges
<1>6. Position(scheme, file) = mem[p].q
  BY <1>2 DEF Position
<1>7. ProcessOK(scheme, lock, file, durable, p, "signed", mem'[p], sig'[p], tmp'[p])
  BY <1>1, <1>5, <1>6 DEF ProcessOK, Pledged
<1>8. made' \in 0 .. MaxMessages
  BY MaxMessagesAssumption DEF MaxMessagesAssumption, IInv, Ranges, Sign
<1> QED BY <1>1, <1>4, <1>7, <1>8, HolderStep DEF Sign

(* The temporary file holds the advanced key.                              *)
LEMMA WriteTmpStep ==
    ASSUME IInv, NEW p \in Process, WriteTmp(p)
    PROVE  IInv'
<1>1. pc[p] \in Critical /\ lock = p /\ "written" \in Critical \ Pledged
  BY Exclusion DEF WriteTmp, Critical, Pledged
<1>2. /\ tmp'[p] = [key |-> to_bytes(mem[p]), synced |-> FALSE]
      /\ mem' = mem /\ sig' = sig /\ pc[p] = "signed"
  BY DEF WriteTmp, IInv, Ranges
<1>3. ProcessOK(scheme, lock, file, durable, p, pc[p], mem[p], sig[p], tmp[p])
  BY DEF IInv, ProcessesOK
<1>4. ProcessOK(scheme, lock, file, durable, p, "written", mem'[p], sig'[p], tmp'[p])
  BY <1>1, <1>2, <1>3 DEF ProcessOK, Pledged
<1> QED BY <1>1, <1>4, HolderStep DEF WriteTmp, IInv, Ranges

(* Syncing does not change it.                                             *)
LEMMA SyncTmpStep ==
    ASSUME IInv, NEW p \in Process, SyncTmp(p)
    PROVE  IInv'
<1>1. pc[p] \in Critical /\ lock = p /\ "synced" \in Critical \ Pledged
  BY Exclusion DEF SyncTmp, Critical, Pledged
<1>2. ProcessOK(scheme, lock, file, durable, p, pc[p], mem[p], sig[p], tmp[p])
  BY DEF IInv, ProcessesOK
<1>3. /\ tmp[p] = [key |-> to_bytes(mem[p]), synced |-> FALSE]
      /\ mem' = mem /\ sig' = sig /\ pc[p] = "written"
  BY <1>2 DEF SyncTmp, ProcessOK
<1>4. tmp'[p] = SyncedFile(to_bytes(mem[p]))
  <2>1. tmp'[p] = SyncedFile(tmp[p].key)
    BY DEF SyncTmp, IInv, Ranges
  <2>2. tmp[p].key = to_bytes(mem[p])
    BY <1>3
  <2> QED BY <2>1, <2>2
<1>5. ProcessOK(scheme, lock, file, durable, p, "synced", mem'[p], sig'[p], tmp'[p])
  BY <1>1, <1>2, <1>3, <1>4 DEF ProcessOK, Pledged
<1> QED BY <1>1, <1>5, HolderStep DEF SyncTmp, IInv, Ranges

(* The only other processes while one holds the lock have their signature  *)
(* already, or have not begun.                                             *)
LEMMA OthersOK ==
    ASSUME IInv, NEW p \in Process, pc[p] \in Critical, NEW r \in Process \ {p},
           NEW l, NEW f, NEW d, GoodFile(scheme, d),
           UpTo(scheme, Position(scheme, durable), Position(scheme, d))
    PROVE  ProcessOK(scheme, l, f, d, r, pc[r], mem[r], sig[r], tmp[r])
<1>1. pc[r] \notin Critical
  BY Exclusion
<1>2. ProcessOK(scheme, lock, file, durable, r, pc[r], mem[r], sig[r], tmp[r])
  BY DEF IInv, ProcessesOK
<1>3. CASE pc[r] \in Pledged
  <2>1. /\ After(scheme, sig[r]) \in Positions(scheme)
        /\ Position(scheme, durable) \in Positions(scheme)
        /\ Position(scheme, d) \in Positions(scheme)
    BY <1>2, <1>3, PositionTypes DEF ProcessOK, IInv, FilesOK
  <2>2. UpTo(scheme, After(scheme, sig[r]), Position(scheme, d))
    BY <1>2, <1>3, <2>1, UpToTransitive DEF ProcessOK, IInv, Ranges
  <2> QED BY <1>1, <1>2, <1>3, <2>2 DEF ProcessOK, Critical
<1>4. CASE pc[r] \notin Pledged
  BY <1>1, <1>4 DEF ProcessOK, Critical
<1> QED BY <1>3, <1>4

(* The file becomes the advanced key, past the durable one.                *)
LEMMA RenameStep ==
    ASSUME IInv, NEW p \in Process, Rename(p)
    PROVE  IInv'
<1>1. pc[p] = "synced" /\ pc[p] \in Critical /\ lock = p
  BY Exclusion DEF Rename, Critical
<1>2. /\ GoodKey(scheme, mem[p]) /\ GoodSig(scheme, sig[p])
      /\ After(scheme, sig[p]) = mem[p].q
      /\ Before(scheme, Position(scheme, file), mem[p].q)
      /\ tmp[p] = SyncedFile(to_bytes(mem[p]))
  BY <1>1 DEF IInv, ProcessesOK, ProcessOK
<1>3. GoodFile(scheme, file') /\ Position(scheme, file') = mem[p].q
  BY <1>2, RoundTrip DEF Rename, IInv, Ranges
<1>4. Before(scheme, Position(scheme, durable), Position(scheme, file'))
  <2>1. /\ Position(scheme, durable) \in Positions(scheme)
        /\ Position(scheme, file) \in Positions(scheme)
        /\ mem[p].q \in Positions(scheme)
    BY <1>2, PositionTypes DEF IInv, FilesOK
  <2>2. UpTo(scheme, Position(scheme, file), mem[p].q)
    BY <1>2 DEF UpTo
  <2> QED BY <1>2, <1>3, <2>1, <2>2, UpToTransitive DEF IInv, FilesOK, Ranges
<1>5. /\ pc' \in [Process -> PC] /\ pc'[p] = "renamed"
      /\ \A r \in Process \ {p} : pc'[r] = pc[r]
  <2>1. pc \in [Process -> PC] /\ pc' = [pc EXCEPT ![p] = "renamed"]
    BY DEF IInv, Ranges, Rename, Goto
  <2> QED BY <2>1 DEF PC, Critical
<1>6. /\ DOMAIN tmp' = Process /\ \A r \in Process \ {p} : tmp'[r] = tmp[r]
      /\ UNCHANGED <<scheme, durable, lock, mem, sig, released, made>>
  BY DEF IInv, Ranges, Rename
<1>7. Ranges'
  BY <1>5, <1>6 DEF IInv, Ranges
<1>8. FilesOK'
  BY <1>3, <1>4, <1>6 DEF IInv, FilesOK, UpTo
<1>9. ASSUME NEW r \in Process
      PROVE  ProcessOK(scheme, lock, file', durable, r, pc'[r], mem[r], sig[r], tmp'[r])
  <2>1. CASE r = p
    BY <1>1, <1>2, <1>3, <1>4, <1>5, <2>1 DEF ProcessOK, Pledged
  <2>2. CASE r # p
    <3>1. GoodFile(scheme, durable)
          /\ UpTo(scheme, Position(scheme, durable), Position(scheme, durable))
      BY DEF IInv, FilesOK, UpTo
    <3>2. ProcessOK(scheme, lock, file', durable, r, pc[r], mem[r], sig[r], tmp[r])
      BY <1>1, <2>2, <3>1, OthersOK
    <3> QED BY <1>5, <1>6, <2>2, <3>2
  <2> QED BY <2>1, <2>2
<1>10. ProcessesOK'
  BY <1>6, <1>9 DEF ProcessesOK
<1>11. ReleasedOK'
  BY <1>6 DEF IInv, ReleasedOK
<1>12. \A r \in Process : pc'[r] \in Pledged => pc[r] \in Pledged
  BY <1>5 DEF Pledged
<1>13. Distinct'
  BY <1>6, <1>12 DEF IInv, Distinct
<1> QED BY <1>7, <1>8, <1>10, <1>11, <1>13 DEF IInv

(* What was handed out or pledged before is behind what becomes durable.   *)
LEMMA SyncDirStep ==
    ASSUME IInv, NEW p \in Process, SyncDir(p)
    PROVE  IInv'
<1>1. pc[p] = "renamed" /\ pc[p] \in Critical /\ lock = p
  BY Exclusion DEF SyncDir, Critical
<1>2. /\ GoodKey(scheme, mem[p]) /\ GoodSig(scheme, sig[p])
      /\ After(scheme, sig[p]) = Position(scheme, file)
      /\ Before(scheme, Position(scheme, durable), Position(scheme, file))
  BY <1>1 DEF IInv, ProcessesOK, ProcessOK
<1>3. /\ pc' \in [Process -> PC] /\ pc'[p] = "durable"
      /\ \A r \in Process \ {p} : pc'[r] = pc[r]
  <2>1. pc \in [Process -> PC] /\ pc' = [pc EXCEPT ![p] = "durable"]
    BY DEF IInv, Ranges, SyncDir, Goto
  <2> QED BY <2>1 DEF PC, Critical
<1>4. durable' = file /\ UNCHANGED <<scheme, file, lock, mem, sig, tmp, released, made>>
  BY DEF SyncDir
<1>5. /\ GoodFile(scheme, file)
      /\ UpTo(scheme, Position(scheme, durable), Position(scheme, file))
      /\ Position(scheme, durable) \in Positions(scheme)
      /\ Position(scheme, file) \in Positions(scheme)
  BY PositionTypes DEF IInv, FilesOK
<1>6. ASSUME NEW g, GoodSig(scheme, g),
             UpTo(scheme, After(scheme, g), Position(scheme, durable))
      PROVE  /\ UpTo(scheme, After(scheme, g), Position(scheme, file))
             /\ g.path # sig[p].path
  <2>1. After(scheme, g) \in Positions(scheme)
    BY <1>6, PositionTypes
  <2>2. /\ UpTo(scheme, After(scheme, g), Position(scheme, file))
        /\ Before(scheme, After(scheme, g), After(scheme, sig[p]))
    BY <1>2, <1>5, <1>6, <2>1, UpToTransitive DEF IInv, Ranges
  <2> QED BY <1>2, <1>6, <2>2, LaterPathDiffers DEF IInv, Ranges
<1>7. Ranges'
  BY <1>3, <1>4 DEF IInv, Ranges
<1>8. FilesOK'
  BY <1>4, <1>5 DEF FilesOK, UpTo
<1>9. ASSUME NEW r \in Process
      PROVE  ProcessOK(scheme, lock, file, file, r, pc'[r], mem[r], sig[r], tmp[r])
  <2>1. CASE r = p
    BY <1>1, <1>2, <1>3, <2>1 DEF ProcessOK, UpTo
  <2>2. CASE r # p
    <3>1. ProcessOK(scheme, lock, file, file, r, pc[r], mem[r], sig[r], tmp[r])
      BY <1>1, <1>5, <2>2, OthersOK
    <3> QED BY <1>3, <2>2, <3>1
  <2> QED BY <2>1, <2>2
<1>10. ProcessesOK'
  BY <1>4, <1>9 DEF ProcessesOK
<1>11. ReleasedOK'
  BY <1>4, <1>6 DEF IInv, ReleasedOK
<1>12. ASSUME NEW r \in Process \ {p}, pc[r] \in Pledged
       PROVE  sig[r].path # sig[p].path
  <2>1. ProcessOK(scheme, lock, file, durable, r, pc[r], mem[r], sig[r], tmp[r])
    BY DEF IInv, ProcessesOK
  <2> QED BY <1>6, <1>12, <2>1 DEF ProcessOK
<1>13. \A g \in released : g.path # sig[p].path
  BY <1>6 DEF IInv, ReleasedOK
<1>14. Distinct'
  BY <1>3, <1>4, <1>12, <1>13 DEF IInv, Distinct
<1> QED BY <1>7, <1>8, <1>10, <1>11, <1>14 DEF IInv

(* Dropping the lock leaves the pledged signature as it was.               *)
LEMMA UnlockStep ==
    ASSUME IInv, NEW p \in Process, Unlock(p)
    PROVE  IInv'
<1>1. pc[p] = "durable" /\ pc[p] \in Critical /\ \A r \in Process \ {p} : pc[r] \notin Critical
  BY Exclusion DEF Unlock, Critical
<1>2. /\ pc' \in [Process -> PC] /\ pc'[p] = "unlocked"
      /\ \A r \in Process \ {p} : pc'[r] = pc[r]
  <2>1. pc \in [Process -> PC] /\ pc' = [pc EXCEPT ![p] = "unlocked"]
    BY DEF IInv, Ranges, Unlock, Goto
  <2> QED BY <2>1 DEF PC
<1>3. /\ DOMAIN mem' = Process /\ \A r \in Process \ {p} : mem'[r] = mem[r]
      /\ lock' = NoOwner /\ UNCHANGED <<scheme, file, durable, sig, tmp, released, made>>
  BY DEF IInv, Ranges, Unlock
<1>4. Ranges'
  BY <1>2, <1>3 DEF IInv, Ranges
<1>5. ProcessOK(scheme, lock, file, durable, p, pc[p], mem[p], sig[p], tmp[p])
  BY DEF IInv, ProcessesOK
<1>6. ProcessOK(scheme, lock', file, durable, p, pc'[p], mem'[p], sig'[p], tmp'[p])
  BY <1>1, <1>2, <1>3, <1>5 DEF ProcessOK, Critical, Pledged
<1>7. pc[p] \in Pledged
  BY <1>1 DEF Pledged
<1> QED BY <1>1, <1>2, <1>3, <1>4, <1>6, <1>7, LocalStep

(* A pledged signature joins the ones handed out.                          *)
LEMMA EmitStep ==
    ASSUME IInv, NEW p \in Process, Emit(p)
    PROVE  IInv'
<1>1. pc[p] = "unlocked" /\ pc[p] \in Pledged /\ pc[p] \notin Critical
  BY DEF Emit, Pledged, Critical
<1>2. /\ released' = released \cup {sig[p]}
      /\ UNCHANGED <<scheme, file, durable, lock, made>> /\ Forget(p)
  BY DEF Emit
<1>3. /\ pc'[p] = "idle" /\ pc' \in [Process -> PC]
      /\ DOMAIN mem' = Process /\ DOMAIN sig' = Process /\ DOMAIN tmp' = Process
      /\ \A r \in Process \ {p} :
            pc'[r] = pc[r] /\ mem'[r] = mem[r] /\ sig'[r] = sig[r] /\ tmp'[r] = tmp[r]
  BY <1>2 DEF IInv, Ranges, Forget, PC
<1>4. Ranges' /\ FilesOK'
  BY <1>2, <1>3 DEF IInv, Ranges, FilesOK
<1>5. ASSUME NEW r \in Process
      PROVE  ProcessOK(scheme, lock, file, durable, r, pc'[r], mem'[r], sig'[r], tmp'[r])
  <2>1. CASE r = p
    BY <1>3, <2>1 DEF ProcessOK, Critical, Pledged
  <2>2. CASE r # p
    <3>1. ProcessOK(scheme, lock, file, durable, r, pc[r], mem[r], sig[r], tmp[r])
      BY DEF IInv, ProcessesOK
    <3> QED BY <1>3, <2>2, <3>1
  <2> QED BY <2>1, <2>2
<1>6. ProcessesOK'
  BY <1>2, <1>5 DEF ProcessesOK
<1>7. GoodSig(scheme, sig[p])
      /\ UpTo(scheme, After(scheme, sig[p]), Position(scheme, durable))
  BY <1>1 DEF IInv, ProcessesOK, ProcessOK
<1>8. ReleasedOK'
  BY <1>2, <1>7 DEF IInv, ReleasedOK
<1>9. /\ \A g \in released : g.path # sig[p].path
      /\ \A r \in Process \ {p} : pc[r] \in Pledged => sig[p].path # sig[r].path
  BY <1>1 DEF IInv, Distinct
<1>10. "idle" \notin Pledged
  BY DEF Pledged
<1>11. Distinct'
  BY <1>2, <1>3, <1>9, <1>10 DEF IInv, Distinct
<1> QED BY <1>4, <1>6, <1>8, <1>11 DEF IInv

(* A stale lock protects nobody.                                           *)
LEMMA RemoveStaleLockStep ==
    ASSUME IInv, RemoveStaleLock
    PROVE  IInv'
<1>1. \A p \in Process : pc[p] \notin Critical
  BY Vacancy DEF RemoveStaleLock
<1>2. ProcessesOK'
  BY <1>1 DEF IInv, ProcessesOK, ProcessOK, RemoveStaleLock
<1>3. Ranges' /\ FilesOK' /\ ReleasedOK' /\ Distinct'
  BY DEF IInv, Ranges, FilesOK, ReleasedOK, Distinct, RemoveStaleLock
<1> QED BY <1>2, <1>3 DEF IInv

(* The file may go back, but not behind what was durable.                  *)
LEMMA PowerLossStep ==
    ASSUME IInv, PowerLoss
    PROVE  IInv'
<1>1. PICK f \in {file, durable} : file' = AfterLoss(f) /\ durable' = file'
  BY DEF PowerLoss
<1>2. GoodFile(scheme, f) /\ UpTo(scheme, Position(scheme, durable), Position(scheme, f))
  BY <1>1 DEF IInv, FilesOK, UpTo
<1>3. AfterLoss(f).key = f.key /\ AfterLoss(f).synced = TRUE
  BY <1>2 DEF GoodFile, AfterLoss, SyncedFile
<1>4. /\ GoodFile(scheme, file') /\ Position(scheme, file') = Position(scheme, f)
  BY <1>1, <1>2, <1>3 DEF GoodFile, Position
<1>5. /\ scheme' = scheme /\ released' = released /\ made' = made
      /\ pc' = [p \in Process |-> "idle"] /\ mem' = [p \in Process |-> None]
      /\ sig' = [p \in Process |-> None] /\ tmp' = [p \in Process |-> None]
      /\ lock' \in {NoOwner, Stale}
  BY DEF PowerLoss
<1>6. Ranges'
  BY <1>5 DEF IInv, Ranges, PC
<1>7. FilesOK'
  BY <1>1, <1>4, <1>5 DEF FilesOK, UpTo
<1>8. \A p \in Process : pc'[p] = "idle"
  BY <1>5
<1>9. ProcessesOK'
  BY <1>8 DEF ProcessesOK, ProcessOK, Critical, Pledged
<1>10. Distinct'
  BY <1>5, <1>8 DEF IInv, Distinct, Pledged
<1>11. ASSUME NEW g \in released
       PROVE  GoodSig(scheme, g) /\ UpTo(scheme, After(scheme, g), Position(scheme, f))
  <2>1. GoodSig(scheme, g) /\ UpTo(scheme, After(scheme, g), Position(scheme, durable))
    BY DEF IInv, ReleasedOK
  <2>2. /\ After(scheme, g) \in Positions(scheme)
        /\ Position(scheme, durable) \in Positions(scheme)
        /\ Position(scheme, f) \in Positions(scheme)
    BY <1>2, <2>1, PositionTypes DEF IInv, FilesOK
  <2> QED BY <1>2, <2>1, <2>2, UpToTransitive DEF IInv, Ranges
<1>12. ReleasedOK'
  BY <1>1, <1>4, <1>5, <1>11 DEF ReleasedOK
<1> QED BY <1>6, <1>7, <1>9, <1>10, <1>12 DEF IInv

(* Every step keeps the invariant.                                         *)
LEMMA Step == IInv /\ [Next]_vars => IInv'
<1> SUFFICES ASSUME IInv, [Next]_vars PROVE IInv'
  OBVIOUS
<1>1. ASSUME NEW p \in Process, Start(p) \/ Acquire(p) \/ Load(p) \/ Sign(p) PROVE IInv'
  BY <1>1, StartStep, AcquireStep, LoadStep, SignStep
<1>2. ASSUME NEW p \in Process, WriteTmp(p) \/ SyncTmp(p) \/ Rename(p) \/ SyncDir(p) PROVE IInv'
  BY <1>2, WriteTmpStep, SyncTmpStep, RenameStep, SyncDirStep
<1>3. ASSUME NEW p \in Process, Unlock(p) \/ Emit(p) PROVE IInv'
  BY <1>3, UnlockStep, EmitStep
<1>4. ASSUME NEW p \in Process, GiveUp(p) \/ Refuse(p) \/ Fail(p) PROVE IInv'
  <2>1. die(p)
    BY <1>4 DEF GiveUp, Refuse, Fail
  <2> QED BY <2>1, EndStep DEF die
<1>5. ASSUME NEW p \in Process, Crash(p) PROVE IInv'
  BY <1>5, EndStep DEF Crash
<1>6. CASE RemoveStaleLock
  BY <1>6, RemoveStaleLockStep
<1>7. CASE PowerLoss
  BY <1>7, PowerLossStep
<1>8. CASE UNCHANGED vars
  BY <1>8 DEF vars, IInv, Ranges, FilesOK, ProcessesOK, ReleasedOK, Distinct
<1> QED BY <1>1, <1>2, <1>3, <1>4, <1>5, <1>6, <1>7, <1>8 DEF Next

-----------------------------------------------------------------------------
(* The initial states.                                                     *)

(* A generated key is in order.                                            *)
LEMMA NewKeyGood ==
    ASSUME NEW s \in Schemes
    PROVE  GoodKey(s, NewKey(s))
<1>1. /\ s.depth \in Nat \ {0}
      /\ \A i \in Level(s) : exhausted_index(s, i) \in Nat /\ 1 <= exhausted_index(s, i)
  BY SchemesAssumption DEF SchemesAssumption, Level, exhausted_index
<1>2. /\ NewKey(s).q = [i \in Level(s) |-> IF i < s.depth THEN 1 ELSE 0]
      /\ NewKey(s).pubs = [i \in Upper(s) |-> [leaf |-> 0, c |-> 0]]
      /\ NewKey(s) = [q |-> NewKey(s).q, pubs |-> NewKey(s).pubs]
  BY DEF NewKey, SignedPub, derive_c
<1>3. \A i \in Upper(s) : NewKey(s).pubs[i] = [leaf |-> NewKey(s).q[i] - 1, c |-> 0]
  <2>1. \A i \in Upper(s) : i \in Level(s) /\ i < s.depth
    BY <1>1 DEF Upper, Level
  <2> QED BY <1>2, <2>1
<1>4. NewKey(s).pubs \in [Upper(s) -> [leaf : Nat, c : {0}]]
  BY <1>2
<1>5. /\ NewKey(s).q \in [Level(s) -> Nat]
      /\ \A i \in Level(s) : NewKey(s).q[i] <= exhausted_index(s, i)
  BY <1>1, <1>2
<1> QED BY <1>2, <1>3, <1>4, <1>5 DEF GoodKey, KeyStates

(* So is what an old file is brought to, whose signatures lie behind it.   *)
LEMMA LegacyGood ==
    ASSUME NEW s \in Schemes, s.legacy, NEW n \in 0 .. s.leaves[s.depth]
    PROVE  /\ GoodFile(s, SyncedFile(LegacyFile(s, n)))
           /\ \A m \in 0 .. n - 1 :
                /\ GoodSig(s, LegacySignature(s, m))
                /\ UpTo(s, After(s, LegacySignature(s, m)),
                        Position(s, SyncedFile(LegacyFile(s, n))))
<1> DEFINE f == SyncedFile(LegacyFile(s, n))
           k == from_bytes(s, f.key, 0)
<1>1. /\ s.depth \in Nat \ {0} /\ s.depth \in Level(s)
      /\ \A i \in Level(s) :
            /\ s.leaves[i] \in Nat /\ 2 <= s.leaves[i]
            /\ exhausted_index(s, i) = s.leaves[i]
  BY SchemesAssumption DEF SchemesAssumption, Level, exhausted_index
<1>2. /\ f.synced = TRUE /\ f.key.form = "legacy"
      /\ f.key.q = [i \in Level(s) |-> IF i < s.depth THEN 0 ELSE n]
  BY DEF SyncedFile, LegacyFile
<1>3. \A i \in Level(s) : i < s.depth <=> i # s.depth
  BY <1>1 DEF Level
<1>4. \A i \in Upper(s) : i \in Level(s) /\ i < s.depth
  BY <1>1 DEF Upper, Level
<1>5. /\ k.q = [i \in Level(s) |-> IF i < s.depth THEN 1 ELSE f.key.q[i]]
      /\ k.pubs = [i \in Upper(s) |-> [leaf |-> 0, c |-> 0]]
      /\ k = [q |-> k.q, pubs |-> k.pubs]
  BY <1>2 DEF from_bytes, SignedPub, derive_c
<1> HIDE DEF k, f
<1>6. k.q = [i \in Level(s) |-> IF i < s.depth THEN 1 ELSE n]
  BY <1>2, <1>5
<1>7. GoodKey(s, k)
  <2>1. \A i \in Upper(s) : k.pubs[i] = [leaf |-> k.q[i] - 1, c |-> 0]
    BY <1>4, <1>5, <1>6
  <2>2. k.pubs \in [Upper(s) -> [leaf : Nat, c : {0}]]
    BY <1>5
  <2>3. k.q \in [Level(s) -> Nat] /\ \A i \in Level(s) : k.q[i] <= exhausted_index(s, i)
    BY <1>1, <1>3, <1>6
  <2> QED BY <1>5, <2>1, <2>2, <2>3 DEF GoodKey, KeyStates
<1>8. Parses(s, f.key)
  BY <1>1, <1>2, <1>3, <1>4 DEF Parses
<1>9. GoodFile(s, f) /\ Position(s, f) = k.q
  BY <1>2, <1>7, <1>8 DEF GoodFile, Position, k
<1>10. ASSUME NEW m \in 0 .. n - 1
       PROVE  /\ GoodSig(s, LegacySignature(s, m))
              /\ UpTo(s, After(s, LegacySignature(s, m)), k.q)
  <2> DEFINE g == LegacySignature(s, m)
  <2>1. /\ g.path = [i \in Level(s) |-> IF i < s.depth THEN 0 ELSE m]
        /\ g.pubs = [i \in Upper(s) |-> [leaf |-> 0, c |-> 0]]
    BY DEF LegacySignature
  <2> HIDE DEF g
  <2>2. n \in Nat /\ m \in Nat /\ m < n /\ n <= s.leaves[s.depth]
    BY <1>1
  <2>3. GoodSig(s, g)
    BY <1>1, <1>3, <1>4, <2>1, <2>2 DEF GoodSig
  <2>4. After(s, g) = [i \in Level(s) |-> IF i < s.depth THEN 1 ELSE m + 1]
    BY <2>1, <2>2 DEF After
  <2>5. UpTo(s, After(s, g), k.q)
    <3>1. CASE m + 1 = n
      BY <1>6, <2>4, <3>1 DEF UpTo
    <3>2. CASE m + 1 # n
      <4>1. After(s, g)[s.depth] < k.q[s.depth]
        BY <1>1, <1>6, <2>2, <2>4, <3>2
      <4>2. \A j \in Level(s) : j < s.depth => After(s, g)[j] = k.q[j]
        BY <1>6, <2>4
      <4> QED BY <1>1, <4>1, <4>2 DEF UpTo, Before
    <3> QED BY <3>1, <3>2
  <2> QED BY <2>3, <2>5 DEF g
<1> QED BY <1>9, <1>10 DEF f

(* The invariant holds initially.                                         *)
LEMMA InitGood == Init => IInv
<1> SUFFICES ASSUME Init PROVE IInv
  OBVIOUS
<1>1. PICK n \in 0 .. scheme.leaves[scheme.depth] :
        /\ ~scheme.legacy => n = 0
        /\ file = SyncedFile(IF scheme.legacy THEN LegacyFile(scheme, n)
                             ELSE to_bytes(NewKey(scheme)))
        /\ released = {LegacySignature(scheme, i) : i \in 0 .. n - 1}
  BY DEF Init
<1>2. scheme \in Schemes /\ scheme.legacy \in BOOLEAN
  BY SchemesAssumption DEF SchemesAssumption, Init
<1>3. Ranges
  BY MaxMessagesAssumption DEF MaxMessagesAssumption, Init, Ranges, PC
<1>4. /\ GoodFile(scheme, file)
      /\ \A g \in released :
            GoodSig(scheme, g) /\ UpTo(scheme, After(scheme, g), Position(scheme, file))
  <2>1. CASE scheme.legacy
    BY <1>1, <1>2, <2>1, LegacyGood
  <2>2. CASE ~scheme.legacy
    <3>1. released = {}
      BY <1>1, <2>2
    <3> QED BY <1>1, <1>2, <2>2, <3>1, NewKeyGood, RoundTrip
  <2> QED BY <1>2, <2>1, <2>2
<1>5. FilesOK /\ ReleasedOK
  BY <1>4 DEF Init, FilesOK, ReleasedOK, UpTo
<1>6. \A p \in Process : pc[p] = "idle"
  BY DEF Init
<1>7. ProcessesOK
  BY <1>6 DEF ProcessesOK, ProcessOK, Critical, Pledged
<1>8. \A a, b \in released : a # b => a.path # b.path
  <2> SUFFICES ASSUME NEW i \in 0 .. n - 1, NEW j \in 0 .. n - 1, i # j
               PROVE  LegacySignature(scheme, i).path # LegacySignature(scheme, j).path
    BY <1>1
  <2>1. scheme.depth \in Level(scheme) /\ ~(scheme.depth < scheme.depth)
    BY <1>2, SchemesAssumption DEF SchemesAssumption, Level
  <2>2. /\ LegacySignature(scheme, i).path[scheme.depth] = i
        /\ LegacySignature(scheme, j).path[scheme.depth] = j
    BY <2>1 DEF LegacySignature
  <2> QED BY <2>2
<1>9. Distinct
  BY <1>6, <1>8 DEF Distinct, Pledged
<1> QED BY <1>3, <1>5, <1>7, <1>9 DEF IInv

-----------------------------------------------------------------------------
(* Counting what a key can still sign.                                     *)

(* The leaves of the levels from m on, whatever is above them.             *)
Tails(s, m) ==
    {g \in [m .. s.depth -> Nat] : \A i \in m .. s.depth : g[i] < exhausted_index(s, i)}

(* Those past the position q.                                              *)
Later(s, q, m) ==
    {g \in Tails(s, m) :
        \E i \in m .. s.depth : g[i] >= q[i] /\ \A j \in m .. s.depth : j < i => g[j] = q[j] - 1}

Rest(s, m, g) == [i \in m + 1 .. s.depth |-> g[i]]

(* A leaf of V in level m, over one of the tails in W.                     *)
Joined(s, m, V, W) == {g \in Tails(s, m) : g[m] \in V /\ Rest(s, m, g) \in W}

(* There are as many of them as pairs.                                     *)
LEMMA JoinedCount ==
    ASSUME NEW s \in Schemes, NEW m \in Level(s),
           NEW V, V \subseteq 0 .. exhausted_index(s, m) - 1, IsFiniteSet(V),
           NEW W, W \subseteq Tails(s, m + 1), IsFiniteSet(W)
    PROVE  /\ IsFiniteSet(Joined(s, m, V, W))
           /\ Cardinality(Joined(s, m, V, W)) = Cardinality(V) * Cardinality(W)
<1> DEFINE d == s.depth
           join(x) == [i \in m .. d |-> IF i = m THEN x[1] ELSE x[2][i]]
           f == [x \in V \X W |-> join(x)]
           J == Joined(s, m, V, W)
<1>1. d \in Nat /\ m \in 1 .. d /\ exhausted_index(s, m) \in Nat
  BY SchemesAssumption DEF SchemesAssumption, Level, exhausted_index
<1> HIDE DEF d
<1>2. ASSUME NEW v \in V, NEW w \in W
      PROVE  /\ join(<<v, w>>) \in J /\ join(<<v, w>>)[m] = v
             /\ Rest(s, m, join(<<v, w>>)) = w
  <2> DEFINE g == join(<<v, w>>)
  <2>1. v \in Nat /\ v < exhausted_index(s, m)
    BY <1>1
  <2>2. w \in [m + 1 .. d -> Nat] /\ \A i \in m + 1 .. d : w[i] < exhausted_index(s, i)
    BY DEF Tails, d
  <2>3. g = [i \in m .. d |-> IF i = m THEN v ELSE w[i]]
    OBVIOUS
  <2> HIDE DEF g
  <2>4. g[m] = v /\ \A i \in m + 1 .. d : g[i] = w[i]
    BY <1>1, <2>3
  <2>5. g \in [m .. d -> Nat]
    <3>1. ASSUME NEW i \in m .. d PROVE (IF i = m THEN v ELSE w[i]) \in Nat
      <4>1. CASE i = m
        BY <2>1, <4>1
      <4>2. CASE i # m
        <5>1. i \in m + 1 .. d
          BY <1>1, <4>2
        <5> QED BY <2>2, <4>2, <5>1
      <4> QED BY <4>1, <4>2
    <3> QED BY <2>3, <3>1
  <2>6. ASSUME NEW i \in m .. d PROVE g[i] < exhausted_index(s, i)
    <3>1. CASE i = m
      BY <2>1, <2>4, <3>1
    <3>2. CASE i # m
      <4>1. i \in m + 1 .. d
        BY <1>1, <3>2
      <4> QED BY <2>2, <2>4, <4>1
    <3> QED BY <3>1, <3>2
  <2>7. Rest(s, m, g) = w
    BY <2>2, <2>4 DEF Rest, d
  <2>8. g \in Tails(s, m)
    BY <2>5, <2>6 DEF Tails, d
  <2> QED BY <2>4, <2>7, <2>8 DEF Joined, g
<1>3. f \in [V \X W -> J]
  <2>1. ASSUME NEW x \in V \X W PROVE join(x) \in J
    <3>1. x[1] \in V /\ x[2] \in W /\ x = <<x[1], x[2]>>
      OBVIOUS
    <3> HIDE DEF join, J
    <3> QED BY <1>2, <3>1
  <2> HIDE DEF J, join
  <2> QED BY <2>1
<1>4. ASSUME NEW x \in V \X W, NEW y \in V \X W, f[x] = f[y] PROVE x = y
  <2>1. x[1] \in V /\ x[2] \in W /\ x = <<x[1], x[2]>>
    OBVIOUS
  <2>2. y[1] \in V /\ y[2] \in W /\ y = <<y[1], y[2]>>
    OBVIOUS
  <2> DEFINE v == x[1]
             w == x[2]
             a == y[1]
             b == y[2]
  <2> HIDE DEF join, J
  <2>3. join(<<v, w>>) = join(<<a, b>>)
    BY <1>4, <2>1, <2>2
  <2>4. v \in V /\ w \in W /\ a \in V /\ b \in W
    BY <2>1, <2>2
  <2> HIDE DEF v, w, a, b
  <2>5. join(<<v, w>>)[m] = v /\ Rest(s, m, join(<<v, w>>)) = w
    BY <1>2, <2>4
  <2>6. join(<<a, b>>)[m] = a /\ Rest(s, m, join(<<a, b>>)) = b
    BY <1>2, <2>4
  <2>7. v = a /\ w = b
    BY <2>3, <2>5, <2>6
  <2> QED BY <2>1, <2>2, <2>7 DEF v, w, a, b
<1>5. ASSUME NEW g \in J PROVE \E x \in V \X W : f[x] = g
  <2> DEFINE v == g[m]
             w == Rest(s, m, g)
  <2>1. g \in [m .. d -> Nat] /\ v \in V /\ w \in W
    BY <1>5 DEF Joined, Tails, d
  <2>2. join(<<v, w>>) = [i \in m .. d |-> IF i = m THEN v ELSE w[i]]
    OBVIOUS
  <2>3. ASSUME NEW i \in m .. d PROVE (IF i = m THEN v ELSE w[i]) = g[i]
    <3>1. CASE i # m
      <4>1. i \in m + 1 .. d
        BY <1>1, <3>1
      <4> QED BY <3>1, <4>1 DEF Rest, d
    <3> QED BY <3>1
  <2> HIDE DEF v, w
  <2>4. join(<<v, w>>) = g
    BY <2>1, <2>2, <2>3
  <2>5. <<v, w>> \in V \X W
    BY <2>1
  <2> HIDE DEF join
  <2>6. f[<<v, w>>] = g
    BY <2>4, <2>5
  <2> QED BY <2>5, <2>6
<1>6. IsFiniteSet(V \X W) /\ Cardinality(V \X W) = Cardinality(V) * Cardinality(W)
  BY FS_Product
<1> HIDE DEF f, J
<1>7. f \in Bijection(V \X W, J)
  BY <1>3, <1>4, <1>5 DEF Bijection, Injection, Surjection, IsInjective
<1>8. ExistsBijection(V \X W, J)
  BY <1>7 DEF ExistsBijection
<1>9. IsFiniteSet(J) /\ Cardinality(J) = Cardinality(V \X W)
  BY <1>6, <1>8, FS_Bijection
<1> QED BY <1>6, <1>9 DEF J

(* Below the last level there is one tail, the empty one.                  *)
LEMMA NoTail ==
    ASSUME NEW s \in Schemes, NEW q
    PROVE  /\ IsFiniteSet(Tails(s, s.depth + 1)) /\ Cardinality(Tails(s, s.depth + 1)) = 1
           /\ Later(s, q, s.depth + 1) = {}
<1>1. s.depth \in Nat
  BY SchemesAssumption DEF SchemesAssumption
<1>2. s.depth + 1 .. s.depth = {}
  BY <1>1
<1> DEFINE e == [i \in {} |-> 0]
<1>3. Tails(s, s.depth + 1) = {e}
  <2>1. Tails(s, s.depth + 1) = [{} -> Nat]
    BY <1>2 DEF Tails
  <2>2. e \in [{} -> Nat]
    OBVIOUS
  <2>3. ASSUME NEW g \in [{} -> Nat] PROVE g = e
    OBVIOUS
  <2> QED BY <2>1, <2>2, <2>3
<1>4. Later(s, q, s.depth + 1) = {}
  BY <1>2 DEF Later
<1> QED BY <1>3, <1>4, FS_Singleton

(* How the numbers grow from one level to the one above.                   *)
LEMMA Counts ==
    ASSUME NEW s \in Schemes, NEW k, GoodKey(s, k), NEW m \in Level(s),
           IsFiniteSet(Tails(s, m + 1))
    PROVE  /\ IsFiniteSet(Tails(s, m))
           /\ Cardinality(Tails(s, m)) = exhausted_index(s, m) * Cardinality(Tails(s, m + 1))
           /\ Cardinality(Later(s, k.q, m))
                = (exhausted_index(s, m) - k.q[m]) * Cardinality(Tails(s, m + 1))
                    + Cardinality(Later(s, k.q, m + 1))
<1> DEFINE d == s.depth
           x == exhausted_index(s, m)
           q == k.q
           T == Tails(s, m + 1)
           L == Later(s, q, m + 1)
           A == Joined(s, m, q[m] .. x - 1, T)
           B == Joined(s, m, {q[m] - 1}, L)
<1>1. d \in Nat /\ m \in 1 .. d /\ x \in Nat /\ 1 <= x
  BY SchemesAssumption DEF SchemesAssumption, Level, exhausted_index
<1>2. /\ q \in [Level(s) -> Nat] /\ q[m] \in Nat /\ q[m] <= x
  BY DEF GoodKey, KeyStates
<1>3. m < d => q[m] >= 1
  <2> SUFFICES ASSUME m < d PROVE q[m] >= 1
    OBVIOUS
  <2>1. m \in Upper(s)
    BY <1>1 DEF Upper
  <2>2. k.pubs[m] \in [leaf : Nat, c : {0}] /\ k.pubs[m] = [leaf |-> k.q[m] - 1, c |-> 0]
    BY <2>1 DEF GoodKey, KeyStates
  <2>3. k.pubs[m].leaf \in Nat /\ k.pubs[m].leaf = q[m] - 1
    BY <2>2
  <2> QED BY <1>2, <2>3
<1>4. L \in SUBSET T
  BY DEF Later
<1>5. IsFiniteSet(L) /\ Cardinality(L) \in Nat /\ Cardinality(T) \in Nat
  BY <1>4, FS_Subset, FS_CardinalityType
<1>6. IsFiniteSet(Tails(s, m)) /\ Cardinality(Tails(s, m)) = x * Cardinality(T)
  <2>1. Tails(s, m) = Joined(s, m, 0 .. x - 1, T)
    <3>1. ASSUME NEW g \in Tails(s, m) PROVE g[m] \in 0 .. x - 1 /\ Rest(s, m, g) \in T
      <4>1. g \in [m .. d -> Nat] /\ \A i \in m .. d : g[i] < exhausted_index(s, i)
        BY DEF Tails
      <4>2. g[m] \in Nat /\ g[m] < x
        BY <1>1, <4>1
      <4>3. \A i \in m + 1 .. d : i \in m .. d
        BY <1>1
      <4>4. Rest(s, m, g) \in [m + 1 .. d -> Nat]
        BY <4>1, <4>3 DEF Rest
      <4>5. \A i \in m + 1 .. d : Rest(s, m, g)[i] < exhausted_index(s, i)
        BY <4>1, <4>3 DEF Rest
      <4> QED BY <1>1, <4>2, <4>4, <4>5 DEF Tails
    <3> QED BY <3>1 DEF Joined
  <2>2. IsFiniteSet(0 .. x - 1) /\ Cardinality(0 .. x - 1) = x
    <3> HIDE DEF x
    <3>1. 0 \in Int /\ x - 1 \in Int /\ x - 1 - 0 + 1 = x /\ ~(0 > x - 1)
      BY <1>1
    <3> QED BY <3>1, FS_Interval
  <2>3. T \subseteq Tails(s, m + 1) /\ IsFiniteSet(T)
    OBVIOUS
  <2> DEFINE V == 0 .. x - 1
  <2>4. V \subseteq 0 .. exhausted_index(s, m) - 1 /\ IsFiniteSet(V)
    BY <2>2
  <2> HIDE DEF T, x, V
  <2>5. IsFiniteSet(Joined(s, m, V, T))
        /\ Cardinality(Joined(s, m, V, T)) = Cardinality(V) * Cardinality(T)
    BY <2>3, <2>4, JoinedCount
  <2> QED BY <2>1, <2>2, <2>5 DEF V
<1>7. IsFiniteSet(A) /\ Cardinality(A) = (x - q[m]) * Cardinality(T)
  <2>1. IsFiniteSet(q[m] .. x - 1) /\ Cardinality(q[m] .. x - 1) = x - q[m]
    <3> HIDE DEF x, q
    <3>1. q[m] \in Int /\ x - 1 \in Int /\ x - 1 - q[m] + 1 = x - q[m] /\ q[m] <= x
      BY <1>1, <1>2
    <3>2. q[m] > x - 1 => x - q[m] = 0
      BY <1>1, <1>2
    <3> QED BY <3>1, <3>2, FS_Interval
  <2>2. q[m] .. x - 1 \subseteq 0 .. exhausted_index(s, m) - 1
    <3> HIDE DEF q
    <3> QED BY <1>1, <1>2
  <2>3. T \subseteq Tails(s, m + 1) /\ IsFiniteSet(T)
    OBVIOUS
  <2> DEFINE V == q[m] .. x - 1
  <2>4. V \subseteq 0 .. exhausted_index(s, m) - 1 /\ IsFiniteSet(V)
    BY <2>1, <2>2
  <2> HIDE DEF T, x, V
  <2>5. IsFiniteSet(Joined(s, m, V, T))
        /\ Cardinality(Joined(s, m, V, T)) = Cardinality(V) * Cardinality(T)
    BY <2>3, <2>4, JoinedCount
  <2> QED BY <2>1, <2>5 DEF V
<1>8. IsFiniteSet(B) /\ Cardinality(B) = Cardinality(L)
  <2>1. CASE q[m] >= 1
    <3>1. {q[m] - 1} \subseteq 0 .. x - 1
      BY <1>1, <1>2, <2>1
    <3>2. IsFiniteSet({q[m] - 1}) /\ Cardinality({q[m] - 1}) = 1
      BY FS_Singleton
    <3>3. IsFiniteSet(B) /\ Cardinality(B) = Cardinality({q[m] - 1}) * Cardinality(L)
      BY <1>4, <1>5, <3>1, <3>2, JoinedCount
    <3> QED BY <1>5, <3>2, <3>3
  <2>2. CASE ~(q[m] >= 1)
    <3>1. m = d
      BY <1>1, <1>2, <1>3, <2>2
    <3>2. L = {}
      BY <3>1, NoTail
    <3>3. B = {}
      BY <3>2 DEF Joined
    <3> QED BY <3>2, <3>3, FS_EmptySet
  <2> QED BY <2>1, <2>2
<1>9. Later(s, q, m) = A \cup B
  <2>0. ASSUME NEW g \in Tails(s, m)
        PROVE  /\ g \in [m .. d -> Nat] /\ g[m] \in Nat /\ g[m] < x
               /\ Rest(s, m, g) \in T
               /\ \A i \in m + 1 .. d : Rest(s, m, g)[i] = g[i] /\ i \in m .. d /\ m < i
    <3>1. g \in [m .. d -> Nat] /\ \A i \in m .. d : g[i] < exhausted_index(s, i)
      BY DEF Tails
    <3>2. g[m] \in Nat /\ g[m] < x
      BY <1>1, <3>1
    <3>3. \A i \in m + 1 .. d : i \in m .. d /\ m < i
      BY <1>1
    <3>4. Rest(s, m, g) \in [m + 1 .. d -> Nat]
      BY <3>1, <3>3 DEF Rest
    <3>5. \A i \in m + 1 .. d : Rest(s, m, g)[i] = g[i]
      BY DEF Rest
    <3>6. \A i \in m + 1 .. d : Rest(s, m, g)[i] < exhausted_index(s, i)
      BY <3>1, <3>3, <3>5
    <3>7. Rest(s, m, g) \in T
      BY <3>4, <3>6 DEF Tails
    <3> QED BY <3>1, <3>2, <3>3, <3>5, <3>7
  <2>1. ASSUME NEW g \in Later(s, q, m) PROVE g \in A \cup B
    <3>1. g \in Tails(s, m)
      BY <2>1 DEF Later
    <3>2. PICK i \in m .. d : g[i] >= q[i] /\ \A j \in m .. d : j < i => g[j] = q[j] - 1
      BY <2>1 DEF Later
    <3>3. CASE i = m
      <4>1. g[m] \in q[m] .. x - 1
        BY <1>1, <1>2, <2>0, <3>1, <3>2, <3>3
      <4> QED BY <2>0, <3>1, <4>1 DEF Joined
    <3>4. CASE i # m
      <4>1. i \in m + 1 .. d /\ m \in m .. d /\ m < i
        BY <1>1, <3>4
      <4>2. g[m] = q[m] - 1
        BY <3>2, <4>1
      <4>3. \A j \in m + 1 .. d : j < i => Rest(s, m, g)[j] = q[j] - 1
        BY <2>0, <3>1, <3>2
      <4>4. Rest(s, m, g)[i] >= q[i]
        BY <2>0, <3>1, <3>2, <4>1
      <4>5. Rest(s, m, g) \in L
        BY <2>0, <3>1, <4>1, <4>3, <4>4 DEF Later
      <4> QED BY <3>1, <4>2, <4>5 DEF Joined
    <3> QED BY <3>3, <3>4
  <2>2. ASSUME NEW g \in A PROVE g \in Later(s, q, m)
    <3>1. g \in Tails(s, m) /\ g[m] \in q[m] .. x - 1
      BY <2>2 DEF Joined
    <3>2. m \in m .. d /\ g[m] >= q[m] /\ \A j \in m .. d : ~(j < m)
      BY <1>1, <1>2, <3>1
    <3> QED BY <3>1, <3>2 DEF Later
  <2>3. ASSUME NEW g \in B PROVE g \in Later(s, q, m)
    <3>1. g \in Tails(s, m) /\ g[m] = q[m] - 1 /\ Rest(s, m, g) \in L
      BY <2>3 DEF Joined
    <3>2. PICK i \in m + 1 .. d :
              /\ Rest(s, m, g)[i] >= q[i]
              /\ \A j \in m + 1 .. d : j < i => Rest(s, m, g)[j] = q[j] - 1
      BY <3>1 DEF Later
    <3>3. i \in m .. d /\ g[i] >= q[i]
      BY <2>0, <3>1, <3>2
    <3>4. ASSUME NEW j \in m .. d, j < i PROVE g[j] = q[j] - 1
      <4>1. CASE j = m
        BY <3>1, <4>1
      <4>2. CASE j # m
        <5>1. j \in m + 1 .. d
          BY <1>1, <4>2
        <5> QED BY <2>0, <3>1, <3>2, <3>4, <5>1
      <4> QED BY <4>1, <4>2
    <3> QED BY <3>1, <3>3, <3>4 DEF Later
  <2> QED BY <2>1, <2>2, <2>3
<1>10. A \cap B = {}
  <2> SUFFICES ASSUME NEW g \in A, g \in B PROVE FALSE
    OBVIOUS
  <2>1. g[m] \in q[m] .. x - 1 /\ g[m] = q[m] - 1
    BY DEF Joined
  <2> QED BY <1>1, <1>2, <2>1
<1> HIDE DEF A, B, T, L, x
<1>11. Cardinality(A \cup B) = Cardinality(A) + Cardinality(B) - Cardinality(A \cap B)
  BY <1>7, <1>8, FS_Union
<1>12. Cardinality(A \cap B) = 0
  BY <1>10, FS_EmptySet
<1>13. Cardinality(A) \in Nat /\ Cardinality(B) \in Nat
  BY <1>7, <1>8, FS_CardinalityType
<1>14. Cardinality(A \cup B) = (x - q[m]) * Cardinality(T) + Cardinality(L)
  BY <1>7, <1>8, <1>11, <1>12, <1>13
<1> QED BY <1>6, <1>9, <1>14 DEF x, T, L
(* A count up to u64::MAX, and that one beyond.                            *)
LEMMA SaturatedValue ==
    ASSUME U64_MAX \in Nat, NEW n \in Nat
    PROVE  Saturated(n) = (IF U64_MAX <= n THEN U64_MAX ELSE n) /\ Saturated(n) \in Nat
<1> DEFINE S == {U64_MAX, n}
<1>1. S \subseteq Nat /\ S # {}
  OBVIOUS
<1> HIDE DEF S
<1>2. Min(S) \in S /\ \A y \in S : Min(S) <= y
  BY <1>1, MinBounds
<1> QED BY <1>2 DEF S, Saturated

(* It does not matter which of the factors saturate before ...             *)
LEMMA SaturatedProduct ==
    ASSUME U64_MAX \in Nat, NEW a \in Nat, NEW b \in Nat, NEW c \in Nat,
           Saturated(a) = Saturated(b)
    PROVE  Saturated(a * c) = Saturated(b * c)
<1>1. a = b \/ (U64_MAX <= a /\ U64_MAX <= b)
  BY SaturatedValue
<1>2. CASE U64_MAX <= a /\ U64_MAX <= b /\ 1 <= c
  <2>1. ASSUME NEW z \in Nat, U64_MAX <= z PROVE z * c \in Nat /\ U64_MAX <= z * c
    <3>1. z * c \in Nat /\ z * (c - 1) \in Nat /\ z * c = z * (c - 1) + z
      BY <1>2
    <3> QED BY <2>1, <3>1
  <2>2. a * c \in Nat /\ U64_MAX <= a * c /\ b * c \in Nat /\ U64_MAX <= b * c
    BY <1>2, <2>1
  <2> QED BY <2>2, SaturatedValue
<1>3. CASE c = 0
  <2>1. a * c = 0 /\ b * c = 0
    BY <1>3
  <2> QED BY <2>1
<1> QED BY <1>1, <1>2, <1>3

(* ... nor which of the terms do.                                          *)
LEMMA SaturatedSum ==
    ASSUME U64_MAX \in Nat, NEW a \in Nat, NEW b \in Nat
    PROVE  Saturated(Saturated(a) + Saturated(b)) = Saturated(a + b)
<1>1. /\ Saturated(a) = (IF U64_MAX <= a THEN U64_MAX ELSE a)
      /\ Saturated(b) = (IF U64_MAX <= b THEN U64_MAX ELSE b)
  BY SaturatedValue
<1>2. Saturated(a) + Saturated(b) \in Nat /\ a + b \in Nat
  BY <1>1
<1>3. /\ Saturated(a + b) = (IF U64_MAX <= a + b THEN U64_MAX ELSE a + b)
      /\ Saturated(Saturated(a) + Saturated(b))
            = (IF U64_MAX <= Saturated(a) + Saturated(b) THEN U64_MAX
               ELSE Saturated(a) + Saturated(b))
  BY <1>2, SaturatedValue
<1> QED BY <1>1, <1>3

(* The loop of remaining over the first n levels from the last.            *)
CountedSoFar(s, k, n, h) ==
    h = [i \in 0 .. n |->
            IF i = 0 THEN [total |-> 0, per_leaf |-> 1]
            ELSE CountLevel(s, k, h[i - 1], s.depth + 1 - i)]

(* It ends, however many levels there are.                                 *)
LEMMA CountExists ==
    ASSUME NEW s, NEW k, NEW n \in Nat
    PROVE  \E h : CountedSoFar(s, k, n, h)
<1> DEFINE Z == [total |-> 0, per_leaf |-> 1]
           Upshot(F, i) == CountLevel(s, k, F, s.depth + 1 - i)
           S == {m \in Nat : \E h : CountedSoFar(s, k, m, h)}
<1>1. 0 \in S
  <2> DEFINE h == [i \in 0 .. 0 |-> Z]
  <2>1. CountedSoFar(s, k, 0, h)
    BY DEF CountedSoFar
  <2> QED BY <2>1
<1>2. ASSUME NEW m \in Nat, m \in S PROVE m + 1 \in S
  <2>1. PICK h : CountedSoFar(s, k, m, h)
    BY <1>2
  <2>2. h = [i \in 0 .. m |-> IF i = 0 THEN Z ELSE Upshot(h[i - 1], i)]
    BY <2>1 DEF CountedSoFar
  <2> HIDE DEF Z, Upshot
  <2> DEFINE f == [i \in 0 .. m + 1 |-> IF i <= m THEN h[i] ELSE Upshot(h[m], m + 1)]
             r == [i \in 0 .. m + 1 |-> IF i = 0 THEN Z ELSE Upshot(f[i - 1], i)]
  <2>3. ASSUME NEW i \in 0 .. m + 1 PROVE f[i] = r[i]
    <3>1. CASE i = 0
      <4>1. f[i] = h[0] /\ h[0] = Z
        BY <2>2, <3>1
      <4> QED BY <3>1, <4>1
    <3>2. CASE i # 0 /\ i <= m
      <4>1. f[i] = h[i] /\ i - 1 \in 0 .. m + 1 /\ i - 1 <= m /\ i \in 0 .. m
        BY <3>2
      <4>2. f[i - 1] = h[i - 1]
        BY <4>1
      <4>3. h[i] = Upshot(h[i - 1], i)
        BY <2>2, <3>2, <4>1
      <4> QED BY <3>2, <4>1, <4>2, <4>3
    <3>3. CASE i = m + 1
      <4>1. f[i] = Upshot(h[m], m + 1) /\ m \in 0 .. m + 1 /\ i - 1 = m
        BY <3>3
      <4>2. f[i - 1] = h[m]
        BY <4>1
      <4> QED BY <3>3, <4>1, <4>2
    <3> QED BY <3>1, <3>2, <3>3
  <2>4. f = r
    BY <2>3
  <2> HIDE DEF f
  <2>5. CountedSoFar(s, k, m + 1, f)
    BY <2>4 DEF CountedSoFar, Upshot, Z
  <2> QED BY <2>5
<1> HIDE DEF S
<1>3. n \in S
  BY <1>1, <1>2, SetInduction
<1> QED BY <1>3 DEF S

(* What the loop has after n levels: the positions past the key's in those *)
(* levels, and what a leaf of the level above is worth.                    *)
CountedTo(s, k, n, v) ==
    LET m == s.depth + 1 - n
    IN  /\ IsFiniteSet(Tails(s, m))
        /\ v.total = Saturated(Cardinality(Later(s, k.q, m)))
        /\ n < s.depth => /\ v.per_leaf \in Nat
                          /\ Saturated(v.per_leaf) = Saturated(Cardinality(Tails(s, m)))

(* One turn of the loop.  A leaf of an upper level was counted with every  *)
(* leaf of the trees below it, whether or not they can all be used: only   *)
(* the tree of a one-level key can be without its last leaf.               *)
LEMMA CountStep ==
    ASSUME NEW s \in Schemes, NEW k, GoodKey(s, k), NEW n \in Nat, n < s.depth,
           NEW v, CountedTo(s, k, n, v)
    PROVE  CountedTo(s, k, n + 1, CountLevel(s, k, v, s.depth + 1 - (n + 1)))
<1> DEFINE d == s.depth
           i == d + 1 - (n + 1)
           x == exhausted_index(s, i)
           y == s.leaves[i]
           u == x - k.q[i]
           T == Cardinality(Tails(s, i + 1))
           L == Cardinality(Later(s, k.q, i + 1))
           w == CountLevel(s, k, v, i)
<1>1. d \in Nat /\ U64_MAX \in Nat
  BY SchemesAssumption DEF SchemesAssumption
<1>2. i \in Nat /\ i \in Level(s) /\ i + 1 = d + 1 - n
  BY <1>1 DEF Level
<1>3. y \in Nat /\ x \in Nat
  BY <1>2, SchemesAssumption DEF SchemesAssumption, Level, exhausted_index
<1>4. u \in Nat
  <2>1. k.q[i] \in Nat /\ k.q[i] <= x
    BY <1>2 DEF GoodKey, KeyStates
  <2> HIDE DEF x
  <2> QED BY <1>3, <2>1
<1>5. n + 1 < d => x = y
  <2>1. n + 1 < d => d > 1
    BY <1>1
  <2> QED BY <1>2, <2>1, SchemesAssumption DEF SchemesAssumption, Level, exhausted_index
<1>6. /\ IsFiniteSet(Tails(s, i + 1)) /\ v.total = Saturated(L)
      /\ v.per_leaf \in Nat /\ Saturated(v.per_leaf) = Saturated(T)
  BY <1>2 DEF CountedTo
<1>7. T \in Nat /\ L \in Nat
  <2>1. Later(s, k.q, i + 1) \in SUBSET Tails(s, i + 1)
    BY DEF Later
  <2>2. IsFiniteSet(Later(s, k.q, i + 1))
    BY <1>6, <2>1, FS_Subset
  <2> QED BY <1>6, <2>2, FS_CardinalityType
<1>8. /\ IsFiniteSet(Tails(s, i)) /\ Cardinality(Tails(s, i)) = x * T
      /\ Cardinality(Later(s, k.q, i)) = u * T + L
  BY <1>2, <1>6, Counts
<1>9. /\ w.total = Saturated(v.total + Saturated(u * v.per_leaf))
      /\ w.per_leaf = Saturated(v.per_leaf * y)
  BY DEF CountLevel
<1> HIDE DEF w, x, y, u, T, L
<1>10. w.total = Saturated(Cardinality(Later(s, k.q, i)))
  <2>1. u * v.per_leaf = v.per_leaf * u /\ u * T = T * u /\ u * T \in Nat
    BY <1>4, <1>6, <1>7
  <2>2. Saturated(v.per_leaf * u) = Saturated(T * u)
    BY <1>1, <1>4, <1>6, <1>7, SaturatedProduct
  <2>3. w.total = Saturated(Saturated(L) + Saturated(u * T))
    BY <1>6, <1>9, <2>1, <2>2
  <2>4. Saturated(Saturated(L) + Saturated(u * T)) = Saturated(L + u * T)
    BY <1>1, <1>7, <2>1, SaturatedSum
  <2>5. L + u * T = u * T + L
    BY <1>7, <2>1
  <2> QED BY <1>8, <2>3, <2>4, <2>5
<1>11. ASSUME n + 1 < d
       PROVE  /\ w.per_leaf \in Nat
              /\ Saturated(w.per_leaf) = Saturated(Cardinality(Tails(s, i)))
  <2>1. x = y
    BY <1>5, <1>11
  <2>2. x * T = T * y /\ T * y \in Nat /\ v.per_leaf * y \in Nat
    BY <1>3, <1>6, <1>7, <2>1
  <2>3. w.per_leaf = Saturated(T * y)
    BY <1>1, <1>3, <1>6, <1>7, <1>9, SaturatedProduct
  <2> DEFINE z == T * y
  <2>4. z \in Nat /\ w.per_leaf = Saturated(z) /\ Cardinality(Tails(s, i)) = z
    BY <1>8, <2>2, <2>3
  <2> HIDE DEF z
  <2>5. Saturated(z) \in Nat /\ Saturated(Saturated(z)) = Saturated(z)
    <3>1. Saturated(z) = (IF U64_MAX <= z THEN U64_MAX ELSE z) /\ Saturated(z) \in Nat
      BY <1>1, <2>4, SaturatedValue
    <3>2. Saturated(Saturated(z))
            = (IF U64_MAX <= Saturated(z) THEN U64_MAX ELSE Saturated(z))
      BY <1>1, <3>1, SaturatedValue
    <3> QED BY <1>1, <2>4, <3>1, <3>2
  <2> QED BY <2>4, <2>5
<1> QED BY <1>8, <1>10, <1>11 DEF CountedTo, w

(* So remaining counts the positions of all levels.                        *)
LEMMA RemainingCounts ==
    ASSUME NEW s \in Schemes, NEW k, GoodKey(s, k)
    PROVE  remaining(s, k) = Saturated(Cardinality(Later(s, k.q, 1)))
<1> DEFINE d == s.depth
           h == CHOOSE f : CountedSoFar(s, k, d, f)
<1>1. d \in Nat /\ U64_MAX \in Nat
  BY SchemesAssumption DEF SchemesAssumption
<1>2. remaining(s, k) = h[d].total
  BY DEF remaining, CountedSoFar
<1>3. CountedSoFar(s, k, d, h)
  BY <1>1, CountExists
<1> HIDE DEF h
<1>4. h[0] = [total |-> 0, per_leaf |-> 1]
  BY <1>1, <1>3 DEF CountedSoFar
<1>5. ASSUME NEW n \in Nat, n < d
      PROVE  h[n + 1] = CountLevel(s, k, h[n], d + 1 - (n + 1))
  <2>1. n + 1 \in 0 .. d /\ n + 1 # 0 /\ (n + 1) - 1 = n
    BY <1>1, <1>5
  <2> QED BY <1>3, <2>1 DEF CountedSoFar
<1> DEFINE S == {n \in Nat : n <= d => CountedTo(s, k, n, h[n])}
<1>6. 0 \in S
  <2>1. d + 1 - 0 = d + 1
    BY <1>1
  <2>2. /\ IsFiniteSet(Tails(s, d + 1)) /\ Cardinality(Tails(s, d + 1)) = 1
        /\ Later(s, k.q, d + 1) = {}
    BY NoTail
  <2>3. Cardinality({}) = 0
    BY FS_EmptySet
  <2>4. Saturated(0) = 0
    BY <1>1, SaturatedValue
  <2>5. h[0].total = 0 /\ h[0].per_leaf = 1
    BY <1>4
  <2> QED BY <2>1, <2>2, <2>3, <2>4, <2>5 DEF CountedTo
<1>7. ASSUME NEW n \in Nat, n \in S PROVE n + 1 \in S
  <2> SUFFICES ASSUME n + 1 <= d PROVE CountedTo(s, k, n + 1, h[n + 1])
    OBVIOUS
  <2>1. n < d /\ n <= d
    BY <1>1
  <2>2. CountedTo(s, k, n, h[n])
    BY <1>7, <2>1
  <2>3. CountedTo(s, k, n + 1, CountLevel(s, k, h[n], s.depth + 1 - (n + 1)))
    BY <2>1, <2>2, CountStep
  <2> QED BY <1>5, <2>1, <2>3
<1> HIDE DEF S
<1>8. d \in S
  BY <1>1, <1>6, <1>7, SetInduction
<1>9. CountedTo(s, k, d, h[d]) /\ d + 1 - d = 1
  BY <1>1, <1>8 DEF S
<1> QED BY <1>2, <1>9 DEF CountedTo

(* The positions ahead of a key are those past its own.                    *)
LEMMA AheadIsLater ==
    ASSUME NEW s \in Schemes, NEW k
    PROVE  Ahead(s, k) = Later(s, k.q, 1)
<1> DEFINE d == s.depth
           q == k.q
<1>1. d \in Nat /\ s.span \in Nat
  BY SchemesAssumption DEF SchemesAssumption
<1>2. \A i \in 1 .. d : exhausted_index(s, i) \in Nat /\ exhausted_index(s, i) <= s.span
  BY <1>1, SchemesAssumption DEF SchemesAssumption, exhausted_index
<1>3. ASSUME NEW g, \A i \in 1 .. d : g[i] < exhausted_index(s, i)
      PROVE  g \in [1 .. d -> Nat] <=> g \in [1 .. d -> 0 .. s.span]
  <2>1. ASSUME g \in [1 .. d -> Nat] PROVE g \in [1 .. d -> 0 .. s.span]
    <3>1. ASSUME NEW i \in 1 .. d PROVE g[i] \in 0 .. s.span
      BY <1>1, <1>2, <1>3, <2>1
    <3> QED BY <2>1, <3>1
  <2>2. ASSUME g \in [1 .. d -> 0 .. s.span] PROVE g \in [1 .. d -> Nat]
    <3>1. ASSUME NEW i \in 1 .. d PROVE g[i] \in Nat
      BY <1>1, <2>2
    <3> QED BY <2>2, <3>1
  <2> QED BY <2>1, <2>2
<1>4. ASSUME NEW g, NEW i \in 1 .. d
      PROVE  (\A j \in 1 .. d : j < i => g[j] = q[j] - 1)
               <=> (\A j \in 1 .. d - 1 : j < i => g[j] = q[j] - 1)
  <2>1. \A j \in 1 .. d : j < i => j \in 1 .. d - 1
    BY <1>1
  <2>2. \A j \in 1 .. d - 1 : j \in 1 .. d
    BY <1>1
  <2> QED BY <2>1, <2>2
<1>5. Ahead(s, k) = {g \in [1 .. d -> 0 .. s.span] :
                        /\ \A i \in 1 .. d : g[i] < exhausted_index(s, i)
                        /\ \E i \in 1 .. d :
                            /\ g[i] >= q[i]
                            /\ \A j \in 1 .. d - 1 : j < i => g[j] = q[j] - 1}
  BY DEF Ahead, Level, Upper
<1>6. Later(s, q, 1) = {g \in [1 .. d -> Nat] :
                        /\ \A i \in 1 .. d : g[i] < exhausted_index(s, i)
                        /\ \E i \in 1 .. d :
                            /\ g[i] >= q[i]
                            /\ \A j \in 1 .. d : j < i => g[j] = q[j] - 1}
  BY DEF Later, Tails
<1> HIDE DEF d, q
<1>7. ASSUME NEW g PROVE g \in Ahead(s, k) <=> g \in Later(s, q, 1)
  <2>1. CASE \A i \in 1 .. d : g[i] < exhausted_index(s, i)
    BY <1>3, <1>4, <1>5, <1>6, <2>1
  <2>2. CASE ~\A i \in 1 .. d : g[i] < exhausted_index(s, i)
    BY <1>5, <1>6, <2>2
  <2> QED BY <2>1, <2>2
<1> QED BY <1>7 DEF q

-----------------------------------------------------------------------------
(* Theorems.                                                               *)

(* The inductive invariant is one.                                         *)
LEMMA Invariance == Spec => []IInv
<1>1. Init => IInv
  BY InitGood
<1>2. IInv /\ [Next]_vars => IInv'
  BY Step
<1> QED BY <1>1, <1>2, PTL DEF Spec

(* Indices never pass the end of their tree, for every key: reserve_leaf   *)
(* never wraps.                                                            *)
THEOREM TypeCorrect == Spec => []TypeOK
<1>1. IInv => TypeOK
  <2> SUFFICES ASSUME IInv PROVE TypeOK
    OBVIOUS
  <2>1. ASSUME NEW p \in Process
        PROVE  /\ pc[p] \in Critical \ {"locked"} => mem[p] \in KeyStates(scheme)
               /\ pc[p] \in (Critical \ {"locked", "loaded"}) \cup {"unlocked"} =>
                     \A i \in Level(scheme) : sig[p].path[i] < scheme.leaves[i]
    <3>1. ProcessOK(scheme, lock, file, durable, p, pc[p], mem[p], sig[p], tmp[p])
      BY DEF IInv, ProcessesOK
    <3>2. pc[p] \in Critical \ {"locked"} => GoodKey(scheme, mem[p])
      BY <3>1 DEF ProcessOK, Critical, IInv, FilesOK, GoodFile
    <3>3. pc[p] \in (Critical \ {"locked", "loaded"}) \cup {"unlocked"} =>
              GoodSig(scheme, sig[p])
      BY <3>1 DEF ProcessOK, Critical, Pledged
    <3> QED BY <3>2, <3>3 DEF GoodKey, GoodSig
  <2> QED BY <2>1 DEF TypeOK, IInv, Ranges
<1> QED BY <1>1, Invariance, PTL

(* No one-time key signs twice among the signatures handed out, for every  *)
(* kind of key, any number of processes, crashes and power losses          *)
(* (stateful_sign, SentinelLock, atomic_overwrite, HssPrivateKey::sign).   *)
THEOREM NoKeyReuse == Spec => []OneTimeKeysOnce
<1>1. IInv => OneTimeKeysOnce
  <2> SUFFICES ASSUME IInv, NEW a \in released, NEW b \in released, a # b
               PROVE  /\ a.path # b.path
                      /\ \A i \in Upper(scheme) :
                           (\A j \in 1 .. i : a.path[j] = b.path[j]) => a.pubs[i] = b.pubs[i]
    BY DEF OneTimeKeysOnce
  <2>1. a.path # b.path
    BY DEF IInv, Distinct
  <2>2. ASSUME NEW i \in Upper(scheme), \A j \in 1 .. i : a.path[j] = b.path[j]
        PROVE  a.pubs[i] = b.pubs[i]
    <3>1. i \in 1 .. i
      BY SchemesAssumption DEF SchemesAssumption, IInv, Ranges, Upper
    <3>2. a.path[i] = b.path[i]
      BY <2>2, <3>1
    <3>3. /\ a.pubs[i] = [leaf |-> a.path[i], c |-> 0]
          /\ b.pubs[i] = [leaf |-> b.path[i], c |-> 0]
      BY DEF IInv, ReleasedOK, GoodSig
    <3> QED BY <3>2, <3>3
  <2> QED BY <2>1, <2>2
<1> QED BY <1>1, Invariance, PTL

(* The key file always parses, also after a power loss at any moment.      *)
THEOREM FileSurvives == Spec => []FileIntact
<1>1. IInv => FileIntact
  BY DEF IInv, FilesOK, GoodFile, FileIntact
<1> QED BY <1>1, Invariance, PTL

(* remaining() is exact for every kind of key, at every moment: it counts  *)
(* the messages sign will still accept, up to u64::MAX                     *)
(* (HssPrivateKey::remaining, xmss remaining, exhausted_index).            *)
THEOREM RemainingIsExact == Spec => []RemainingExact
<1>1. IInv => RemainingExact
  <2> SUFFICES ASSUME IInv PROVE RemainingExact
    OBVIOUS
  <2> DEFINE k == from_bytes(scheme, file.key, 0)
  <2>1. scheme \in Schemes /\ GoodKey(scheme, k)
    BY DEF IInv, Ranges, FilesOK, GoodFile
  <2>2. from_bytes(scheme, file.key, made) = k
    BY LoadIgnoresMessage
  <2> HIDE DEF k
  <2>3. remaining(scheme, k) = Saturated(Cardinality(Ahead(scheme, k)))
    BY <2>1, RemainingCounts, AheadIsLater
  <2> QED BY <2>2, <2>3 DEF RemainingExact
<1> QED BY <1>1, Invariance, PTL

=============================================================================
