------------------------ MODULE RedisTransportProofs ------------------------
(***************************************************************************)
(* Proofs about RedisTransport, for any number of consumers and reapers,   *)
(* whether or not they are prompt, and any limit on the reclaims.          *)
(***************************************************************************)
EXTENDS RedisTransport, FiniteSetTheorems, WellFoundedInduction, TLAPS

(***************************************************************************)
(* NoLoss is not inductive: a slot may be about to settle, and the entry   *)
(* that its LREM takes off may be anybody's.  What makes up for it is that *)
(* every settlement comes after a publication of the same slot.  So there  *)
(* is always one copy more than there are slots that have published and    *)
(* not settled yet.                                                        *)
(***************************************************************************)
Entries(y) == queue[y] + processing[y]
Copies == UNION {{y} \X (1..Entries(y)) : y \in Payload}

Owes(slot) == slot.pc \in {"acking", "settling"}
Owing == ({"con"} \X {c \in Consumers : Owes(con[c])})
         \cup ({"rea"} \X {r \in Reapers : Owes(rea[r])})

Enough(copies, owing) ==
    /\ IsFiniteSet(copies) /\ IsFiniteSet(owing)
    /\ Cardinality(copies) > Cardinality(owing)

\* A slot that looks a claim up, or settles it, knows its id.
Known(slot) ==
    slot.pc \in {"working", "acking", "returning", "settling", "stale", "reclaiming"}
        => slot.id # None

RedisInv ==
    /\ TypeOK
    /\ \A c \in Consumers : Known(con[c])
    /\ \A r \in Reapers : Known(rea[r])
    /\ done \/ dlq \/ Enough(Copies, Owing)
-----------------------------------------------------------------------------
(* Counting copies.                                                        *)

LEMMA SettledSlot ==
    ASSUME NEW C, NEW D, Enough(C, D), NEW E \in SUBSET D
    PROVE  Enough(C, E)
<1>1. IsFiniteSet(E) /\ Cardinality(E) <= Cardinality(D)
  BY FS_Subset DEF Enough
<1>2. Cardinality(C) \in Nat /\ Cardinality(D) \in Nat /\ Cardinality(E) \in Nat
  BY <1>1, FS_CardinalityType DEF Enough
<1>. QED
  BY <1>1, <1>2 DEF Enough

LEMMA PublishedCopy ==
    ASSUME NEW C, NEW D, Enough(C, D), NEW p, p \notin C, NEW o, NEW E \in SUBSET (D \cup {o})
    PROVE  Enough(C \cup {p}, E)
<1>1. IsFiniteSet(C \cup {p}) /\ Cardinality(C \cup {p}) = Cardinality(C) + 1
  BY FS_AddElement DEF Enough
<1>2. IsFiniteSet(D \cup {o}) /\ Cardinality(D \cup {o}) <= Cardinality(D) + 1
  <2>1. Cardinality(D) \in Nat
    BY FS_CardinalityType DEF Enough
  <2>2. /\ IsFiniteSet(D \cup {o})
        /\ Cardinality(D \cup {o}) = IF o \in D THEN Cardinality(D) ELSE Cardinality(D) + 1
    BY FS_AddElement DEF Enough
  <2>. QED
    BY <2>1, <2>2
<1>3. Cardinality(C) \in Nat /\ Cardinality(D) \in Nat /\ Cardinality(D \cup {o}) \in Nat
  BY <1>2, FS_CardinalityType DEF Enough
<1>4. Enough(C \cup {p}, D \cup {o})
  BY <1>1, <1>2, <1>3 DEF Enough
<1>. QED
  BY <1>4, SettledSlot

LEMMA RemovedCopy ==
    ASSUME NEW C, NEW D, Enough(C, D), NEW p, NEW o \in D
    PROVE  Enough(C \ {p}, D \ {o})
<1>1. IsFiniteSet(D \ {o}) /\ Cardinality(D \ {o}) = Cardinality(D) - 1
  BY FS_RemoveElement DEF Enough
<1>2. IsFiniteSet(C \ {p}) /\ Cardinality(C \ {p}) >= Cardinality(C) - 1
  <2>1. CASE p \in C
    <3>1. IsFiniteSet(C \ {p}) /\ Cardinality(C \ {p}) = Cardinality(C) - 1
      BY <2>1, FS_RemoveElement DEF Enough
    <3>2. Cardinality(C) \in Nat
      BY FS_CardinalityType DEF Enough
    <3>. QED
      BY <3>1, <3>2
  <2>2. CASE p \notin C
    <3>1. C \ {p} = C /\ Cardinality(C) \in Nat
      BY <2>2, FS_CardinalityType DEF Enough
    <3>. QED
      BY <3>1 DEF Enough
  <2>. QED
    BY <2>1, <2>2
<1>3. /\ Cardinality(C) \in Nat /\ Cardinality(D) \in Nat
      /\ Cardinality(C \ {p}) \in Nat /\ Cardinality(D \ {o}) \in Nat
  BY <1>1, <1>2, FS_CardinalityType DEF Enough
<1>. QED
  BY <1>1, <1>2, <1>3 DEF Enough

LEMMA EnoughIsSome ==
    ASSUME TypeOK, Enough(Copies, Owing)
    PROVE  \E y \in Payload : queue[y] + processing[y] > 0
<1>1. Copies # {}
  <2>1. Cardinality(Owing) \in Nat /\ Cardinality({}) = 0
    BY FS_CardinalityType, FS_EmptySet DEF Enough
  <2>. QED
    BY <2>1 DEF Enough
<1>2. PICK y \in Payload : 1..Entries(y) # {}
  BY <1>1 DEF Copies
<1>3. queue[y] \in Nat /\ processing[y] \in Nat
  BY DEF TypeOK
<1>. QED
  BY <1>2, <1>3 DEF Entries
-----------------------------------------------------------------------------
(* What the steps do to the copies.                                        *)

LEMMA CopiesAre ==
    ASSUME NEW p
    PROVE  /\ p \in Copies <=> \E y \in Payload : \E k \in 1..Entries(y) : p = <<y, k>>
           /\ p \in Copies' <=> \E y \in Payload : \E k \in 1..(Entries(y)') : p = <<y, k>>
  BY DEF Copies

LEMMA CopiesStay ==
    ASSUME \A y \in Payload : Entries(y)' = Entries(y)
    PROVE  Copies' = Copies
  BY CopiesAre

LEMMA CopiesGrow ==
    ASSUME TypeOK, NEW y \in Payload, Push(y), UNCHANGED processing
    PROVE  \E p : p \notin Copies /\ Copies' = Copies \cup {p}
<1> DEFINE n == Entries(y)
<1>1. n \in Nat /\ Entries(y)' = n + 1
  BY DEF TypeOK, Push, Entries
<1>2. \A z \in Payload \ {y} : Entries(z)' = Entries(z)
  BY DEF TypeOK, Push, Entries
<1>3. 1..(n + 1) = (1..n) \cup {n + 1} /\ n + 1 \notin 1..n
  BY <1>1
<1>4. <<y, n + 1>> \notin Copies
  BY <1>3, CopiesAre
<1>5. ASSUME NEW p PROVE p \in Copies' <=> p \in Copies \cup {<<y, n + 1>>}
  <2>. HIDE DEF n
  <2>1. p \in Copies' <=> \E z \in Payload : \E k \in 1..(Entries(z)') : p = <<z, k>>
    BY CopiesAre
  <2>2. p \in Copies <=> \E z \in Payload : \E k \in 1..Entries(z) : p = <<z, k>>
    BY CopiesAre
  <2>. QED
    BY <1>1, <1>2, <1>3, <2>1, <2>2 DEF n
<1>6. Copies' = Copies \cup {<<y, n + 1>>}
  BY <1>5
<1>. QED
  BY <1>4, <1>6

\* _settle_claim, whatever of it takes effect, removes at most one copy.
LEMMA SettlementRemovesOne ==
    ASSUME TypeOK, NEW id \in ClaimIds, NEW y \in Payload, UNCHANGED queue,
           SettleClaim(id, y) \/ SettleClaimFails(id, y)
    PROVE  /\ \E p : Copies' = Copies \ {p}
           /\ processing' \in [Payload -> Nat]
           /\ claims' \in [ClaimIds -> Payload \cup {None}]
           /\ index' \subseteq ClaimIds
<1> DEFINE n == Entries(y)
<1>0. queue[y] \in Nat /\ processing[y] \in Nat /\ n \in Nat
  BY DEF TypeOK, Entries
<1>1. processing' \in {processing, [processing EXCEPT ![y] = IF @ > 0 THEN @ - 1 ELSE 0]}
  BY DEF SettleClaim, SettleClaimFails
<1>2. /\ processing' \in [Payload -> Nat]
      /\ \A z \in Payload \ {y} : processing'[z] = processing[z]
      /\ processing'[y] \in {processing[y], processing[y] - 1}
  BY <1>0, <1>1 DEF TypeOK
<1>3. claims' \in [ClaimIds -> Payload \cup {None}] /\ index' \subseteq ClaimIds
  BY DEF SettleClaim, SettleClaimFails, TypeOK
<1>4. \A z \in Payload \ {y} : Entries(z)' = Entries(z)
  BY <1>2 DEF Entries
<1>5. CASE processing'[y] = processing[y]
  <2>1. \A z \in Payload : Entries(z)' = Entries(z)
    BY <1>4, <1>5 DEF Entries
  <2>2. Copies' = Copies \ {<<y, n + 1>>}
    <3>1. <<y, n + 1>> \notin Copies
      BY <1>0, CopiesAre
    <3>. QED
      BY <2>1, <3>1, CopiesStay
  <2>. QED
    BY <1>2, <1>3, <2>2
<1>6. CASE processing'[y] = processing[y] - 1
  <2>1. Entries(y)' = n - 1 /\ n - 1 \in Nat
    BY <1>0, <1>2, <1>6 DEF Entries
  <2>2. 1..(n - 1) = (1..n) \ {n}
    BY <1>0, <2>1
  <2>3. ASSUME NEW p PROVE p \in Copies' <=> p \in Copies \ {<<y, n>>}
    <3>1. p \in Copies' <=> \E z \in Payload : \E k \in 1..(Entries(z)') : p = <<z, k>>
      BY CopiesAre
    <3>2. p \in Copies <=> \E z \in Payload : \E k \in 1..Entries(z) : p = <<z, k>>
      BY CopiesAre
    <3>3. n = Entries(y)
      OBVIOUS
    <3>. HIDE DEF n
    <3>. QED
      BY <1>4, <2>1, <2>2, <3>1, <3>2, <3>3
  <2>4. Copies' = Copies \ {<<y, n>>}
    BY <2>3
  <2>. QED
    BY <1>2, <1>3, <2>4
<1>. QED
  BY <1>2, <1>5, <1>6

\* _claim, whatever of it takes effect.
LEMMA ClaimTypes ==
    ASSUME TypeOK, NEW id \in ClaimIds, NEW y \in Payload,
           RecordClaim(id, y) \/ RecordClaimFails(id, y)
    PROVE  /\ claims' \in [ClaimIds -> Payload \cup {None}]
           /\ index' \subseteq ClaimIds
           /\ marker' \in [Payload -> 0..2 \cup {None}]
<1>1. CASE RecordClaim(id, y)
  BY <1>1 DEF RecordClaim, TypeOK
<1>2. CASE RecordClaimFails(id, y)
  <2>1. claims' \in [ClaimIds -> Payload \cup {None}]
    BY <1>2 DEF RecordClaimFails, TypeOK
  <2>2. index' \subseteq ClaimIds
    BY <1>2 DEF RecordClaimFails, TypeOK
  <2>3. marker[y] \in 0..2 \cup {None}
    BY DEF TypeOK
  <2>4. marker' \in [Payload -> 0..2 \cup {None}]
    BY <1>2, <2>3 DEF RecordClaimFails, TypeOK
  <2>. QED
    BY <2>1, <2>2, <2>4
<1>. QED
  BY <1>1, <1>2

LEMMA SmallestId ==
    ASSUME NEW S \in SUBSET Nat, S # {}
    PROVE  \E k \in S : \A n \in S : k <= n
<1> DEFINE R == OpToRel(<, Nat)
<1>1. IsWellFoundedOn(R, Nat)
  BY NatLessThanWellFounded
<1>2. PICK k \in S : \A n \in S : ~(<<n, k>> \in R)
  <2>. HIDE DEF R
  <2>. QED
    BY <1>1, WFMin
<1>3. \A n \in S : ~(n < k)
  BY <1>2 DEF OpToRel
<1>. QED
  BY <1>3

LEMMA FreshIdIsId ==
    ASSUME FreshIds # {}
    PROVE  FreshId \in ClaimIds /\ FreshId # None
<1>1. FreshIds \in SUBSET ClaimIds /\ FreshIds \in SUBSET Nat
  BY RedisAssumption DEF FreshIds
<1>2. \E id \in FreshIds : \A other \in FreshIds : id <= other
  BY <1>1, SmallestId
<1>. QED
  BY <1>1, <1>2, RedisAssumption DEF FreshId
-----------------------------------------------------------------------------
(* What the steps do to the slots.                                         *)

LEMMA ConsumerGoes ==
    ASSUME RedisInv, NEW c \in Consumers, NEW s \in Slot(ConsumerPCs), Known(s),
           con' = [con EXCEPT ![c] = s], UNCHANGED rea
    PROVE  /\ con' \in [Consumers -> Slot(ConsumerPCs)] /\ rea' \in [Reapers -> Slot(ReaperPCs)]
           /\ \A d \in Consumers : Known(con[d])'
           /\ \A r \in Reapers : Known(rea[r])'
           /\ Owing' \subseteq Owing \cup {<<"con", c>>}
           /\ Owes(con[c]) => <<"con", c>> \in Owing
           /\ ~Owes(s) => Owing' = Owing \ {<<"con", c>>}
<1>1. /\ con \in [Consumers -> Slot(ConsumerPCs)] /\ rea \in [Reapers -> Slot(ReaperPCs)]
      /\ \A d \in Consumers : Known(con[d])
      /\ \A r \in Reapers : Known(rea[r])
  BY DEF RedisInv, TypeOK
<1>2. con'[c] = s /\ \A d \in Consumers \ {c} : con'[d] = con[d]
  BY <1>1
<1>3. \A d \in Consumers : Known(con[d])'
  BY <1>1, <1>2 DEF Known
<1>4. \A r \in Reapers : Known(rea[r])'
  BY <1>1 DEF Known
<1>5. \A d \in Consumers \ {c} : Owes(con[d])' <=> Owes(con[d])
  BY <1>2 DEF Owes
<1>6. \A r \in Reapers : Owes(rea[r])' <=> Owes(rea[r])
  BY DEF Owes
<1>7. Owes(con[c])' <=> Owes(s)
  BY <1>2 DEF Owes
<1>8. Owing' \subseteq Owing \cup {<<"con", c>>}
  BY <1>5, <1>6 DEF Owing
<1>9. ~Owes(s) => Owing' = Owing \ {<<"con", c>>}
  BY <1>5, <1>6, <1>7 DEF Owing
<1>. QED
  BY <1>1, <1>2, <1>3, <1>4, <1>8, <1>9 DEF Owing

LEMMA ReaperGoes ==
    ASSUME RedisInv, NEW r \in Reapers, NEW s \in Slot(ReaperPCs), Known(s),
           rea' = [rea EXCEPT ![r] = s], UNCHANGED con
    PROVE  /\ con' \in [Consumers -> Slot(ConsumerPCs)] /\ rea' \in [Reapers -> Slot(ReaperPCs)]
           /\ \A d \in Consumers : Known(con[d])'
           /\ \A q \in Reapers : Known(rea[q])'
           /\ Owing' \subseteq Owing \cup {<<"rea", r>>}
           /\ Owes(rea[r]) => <<"rea", r>> \in Owing
           /\ ~Owes(s) => Owing' = Owing \ {<<"rea", r>>}
<1>1. /\ con \in [Consumers -> Slot(ConsumerPCs)] /\ rea \in [Reapers -> Slot(ReaperPCs)]
      /\ \A d \in Consumers : Known(con[d])
      /\ \A q \in Reapers : Known(rea[q])
  BY DEF RedisInv, TypeOK
<1>2. rea'[r] = s /\ \A q \in Reapers \ {r} : rea'[q] = rea[q]
  BY <1>1
<1>3. \A q \in Reapers : Known(rea[q])'
  BY <1>1, <1>2 DEF Known
<1>4. \A d \in Consumers : Known(con[d])'
  BY <1>1 DEF Known
<1>5. \A q \in Reapers \ {r} : Owes(rea[q])' <=> Owes(rea[q])
  BY <1>2 DEF Owes
<1>6. \A d \in Consumers : Owes(con[d])' <=> Owes(con[d])
  BY DEF Owes
<1>7. Owes(rea[r])' <=> Owes(s)
  BY <1>2 DEF Owes
<1>8. Owing' \subseteq Owing \cup {<<"rea", r>>}
  BY <1>5, <1>6 DEF Owing
<1>9. ~Owes(s) => Owing' = Owing \ {<<"rea", r>>}
  BY <1>5, <1>6, <1>7 DEF Owing
<1>. QED
  BY <1>1, <1>2, <1>3, <1>4, <1>8, <1>9 DEF Owing

LEMMA FreeSlot ==
    /\ Free \in Slot(ConsumerPCs) /\ Free \in Slot(ReaperPCs)
    /\ ~Owes(Free) /\ Known(Free) /\ First \in Payload
  BY DEF Free, Slot, ConsumerPCs, ReaperPCs, Owes, Known, Payload

\* The ways in which a step leaves enough copies.
LEMMA CopiesKept ==
    ASSUME RedisInv, TypeOK',
           \A c \in Consumers : Known(con[c])', \A r \in Reapers : Known(rea[r])',
           done => done', dlq => dlq',
           \/ done' \/ dlq'
           \/ Copies' = Copies /\ Owing' \subseteq Owing
           \/ \E p, o : p \notin Copies /\ Copies' = Copies \cup {p} /\ Owing' \subseteq Owing \cup {o}
           \/ \E p : \E o \in Owing : Copies' = Copies \ {p} /\ Owing' = Owing \ {o}
    PROVE  RedisInv'
<1>1. CASE done' \/ dlq'
  BY <1>1 DEF RedisInv
<1>2. CASE ~done' /\ ~dlq'
  <2>1. Enough(Copies, Owing)
    BY <1>2 DEF RedisInv
  <2>2. CASE Copies' = Copies /\ Owing' \subseteq Owing
    <3>1. Enough(Copies, Owing')
      BY <2>1, <2>2, SettledSlot
    <3>. QED
      BY <2>2, <3>1 DEF RedisInv, Enough
  <2>3. ASSUME NEW p, NEW o, p \notin Copies, Copies' = Copies \cup {p},
               Owing' \subseteq Owing \cup {o}
        PROVE  RedisInv'
    <3>1. Enough(Copies \cup {p}, Owing')
      BY <2>1, <2>3, PublishedCopy
    <3>. QED
      BY <2>3, <3>1 DEF RedisInv, Enough
  <2>4. ASSUME NEW p, NEW o \in Owing, Copies' = Copies \ {p}, Owing' = Owing \ {o}
        PROVE  RedisInv'
    <3>1. Enough(Copies \ {p}, Owing \ {o})
      BY <2>1, RemovedCopy
    <3>. QED
      BY <2>4, <3>1 DEF RedisInv, Enough
  <2>. QED
    BY <1>2, <2>2, <2>3, <2>4
<1>. QED
  BY <1>1, <1>2
-----------------------------------------------------------------------------
LEMMA ConsumerPreserves ==
    ASSUME RedisInv, NEW c \in Consumers,
           ConsumerStep(c) \/ Return(c) \/ ConsumerFault(c)
    PROVE  RedisInv'
<1>0. /\ TypeOK /\ con[c] \in Slot(ConsumerPCs) /\ con[c].y \in Payload /\ Known(con[c])
      /\ con \in [Consumers -> Slot(ConsumerPCs)]
  BY DEF RedisInv, TypeOK, Slot
<1>1. ASSUME NEW y \in Payload, Move(c, y) PROVE RedisInv'
  <2> DEFINE s == [Free EXCEPT !.pc = "moved", !.y = y]
  <2>1. s \in Slot(ConsumerPCs) /\ Known(s) /\ ~Owes(s)
    BY FreeSlot DEF Slot, ConsumerPCs, Known, Owes
  <2>2. con' = [con EXCEPT ![c] = s] /\ UNCHANGED <<claims, index, marker, dlq, done, rea>>
    BY <1>1 DEF Move
  <2>3. queue' \in [Payload -> Nat] /\ processing' \in [Payload -> Nat]
        /\ \A z \in Payload : Entries(z)' = Entries(z)
    BY <1>0, <1>1 DEF Move, TypeOK, Entries
  <2>. HIDE DEF s
  <2>4. TypeOK'
    BY <1>0, <2>1, <2>2, <2>3, ConsumerGoes DEF TypeOK
  <2>5. Copies' = Copies
    BY <2>3, CopiesStay
  <2>6. Owing' \subseteq Owing
    BY <2>1, <2>2, ConsumerGoes
  <2>. QED
    BY <2>1, <2>2, <2>4, <2>5, <2>6, ConsumerGoes, CopiesKept
\* The slot changes and records a claim.
<1>2. CASE Claim(c) \/ ClaimFails(c)
  <2>1. PICK s \in Slot(ConsumerPCs) : Known(s) /\ ~Owes(s) /\ con' = [con EXCEPT ![c] = s]
    <3>1. CASE Claim(c)
      <4> DEFINE s == [con[c] EXCEPT !.pc = "working", !.id = FreshId]
      <4>1. FreshId \in ClaimIds /\ FreshId # None
        BY <3>1, FreshIdIsId DEF Claim
      <4>2. s \in Slot(ConsumerPCs) /\ Known(s) /\ ~Owes(s)
        BY <1>0, <4>1 DEF Slot, ConsumerPCs, Known, Owes
      <4>3. con' = [con EXCEPT ![c] = s]
        BY <1>0, <3>1 DEF Claim
      <4>. QED
        BY <4>2, <4>3
    <3>2. CASE ClaimFails(c)
      BY <3>2, FreeSlot DEF ClaimFails
    <3>. QED
      BY <1>2, <3>1, <3>2
  <2>2. UNCHANGED <<queue, processing, dlq, done, rea>>
    BY <1>2 DEF Claim, ClaimFails
  <2>3. /\ claims' \in [ClaimIds -> Payload \cup {None}] /\ index' \subseteq ClaimIds
        /\ marker' \in [Payload -> 0..2 \cup {None}]
    <3>1. /\ RecordClaim(FreshId, con[c].y) \/ RecordClaimFails(FreshId, con[c].y)
          /\ FreshIds # {}
      BY <1>2 DEF Claim, ClaimFails
    <3>. QED
      BY <1>0, <3>1, FreshIdIsId, ClaimTypes
  <2>4. TypeOK'
    BY <1>0, <2>1, <2>2, <2>3, ConsumerGoes DEF TypeOK
  <2>5. Copies' = Copies
    BY <2>2, CopiesStay DEF Entries
  <2>6. Owing' \subseteq Owing
    BY <2>1, <2>2, ConsumerGoes
  <2>. QED
    BY <2>1, <2>2, <2>4, <2>5, <2>6, ConsumerGoes, CopiesKept
<1>3. CASE Finish(c)
  <2> DEFINE s == [con[c] EXCEPT !.pc = "acking", !.y = First]
  <2>1. s \in Slot(ConsumerPCs) /\ Known(s)
    BY <1>0, <1>3, FreeSlot DEF Finish, Slot, ConsumerPCs, Known
  <2>2. con' = [con EXCEPT ![c] = s]
    BY <1>0, <1>3 DEF Finish
  <2>3. done' = TRUE /\ UNCHANGED <<queue, processing, claims, index, marker, dlq, rea>>
    BY <1>3 DEF Finish
  <2>. HIDE DEF s
  <2>4. TypeOK'
    BY <1>0, <2>1, <2>2, <2>3, ConsumerGoes DEF TypeOK
  <2>. QED
    BY <2>1, <2>2, <2>3, <2>4, ConsumerGoes, CopiesKept
\* The slot publishes, and owes a settlement.
<1>4. CASE Restore(c) \/ NackRequeue(c)
  <2>1. PICK s \in Slot(ConsumerPCs) : Known(s) /\ con' = [con EXCEPT ![c] = s]
    <3>1. CASE Restore(c)
      <4> DEFINE s == [con[c] EXCEPT !.pc = "acking", !.y = First]
      <4>1. s \in Slot(ConsumerPCs) /\ Known(s)
        BY <1>0, <3>1, FreeSlot DEF Restore, Slot, ConsumerPCs, Known
      <4>2. con' = [con EXCEPT ![c] = s]
        BY <1>0, <3>1 DEF Restore
      <4>. QED
        BY <4>1, <4>2
    <3>2. CASE NackRequeue(c)
      <4> DEFINE s == [con[c] EXCEPT !.pc = "settling"]
      <4>1. s \in Slot(ConsumerPCs) /\ Known(s)
        BY <1>0, <3>2 DEF NackRequeue, Slot, ConsumerPCs, Known
      <4>2. con' = [con EXCEPT ![c] = s]
        BY <1>0, <3>2 DEF NackRequeue
      <4>. QED
        BY <4>1, <4>2
    <3>. QED
      BY <1>4, <3>1, <3>2
  <2>2. Push(con[c].y) /\ UNCHANGED <<processing, claims, index, marker, dlq, done, rea>>
    BY <1>4 DEF Restore, NackRequeue
  <2>3. queue' \in [Payload -> Nat]
    BY <1>0, <2>2 DEF Push, TypeOK
  <2>4. TypeOK'
    BY <1>0, <2>1, <2>2, <2>3, ConsumerGoes DEF TypeOK
  <2>5. PICK p : p \notin Copies /\ Copies' = Copies \cup {p}
    BY <1>0, <2>2, CopiesGrow
  <2>6. Owing' \subseteq Owing \cup {<<"con", c>>}
    BY <2>1, <2>2, ConsumerGoes
  <2>7. /\ \A d \in Consumers : Known(con[d])'
        /\ \A r \in Reapers : Known(rea[r])'
    BY <2>1, <2>2, ConsumerGoes
  <2>. QED
    BY <2>2, <2>4, <2>5, <2>6, <2>7, CopiesKept
\* The slot looks its claim up.
<1>5. CASE AckLookup(c) \/ NackLookup(c) \/ ConsumerCrash(c)
  <2>1. PICK s \in Slot(ConsumerPCs) : /\ Known(s) /\ con' = [con EXCEPT ![c] = s]
                                       /\ Owes(s) => Owes(con[c])
    <3>1. ASSUME NEW next \in {"settling", "returning"}, con[c].pc \in {"acking", "working"}
          PROVE  /\ Lookup(con[c], next) \in Slot(ConsumerPCs)
                 /\ Known(Lookup(con[c], next))
                 /\ Owes(Lookup(con[c], next)) => next = "settling"
      <4>1. con[c].id \in ClaimIds
        BY <1>0, <3>1 DEF Slot, Known
      <4>2. claims[con[c].id] # None => claims[con[c].id] \in Payload
        BY <1>0, <4>1 DEF TypeOK
      <4>3. con[c].id # None
        BY <4>1, RedisAssumption
      <4>. QED
        BY <1>0, <4>1, <4>2, <4>3, FreeSlot DEF Lookup, Slot, ConsumerPCs, Known, Owes
    <3>2. CASE AckLookup(c)
      <4>1. con[c].pc = "acking" /\ con' = [con EXCEPT ![c] = Lookup(con[c], "settling")]
        BY <3>2 DEF AckLookup
      <4>. QED
        BY <3>1, <4>1 DEF Owes
    <3>3. CASE NackLookup(c)
      <4>1. con[c].pc = "working" /\ con' = [con EXCEPT ![c] = Lookup(con[c], "returning")]
        BY <3>3 DEF NackLookup
      <4>. QED
        BY <3>1, <4>1
    <3>4. CASE ConsumerCrash(c)
      BY <3>4, FreeSlot DEF ConsumerCrash
    <3>. QED
      BY <1>5, <3>2, <3>3, <3>4
  <2>2. UNCHANGED <<queue, processing, claims, index, marker, dlq, done, rea>>
    BY <1>5 DEF AckLookup, NackLookup, ConsumerCrash
  <2>3. TypeOK'
    BY <1>0, <2>1, <2>2, ConsumerGoes DEF TypeOK
  <2>4. Copies' = Copies
    BY <2>2, CopiesStay DEF Entries
  <2>5. Owing' \subseteq Owing
    BY <2>1, <2>2, ConsumerGoes
  <2>. QED
    BY <2>1, <2>2, <2>3, <2>4, <2>5, ConsumerGoes, CopiesKept
<1>6. CASE Settle(c) \/ SettleFails(c)
  <2>1. con' = [con EXCEPT ![c] = Free] /\ UNCHANGED <<queue, marker, dlq, done, rea>>
        /\ con[c].pc = "settling"
    BY <1>6 DEF Settle, SettleFails
  <2>2. con[c].id \in ClaimIds /\ Owes(con[c])
    BY <1>0, <2>1 DEF Slot, Known, Owes
  <2>3. /\ \E p : Copies' = Copies \ {p}
        /\ processing' \in [Payload -> Nat]
        /\ claims' \in [ClaimIds -> Payload \cup {None}]
        /\ index' \subseteq ClaimIds
    BY <1>0, <1>6, <2>1, <2>2, SettlementRemovesOne DEF Settle, SettleFails
  <2>4. TypeOK'
    BY <1>0, <2>1, <2>3, FreeSlot, ConsumerGoes DEF TypeOK
  <2>5. <<"con", c>> \in Owing /\ Owing' = Owing \ {<<"con", c>>}
    BY <2>1, <2>2, FreeSlot, ConsumerGoes
  <2>. QED
    BY <2>1, <2>3, <2>4, <2>5, FreeSlot, ConsumerGoes, CopiesKept
<1>. QED
  BY <1>1, <1>2, <1>3, <1>4, <1>5, <1>6 DEF ConsumerStep, Return, ConsumerFault
-----------------------------------------------------------------------------
LEMMA ReaperPreserves ==
    ASSUME RedisInv, NEW r \in Reapers,
           Reconcile(r) \/ Reclaim(r) \/ ReaperFault(r)
    PROVE  RedisInv'
<1>0. /\ TypeOK /\ rea[r] \in Slot(ReaperPCs) /\ rea[r].y \in Payload /\ Known(rea[r])
      /\ rea \in [Reapers -> Slot(ReaperPCs)]
  BY DEF RedisInv, TypeOK, Slot
\* The slot goes on without an effect on the lists, the claims and their index.
<1>1. ASSUME NEW s \in Slot(ReaperPCs), Known(s), Owes(s) => Owes(rea[r]),
             rea' = [rea EXCEPT ![r] = s],
             UNCHANGED <<queue, processing, dlq, done, con>>,
             claims' \in [ClaimIds -> Payload \cup {None}], index' \subseteq ClaimIds,
             marker' \in [Payload -> 0..2 \cup {None}]
      PROVE  RedisInv'
  <2>1. TypeOK'
    BY <1>0, <1>1, ReaperGoes DEF TypeOK
  <2>2. Copies' = Copies
    BY <1>1, CopiesStay DEF Entries
  <2>3. Owing' \subseteq Owing
    BY <1>1, ReaperGoes
  <2>. QED
    BY <1>1, <2>1, <2>2, <2>3, ReaperGoes, CopiesKept
<1>2. claims \in [ClaimIds -> Payload \cup {None}] /\ index \subseteq ClaimIds
      /\ marker \in [Payload -> 0..2 \cup {None}]
  BY <1>0 DEF TypeOK
<1>3. ASSUME NEW y \in Payload, List(r, y) PROVE RedisInv'
  <2> DEFINE s == [Free EXCEPT !.pc = "listed", !.y = y, !.seen = processing[y]]
  <2>1. s \in Slot(ReaperPCs) /\ Known(s) /\ ~Owes(s)
    BY <1>0, FreeSlot DEF Slot, ReaperPCs, Known, Owes, TypeOK
  <2>2. rea' = [rea EXCEPT ![r] = s]
        /\ UNCHANGED <<queue, processing, claims, index, marker, dlq, done, con>>
    BY <1>3 DEF List
  <2>. HIDE DEF s
  <2>. QED
    BY <1>1, <1>2, <2>1, <2>2
<1>4. CASE ReadIndex(r)
  <2> DEFINE s == [rea[r] EXCEPT !.pc = "indexed", !.ids = index]
  <2>1. s \in Slot(ReaperPCs) /\ Known(s) /\ ~Owes(s)
    BY <1>0, <1>2 DEF Slot, ReaperPCs, Known, Owes
  <2>2. rea' = [rea EXCEPT ![r] = s]
        /\ UNCHANGED <<queue, processing, claims, index, marker, dlq, done, con>>
    BY <1>0, <1>4 DEF ReadIndex
  <2>. HIDE DEF s
  <2>. QED
    BY <1>1, <1>2, <2>1, <2>2
<1>5. CASE Sight(r)
  <2> DEFINE s == [rea[r] EXCEPT !.pc = "sighted", !.seen = 0, !.ids = {}]
  <2>1. s \in Slot(ReaperPCs) /\ Known(s) /\ ~Owes(s)
    BY <1>0 DEF Slot, ReaperPCs, Known, Owes
  <2>2. /\ rea' = [rea EXCEPT ![r] = s] \/ rea' = [rea EXCEPT ![r] = Free]
        /\ UNCHANGED <<queue, processing, claims, index, marker, dlq, done, con>>
    BY <1>0, <1>5 DEF Sight
  <2>. HIDE DEF s
  <2>. QED
    BY <1>1, <1>2, <2>1, <2>2, FreeSlot
<1>6. CASE Record(r)
  <2> DEFINE s == [rea[r] EXCEPT !.pc = "recorded"]
  <2>1. s \in Slot(ReaperPCs) /\ Known(s) /\ ~Owes(s)
    BY <1>0 DEF Slot, ReaperPCs, Known, Owes
  <2>2. /\ rea' = [rea EXCEPT ![r] = s] \/ rea' = [rea EXCEPT ![r] = Free]
        /\ UNCHANGED <<queue, processing, claims, index, dlq, done, con>>
    BY <1>0, <1>6 DEF Record
  <2>3. rea[r].age \in 0..2
    BY <1>0 DEF Slot
  <2>4. marker' \in [Payload -> 0..2 \cup {None}]
    BY <1>0, <1>2, <1>6, <2>3 DEF Record
  <2>. HIDE DEF s
  <2>. QED
    BY <1>1, <1>2, <2>1, <2>2, <2>4, FreeSlot
<1>7. CASE Confirm(r)
  <2> DEFINE s == [Free EXCEPT !.pc = "confirmed", !.y = rea[r].y]
  <2>1. s \in Slot(ReaperPCs) /\ Known(s) /\ ~Owes(s)
    BY <1>0, FreeSlot DEF Slot, ReaperPCs, Known, Owes
  <2>2. /\ rea' = [rea EXCEPT ![r] = s] \/ rea' = [rea EXCEPT ![r] = Free]
        /\ UNCHANGED <<queue, processing, claims, index, marker, dlq, done, con>>
    BY <1>0, <1>7 DEF Confirm
  <2>. HIDE DEF s
  <2>. QED
    BY <1>1, <1>2, <2>1, <2>2, FreeSlot
<1>8. CASE WinMarker(r)
  <2> DEFINE s == [rea[r] EXCEPT !.pc = "won"]
  <2>1. s \in Slot(ReaperPCs) /\ Known(s) /\ ~Owes(s)
    BY <1>0 DEF Slot, ReaperPCs, Known, Owes
  <2>2. /\ rea' = [rea EXCEPT ![r] = s] \/ rea' = [rea EXCEPT ![r] = Free]
        /\ UNCHANGED <<queue, processing, claims, index, dlq, done, con>>
    BY <1>0, <1>8 DEF WinMarker
  <2>3. marker' \in [Payload -> 0..2 \cup {None}]
    BY <1>2, <1>8 DEF WinMarker
  <2>. HIDE DEF s
  <2>. QED
    BY <1>1, <1>2, <2>1, <2>2, <2>3, FreeSlot
<1>9. CASE Reindex(r) \/ ReindexFails(r)
  <2>1. /\ RecordClaim(FreshId, rea[r].y) \/ RecordClaimFails(FreshId, rea[r].y)
        /\ FreshIds # {} /\ rea' = [rea EXCEPT ![r] = Free]
        /\ UNCHANGED <<queue, processing, dlq, done, con>>
    BY <1>9 DEF Reindex, ReindexFails
  <2>2. /\ claims' \in [ClaimIds -> Payload \cup {None}] /\ index' \subseteq ClaimIds
        /\ marker' \in [Payload -> 0..2 \cup {None}]
    BY <1>0, <2>1, FreshIdIsId, ClaimTypes
  <2>. QED
    BY <1>1, <2>1, <2>2, FreeSlot
<1>10. ASSUME NEW id \in ClaimIds, FindStale(r, id) PROVE RedisInv'
  <2> DEFINE s == [Free EXCEPT !.pc = "stale", !.id = id]
  <2>1. s \in Slot(ReaperPCs) /\ Known(s) /\ ~Owes(s)
    BY FreeSlot, RedisAssumption DEF Free, Slot, ReaperPCs, Known, Owes
  <2>2. rea' = [rea EXCEPT ![r] = s]
        /\ UNCHANGED <<queue, processing, claims, index, marker, dlq, done, con>>
    BY <1>10 DEF FindStale
  <2>. HIDE DEF s
  <2>. QED
    BY <1>1, <1>2, <2>1, <2>2
<1>11. ASSUME NEW next \in {"settling", "reclaiming"}, rea[r].pc \in {"acking", "stale"}
       PROVE  /\ Lookup(rea[r], next) \in Slot(ReaperPCs)
              /\ Known(Lookup(rea[r], next))
              /\ Owes(Lookup(rea[r], next)) => next = "settling"
  <2>1. rea[r].id \in ClaimIds
    BY <1>0, <1>11 DEF Slot, Known
  <2>2. claims[rea[r].id] # None => claims[rea[r].id] \in Payload
    BY <1>2, <2>1
  <2>3. rea[r].id # None
    BY <2>1, RedisAssumption
  <2>. QED
    BY <1>0, <2>1, <2>2, <2>3, FreeSlot DEF Lookup, Slot, ReaperPCs, Known, Owes
<1>12. CASE Resolve(r)
  <2>1. rea[r].pc = "stale" /\ rea' = [rea EXCEPT ![r] = Lookup(rea[r], "reclaiming")]
        /\ UNCHANGED <<queue, processing, claims, marker, dlq, done, con>>
        /\ index' \subseteq index
    BY <1>12 DEF Resolve
  <2>. QED
    BY <1>1, <1>2, <1>11, <2>1
<1>13. CASE ReaperLookup(r)
  <2>1. rea[r].pc = "acking" /\ rea' = [rea EXCEPT ![r] = Lookup(rea[r], "settling")]
        /\ UNCHANGED <<queue, processing, claims, index, marker, dlq, done, con>>
    BY <1>13 DEF ReaperLookup
  <2>2. Owes(rea[r])
    BY <2>1 DEF Owes
  <2>. QED
    BY <1>1, <1>2, <1>11, <2>1, <2>2
<1>14. CASE ReaperCrash(r)
  BY <1>1, <1>2, <1>14, FreeSlot DEF ReaperCrash
\* The slot publishes, and owes a settlement.
<1>15. CASE Redeliver(r) \/ DeadLetter(r)
  <2> DEFINE s == [rea[r] EXCEPT !.pc = "acking", !.y = First]
  <2>1. s \in Slot(ReaperPCs) /\ Known(s)
    BY <1>0, <1>15, FreeSlot DEF Redeliver, DeadLetter, Slot, ReaperPCs, Known
  <2>2. rea' = [rea EXCEPT ![r] = s] /\ UNCHANGED <<processing, claims, index, marker, done, con>>
    BY <1>0, <1>15 DEF Redeliver, DeadLetter
  <2>. HIDE DEF s
  <2>3. /\ \A d \in Consumers : Known(con[d])'
        /\ \A q \in Reapers : Known(rea[q])'
        /\ Owing' \subseteq Owing \cup {<<"rea", r>>}
    BY <2>1, <2>2, ReaperGoes
  <2>4. CASE Redeliver(r)
    <3>1. PICK t \in Stamps : Push([retries |-> rea[r].y.retries + 1, stamp |-> t])
      BY <2>4 DEF Redeliver
    <3>2. rea[r].y.retries \in Nat
      BY <1>0 DEF Payload, First
    <3>3. rea[r].y.retries + 1 \in 1..MaxReclaim
      BY <2>4, <3>2, RedisAssumption DEF Redeliver, Exhausted
    <3>4. [retries |-> rea[r].y.retries + 1, stamp |-> t] \in Payload
      BY <3>3 DEF Payload
    <3>5. queue' \in [Payload -> Nat]
      BY <1>0, <3>1, <3>4 DEF Push, TypeOK
    <3>6. UNCHANGED dlq
      BY <2>4 DEF Redeliver
    <3>7. TypeOK'
      BY <1>0, <2>1, <2>2, <3>5, <3>6, ReaperGoes DEF TypeOK
    <3>8. PICK p : p \notin Copies /\ Copies' = Copies \cup {p}
      BY <1>0, <2>2, <3>1, <3>4, CopiesGrow
    <3>. QED
      BY <2>2, <2>3, <3>6, <3>7, <3>8, CopiesKept
  <2>5. CASE DeadLetter(r)
    <3>1. dlq' = TRUE /\ UNCHANGED queue
      BY <2>5 DEF DeadLetter
    <3>2. TypeOK'
      BY <1>0, <2>1, <2>2, <3>1, ReaperGoes DEF TypeOK
    <3>. QED
      BY <2>2, <2>3, <3>1, <3>2, CopiesKept
  <2>. QED
    BY <1>15, <2>4, <2>5
<1>16. CASE ReaperSettle(r) \/ ReaperSettleFails(r)
  <2>1. rea' = [rea EXCEPT ![r] = Free] /\ UNCHANGED <<queue, marker, dlq, done, con>>
        /\ rea[r].pc = "settling"
    BY <1>16 DEF ReaperSettle, ReaperSettleFails
  <2>2. rea[r].id \in ClaimIds /\ Owes(rea[r])
    BY <1>0, <2>1 DEF Slot, Known, Owes
  <2>3. /\ \E p : Copies' = Copies \ {p}
        /\ processing' \in [Payload -> Nat]
        /\ claims' \in [ClaimIds -> Payload \cup {None}]
        /\ index' \subseteq ClaimIds
    BY <1>0, <1>16, <2>1, <2>2, SettlementRemovesOne DEF ReaperSettle, ReaperSettleFails
  <2>4. TypeOK'
    BY <1>0, <2>1, <2>3, FreeSlot, ReaperGoes DEF TypeOK
  <2>5. <<"rea", r>> \in Owing /\ Owing' = Owing \ {<<"rea", r>>}
    BY <2>1, <2>2, FreeSlot, ReaperGoes
  <2>. QED
    BY <2>1, <2>3, <2>4, <2>5, FreeSlot, ReaperGoes, CopiesKept
<1>. QED
  BY <1>3, <1>4, <1>5, <1>6, <1>7, <1>8, <1>9, <1>10, <1>12, <1>13, <1>14, <1>15, <1>16
     DEF Reconcile, Reclaim, ReaperFault

LEMMA DelayPreserves ==
    ASSUME RedisInv, Delay
    PROVE  RedisInv'
<1>1. /\ TypeOK
      /\ rea \in [Reapers -> Slot(ReaperPCs)] /\ marker \in [Payload -> 0..2 \cup {None}]
  BY DEF RedisInv, TypeOK
<1>2. /\ UNCHANGED <<queue, processing, claims, index, dlq, done, con>>
      /\ rea' \in [Reapers -> Slot(ReaperPCs)]
      /\ \A r \in Reapers : rea'[r].pc = rea[r].pc /\ rea'[r].id = rea[r].id
  BY <1>1 DEF Delay, Slot
<1>3. marker' \in [Payload -> 0..2 \cup {None}]
  BY <1>1 DEF Delay
<1>4. TypeOK'
  BY <1>1, <1>2, <1>3 DEF TypeOK
<1>5. Copies' = Copies
  BY <1>2, CopiesStay DEF Entries
<1>6. Owing' = Owing
  <2>1. \A r \in Reapers : Owes(rea[r])' <=> Owes(rea[r])
    BY <1>2 DEF Owes
  <2>2. \A c \in Consumers : Owes(con[c])' <=> Owes(con[c])
    BY <1>2 DEF Owes
  <2>. QED
    BY <2>1, <2>2 DEF Owing
<1>7. /\ \A c \in Consumers : Known(con[c])'
      /\ \A r \in Reapers : Known(rea[r])'
  BY <1>2 DEF RedisInv, Known
<1>. QED
  BY <1>2, <1>4, <1>5, <1>6, <1>7, CopiesKept

LEMMA RedisInductive == Spec => []RedisInv
<1>1. Init => RedisInv
  <2> SUFFICES ASSUME Init PROVE RedisInv
    OBVIOUS
  <2>1. TypeOK
    BY FreeSlot DEF Init, TypeOK
  <2>2. /\ \A c \in Consumers : Known(con[c]) /\ ~Owes(con[c])
        /\ \A r \in Reapers : Known(rea[r]) /\ ~Owes(rea[r])
    BY FreeSlot DEF Init
  <2>3. Owing = {}
    BY <2>2 DEF Owing
  <2>4. Copies = {<<First, 1>>}
    <3>1. First \in Payload /\ Entries(First) = 1 /\ \A y \in Payload \ {First} : Entries(y) = 0
      BY FreeSlot DEF Init, Entries
    <3>. QED
      BY <3>1, CopiesAre
  <2>5. Enough(Copies, Owing)
    <3>1. IsFiniteSet({}) /\ Cardinality({}) = 0
      BY FS_EmptySet
    <3>2. IsFiniteSet({<<First, 1>>}) /\ Cardinality({<<First, 1>>}) = 1
      BY FS_Singleton
    <3>. QED
      BY <2>3, <2>4, <3>1, <3>2 DEF Enough
  <2>. QED
    BY <2>1, <2>2, <2>5 DEF RedisInv
<1>2. RedisInv /\ [Next]_vars => RedisInv'
  <2>1. ASSUME RedisInv, UNCHANGED vars PROVE RedisInv'
    BY <2>1 DEF vars, RedisInv, TypeOK, Known, Enough, Copies, Entries, Owing, Owes
  <2>. QED
    BY <2>1, ConsumerPreserves, ReaperPreserves, DelayPreserves DEF Next
<1>. QED
  BY <1>1, <1>2, PTL DEF Spec

\* Whatever command fails and whoever dies, the lists, the claims, their index,
\* the markers and every slot hold values of their kind.
THEOREM RedisTypeCorrect == Spec => []TypeOK
<1>1. RedisInv => TypeOK
  BY DEF RedisInv
<1>. QED
  BY <1>1, RedisInductive, PTL

\* Until a consumer has finished the message or it is dead-lettered, a copy is
\* on the queue or the processing list, for any number of consumers and reapers
\* that settle one another's claims.
THEOREM MessageIsKept == Spec => []NoLoss
<1>1. RedisInv => NoLoss
  BY EnoughIsSome DEF RedisInv, NoLoss
<1>. QED
  BY <1>1, RedisInductive, PTL
=============================================================================
