--------------------------- MODULE Transports_proofs ---------------------------
(*****************************************************************************)
(* Theorems about the values that all transports bring (PropertyFreshness),  *)
(* and the types of the local transports and the values side by side         *)
(* (MCTransports).                                                           *)
(*****************************************************************************)
EXTENDS MCTransports, LocalMqtt_proofs, Ble_proofs, WellFoundedInduction

-------------------------------------------------------------------------------
(* Runs of steps: induction on their length, without an operator parameter.      *)

\* A set of naturals has a least one.
LEMMA LeastOf ==
  ASSUME NEW T, T \subseteq Nat, NEW n \in T
  PROVE  \E m \in T : \A k \in 0..(m - 1) : k \notin T
<1> DEFINE R == {ss \in Nat \X Nat : ss[1] < ss[2]}
<1>1. IsWellFoundedOn(R, Nat)
  <2>1. OpToRel(<, Nat) = R
    BY DEF OpToRel
  <2> QED BY <2>1, NatLessThanWellFounded
<1>2. \A k \in Nat : \A m \in Nat : k < m => <<k, m>> \in R
  OBVIOUS
<1> HIDE DEF R
<1>3. \E m \in T : \A k \in T : ~(<<k, m>> \in R)
  BY <1>1, WFMin
<1>4. \A m \in Nat : \A k \in 0..(m - 1) : k \in Nat /\ k < m
  OBVIOUS
<1> QED BY <1>2, <1>3, <1>4

IsRun(g, S, s0, n, step) ==
  g \in [0..n -> S] /\ g[0] = s0 /\ \A i \in 1..n : g[i] = step[<<g[i - 1], i>>]

\* A run of n steps exists.
LEMMA RunExists ==
  ASSUME NEW S, NEW s0 \in S, NEW n \in Nat, NEW step \in [S \X (1..n) -> S]
  PROVE  \E g : IsRun(g, S, s0, n, step)
<1> DEFINE Runs(m) == {g \in [0..m -> S] : g[0] = s0 /\ \A i \in 1..m : g[i] = step[<<g[i - 1], i>>]}
           bad == {m \in 0..n : Runs(m) = {}}
<1>1. bad = {}
  <2> SUFFICES ASSUME NEW b \in bad PROVE FALSE
    OBVIOUS
  <2>1. PICK m \in bad : \A k \in 0..(m - 1) : k \notin bad
    <3>1. bad \subseteq Nat
      OBVIOUS
    <3> HIDE DEF bad
    <3> QED BY <3>1, LeastOf
  <2>2. m \in 0..n /\ Runs(m) = {}
    OBVIOUS
  <2>3. m # 0
    <3>1. [i \in 0..0 |-> s0] \in Runs(0)
      OBVIOUS
    <3> QED BY <2>2, <3>1
  <2>4. m - 1 \in 0..n /\ m - 1 \in 0..(m - 1) /\ m \in 1..n
    BY <2>2, <2>3
  <2>5. Runs(m - 1) # {}
    BY <2>1, <2>4
  <2>6. PICK g \in [0..(m - 1) -> S] :
           g[0] = s0 /\ \A i \in 1..(m - 1) : g[i] = step[<<g[i - 1], i>>]
    BY <2>5
  <2> DEFINE h == [i \in 0..m |-> IF i = m THEN step[<<g[m - 1], m>>] ELSE g[i]]
  <2>7. h \in [0..m -> S]
    BY <2>4, <2>6
  <2>8. h[0] = s0
    BY <2>4, <2>6
  <2>9. ASSUME NEW i \in 1..m PROVE h[i] = step[<<h[i - 1], i>>]
    <3>1. i \in 0..m /\ i - 1 \in 0..m /\ i - 1 # m /\ h[i - 1] = g[i - 1]
      BY <2>4
    <3>2. CASE i = m
      BY <3>1, <3>2
    <3>3. CASE i # m
      <4>1. i \in 1..(m - 1)
        BY <2>4, <3>3
      <4> QED BY <2>6, <3>1, <3>3, <4>1
    <3> QED BY <3>2, <3>3
  <2> HIDE DEF h
  <2> QED BY <2>2, <2>7, <2>8, <2>9
<1>2. n \in 0..n
  OBVIOUS
<1>3. Runs(n) # {}
  BY <1>1, <1>2
<1> QED BY <1>3 DEF IsRun

\* What each step of a run keeps holds all along it.
LEMMA RunStays ==
  ASSUME NEW n \in Nat, NEW g, NEW good, g[0] \in good[0],
         \A i \in 1..n : g[i - 1] \in good[i - 1] => g[i] \in good[i]
  PROVE  \A i \in 0..n : g[i] \in good[i]
<1> DEFINE bad == {m \in 0..n : g[m] \notin good[m]}
<1> SUFFICES ASSUME NEW b \in bad PROVE FALSE
  OBVIOUS
<1>1. PICK m \in bad : \A k \in 0..(m - 1) : k \notin bad
  <2>1. bad \subseteq Nat
    OBVIOUS
  <2> HIDE DEF bad
  <2> QED BY <2>1, LeastOf
<1>2. m \in 0..n /\ g[m] \notin good[m] 
  OBVIOUS
<1>3. m # 0 
  BY <1>2
<1>4. m - 1 \in 0..n /\ m - 1 \in 0..(m - 1) /\ m \in 1..n
  BY <1>2, <1>3
<1>5. g[m - 1] \in good[m - 1]
  BY <1>1, <1>4
<1> QED BY <1>2, <1>4, <1>5

-------------------------------------------------------------------------------
(* Boards.                                                                       *)

OneAtMost(S) == {{}} \cup {{x} : x \in S}
Values == PropertyValues \cup {Blank}
CanonicalEntries == [value : PropertyValues, left : 1..Window]
Boards == [data : Payloads, prov : [LiveFields -> OneAtMost(Observations)],
           canon : [CanonicalFields -> OneAtMost(CanonicalEntries)], write : Payloads]

\* What is laid over a field by every merge that takes place.
Laid(b, f) == IF b.write[f] # Blank THEN b.write[f] ELSE CanonicalValues(b.canon)[f]

Delta(b, update) == [f \in Fields |-> IF update[f] = b.data[f] THEN Blank ELSE update[f]]

LEMMA CanonicalValuesType ==
  ASSUME NEW canon \in [CanonicalFields -> OneAtMost(CanonicalEntries)]
  PROVE  CanonicalValues(canon) \in Payloads
<1>1. ASSUME NEW f \in Fields, f \in CanonicalFields, canon[f] # {}
      PROVE  (CHOOSE c \in canon[f] : TRUE).value \in PropertyValues
  <2>1. canon[f] \in OneAtMost(CanonicalEntries)
    BY <1>1
  <2>2. PICK c \in CanonicalEntries : canon[f] = {c}
    BY <1>1, <2>1 DEF OneAtMost
  <2>3. (CHOOSE d \in canon[f] : TRUE) = c
    BY <2>2
  <2> QED BY <2>3 DEF CanonicalEntries
<1>2. CanonicalValues(canon) =
        [f \in Fields |-> IF f \in CanonicalFields /\ canon[f] # {}
                          THEN (CHOOSE c \in canon[f] : TRUE).value ELSE Blank]
  BY DEF CanonicalValues
<1>3. \A f \in Fields : (IF f \in CanonicalFields /\ canon[f] # {}
                         THEN (CHOOSE c \in canon[f] : TRUE).value ELSE Blank) \in PropertyValues \cup {Blank}
  BY <1>1
<1> QED BY <1>2, <1>3 DEF Payloads

LEMMA BoardFacts ==
  ASSUME NEW b \in Boards
  PROVE  /\ b = [data |-> b.data, prov |-> b.prov, canon |-> b.canon, write |-> b.write]
         /\ b.data \in Payloads /\ b.prov \in [LiveFields -> OneAtMost(Observations)]
         /\ b.canon \in [CanonicalFields -> OneAtMost(CanonicalEntries)] /\ b.write \in Payloads
         /\ CanonicalValues(b.canon) \in Payloads
BY CanonicalValuesType DEF Boards

LEMMA IsBoard ==
  ASSUME NEW data \in Payloads, NEW prov \in [LiveFields -> OneAtMost(Observations)],
         NEW canon \in [CanonicalFields -> OneAtMost(CanonicalEntries)], NEW write \in Payloads
  PROVE  [data |-> data, prov |-> prov, canon |-> canon, write |-> write] \in Boards
BY DEF Boards

LEMMA OverFacts ==
  ASSUME NEW base \in Payloads, NEW update \in Payloads
  PROVE  /\ Over(base, update) \in Payloads
         /\ \A f \in Fields : Over(base, update)[f] = IF update[f] = Blank THEN base[f] ELSE update[f]
BY DEF Over, Payloads

LEMMA TakenFacts ==
  ASSUME NEW b \in Boards, NEW update \in Payloads, NEW o, NEW f \in Fields
  PROVE  /\ f \in Taken(b, update, o) <=>
              update[f] # Blank /\ (f \in LiveFields => ~KeepsCurrent(b.data[f], b.prov[f], o))
         /\ update[f] # Blank /\ b.data[f] = Blank => f \in Taken(b, update, o)
BY DEF Taken, KeepsCurrent

\* What a merge into b makes of it, field by field.
IsMerge(b, update, o, r) ==
  /\ r \in Boards /\ r.write = b.write
  /\ \A f \in Fields :
       r.data[f] = IF Laid(r, f) # Blank THEN Laid(r, f)
                   ELSE IF f \in Taken(b, update, o) THEN update[f] ELSE b.data[f]
  /\ \A f \in LiveFields : r.prov[f] = IF f \in Taken(b, update, o) THEN {o} ELSE b.prov[f]

LEMMA MergedFacts ==
  ASSUME NEW b \in Boards, NEW update \in Payloads, NEW o \in Observations,
         NEW keys \in SUBSET CanonicalFields
  PROVE  /\ IsMerge(b, update, o, Merged(b, update, o, keys))
         /\ keys = {} => Merged(b, update, o, keys).canon = b.canon
<1> DEFINE taken == Taken(b, update, o)
           accepted == [f \in Fields |-> IF f \in taken THEN update[f] ELSE b.data[f]]
           confirmed == {f \in keys : /\ update[f] # Blank /\ accepted[f] = update[f]
                                      /\ o.src # "http" /\ ~Stale(o)}
           canon == [f \in CanonicalFields |->
                       IF f \in confirmed THEN {[value |-> update[f], left |-> Window]}
                       ELSE b.canon[f]]
           data == Over(Over(accepted, CanonicalValues(canon)), b.write)
           prov == [f \in LiveFields |-> IF f \in taken THEN {o} ELSE b.prov[f]]
           m == Merged(b, update, o, keys)
<1>1. m = [data |-> data, prov |-> prov, canon |-> canon, write |-> b.write]
  BY DEF Merged
<1> HIDE DEF m, taken
<1>0. /\ b.data \in Payloads /\ b.prov \in [LiveFields -> OneAtMost(Observations)]
      /\ b.canon \in [CanonicalFields -> OneAtMost(CanonicalEntries)] /\ b.write \in Payloads
  BY BoardFacts
<1>2. accepted \in Payloads
  BY <1>0 DEF Payloads
<1>3. prov \in [LiveFields -> OneAtMost(Observations)]
  <2>1. {o} \in OneAtMost(Observations)
    BY DEF OneAtMost
  <2> QED BY <1>0, <2>1
<1>4. canon \in [CanonicalFields -> OneAtMost(CanonicalEntries)]
  <2>1. ASSUME NEW f \in CanonicalFields, f \in confirmed
        PROVE  {[value |-> update[f], left |-> Window]} \in OneAtMost(CanonicalEntries)
    <3>1. update[f] \in PropertyValues
      BY <2>1, FreshnessAssumption DEF Payloads, Fields
    <3>2. [value |-> update[f], left |-> Window] \in CanonicalEntries
      BY <3>1, FreshnessAssumption DEF CanonicalEntries
    <3> QED BY <3>2 DEF OneAtMost
  <2> HIDE DEF confirmed
  <2> QED BY <1>0, <2>1
<1>5. keys = {} => canon = b.canon
  <2> SUFFICES ASSUME keys = {} PROVE canon = b.canon
    OBVIOUS
  <2>1. confirmed = {}
    OBVIOUS
  <2> HIDE DEF confirmed
  <2> QED BY <1>0, <2>1
<1>6. CanonicalValues(canon) \in Payloads
  BY <1>4, CanonicalValuesType
<1> HIDE DEF canon, prov
<1>7. /\ Over(accepted, CanonicalValues(canon)) \in Payloads
      /\ \A f \in Fields : Over(accepted, CanonicalValues(canon))[f] =
           IF CanonicalValues(canon)[f] = Blank THEN accepted[f] ELSE CanonicalValues(canon)[f]
  BY <1>2, <1>6, OverFacts
<1>8. /\ data \in Payloads
      /\ \A f \in Fields : data[f] =
           IF b.write[f] = Blank THEN Over(accepted, CanonicalValues(canon))[f] ELSE b.write[f]
  BY <1>0, <1>7, OverFacts
<1>9. \A f \in Fields : accepted[f] = IF f \in taken THEN update[f] ELSE b.data[f]
  OBVIOUS
<1> HIDE DEF data, accepted
<1>10. m \in Boards
  BY <1>0, <1>1, <1>3, <1>4, <1>8, IsBoard
<1>11. m.write = b.write /\ m.canon = canon /\ m.data = data /\ m.prov = prov
  BY <1>1
<1>12. \A f \in Fields : m.data[f] = IF Laid(m, f) # Blank THEN Laid(m, f)
                                     ELSE IF f \in taken THEN update[f] ELSE b.data[f]
  BY <1>7, <1>8, <1>9, <1>11 DEF Laid
<1>13. \A f \in LiveFields : m.prov[f] = IF f \in taken THEN {o} ELSE b.prov[f]
  BY <1>11 DEF prov
<1>14. IsMerge(b, update, o, m)
  BY <1>10, <1>11, <1>12, <1>13 DEF IsMerge, taken
<1> QED BY <1>5, <1>11, <1>14 DEF m

-------------------------------------------------------------------------------
(* Merges of what differs, and what is published.                                *)

LEMMA DeltaFacts ==
  ASSUME NEW b \in Boards, NEW update \in Payloads
  PROVE  /\ Delta(b, update) \in Payloads
         /\ \A f \in Fields : Delta(b, update)[f] = IF update[f] = b.data[f] THEN Blank ELSE update[f]
BY BoardFacts DEF Delta, Payloads

LEMMA NothingType == Nothing \in Payloads /\ \A f \in Fields : Nothing[f] = Blank
BY DEF Nothing, Payloads

LEMMA PartialCases ==
  ASSUME NEW b \in Boards, NEW update \in Payloads, NEW o \in Observations
  PROVE  \/ /\ Delta(b, update) = Nothing
            /\ MergedPartial(b, update, o) = b
         \/ MergedPartial(b, update, o) = Merged(b, Delta(b, update), o, {})
BY DEF MergedPartial, Delta

\* A merge without canonical keys, field by field.
LEMMA PlainFacts ==
  ASSUME NEW b \in Boards, NEW update \in Payloads, NEW o \in Observations
  PROVE  /\ Merged(b, update, o, {}) \in Boards
         /\ Merged(b, update, o, {}).write = b.write
         /\ Merged(b, update, o, {}).canon = b.canon
         /\ \A f \in Fields :
              Merged(b, update, o, {}).data[f] =
                IF Laid(b, f) # Blank THEN Laid(b, f)
                ELSE IF f \in Taken(b, update, o) THEN update[f] ELSE b.data[f]
         /\ \A f \in LiveFields :
              Merged(b, update, o, {}).prov[f] = IF f \in Taken(b, update, o) THEN {o} ELSE b.prov[f]
<1> DEFINE m == Merged(b, update, o, {})
<1>1. ASSUME NEW keys \in SUBSET CanonicalFields, keys = {}
      PROVE  IsMerge(b, update, o, Merged(b, update, o, keys)) /\ Merged(b, update, o, keys).canon = b.canon
  BY <1>1, MergedFacts
<1>2. IsMerge(b, update, o, m) /\ m.canon = b.canon
  BY <1>1
<1> HIDE DEF m
<1>3. \A f \in Fields : Laid(m, f) = Laid(b, f)
  BY <1>2 DEF Laid, IsMerge
<1> QED BY <1>2, <1>3 DEF IsMerge, m

\* What a merge of differences into b leaves, field by field.
PartlyMerged(b, update, o, r) ==
  /\ r \in Boards /\ r.write = b.write /\ r.canon = b.canon
  /\ \A f \in Fields :
       /\ r.data[f] \in {b.data[f], update[f], Laid(b, f)}
       /\ r.data[f] = b.data[f] \/ r.data[f] # Blank
       /\ r.data[f] # b.data[f] /\ Laid(b, f) # Blank => r.data[f] = Laid(b, f)
       /\ update[f] # Blank => r.data[f] # Blank
       /\ update[f] = b.data[f] => r.data[f] \in {b.data[f], Laid(b, f)}
       /\ update[f] \notin {Blank, b.data[f]} /\ Laid(b, f) # Blank => r.data[f] = Laid(b, f)
       /\ update[f] \notin {Blank, b.data[f]} /\ Laid(b, f) = Blank /\ (f \in LiveFields => ~KeepsCurrent(b.data[f], b.prov[f], o)) => r.data[f] = update[f]
  /\ \A f \in LiveFields :
       \/ r.prov[f] = b.prov[f]
       \/ r.prov[f] = {o} /\ update[f] # b.data[f] /\ update[f] # Blank

LEMMA PartialFacts ==
  ASSUME NEW b \in Boards, NEW update \in Payloads, NEW o \in Observations, NEW r,
         r = MergedPartial(b, update, o)
  PROVE  PartlyMerged(b, update, o, r)
<1> DEFINE delta == Delta(b, update)
<1>1. /\ delta \in Payloads
      /\ \A f \in Fields : delta[f] = IF update[f] = b.data[f] THEN Blank ELSE update[f]
  BY DeltaFacts
<1>2. r = b \/ r = Merged(b, delta, o, {})
  BY PartialCases
<1>3. delta = Nothing => \A f \in Fields : update[f] = b.data[f] \/ update[f] = Blank
  BY <1>1, NothingType
<1>4. r = b => delta = Nothing \/ r = Merged(b, delta, o, {})
  BY PartialCases
<1> HIDE DEF delta
<1>5. CASE r = b /\ delta = Nothing
  BY <1>3, <1>5 DEF PartlyMerged
<1>6. CASE r = Merged(b, delta, o, {})
  <2>1. /\ r \in Boards /\ r.write = b.write /\ r.canon = b.canon
        /\ \A f \in Fields :
             r.data[f] = IF Laid(b, f) # Blank THEN Laid(b, f)
                         ELSE IF f \in Taken(b, delta, o) THEN delta[f] ELSE b.data[f]
        /\ \A f \in LiveFields :
             r.prov[f] = IF f \in Taken(b, delta, o) THEN {o} ELSE b.prov[f]
    BY <1>1, <1>6, PlainFacts
  <2>2. \A f \in Fields : f \in Taken(b, delta, o) => delta[f] # Blank
    BY <1>1, TakenFacts
  <2>3. \A f \in Fields : delta[f] # Blank /\ b.data[f] = Blank => f \in Taken(b, delta, o)
    BY <1>1, TakenFacts
  <2>4. LiveFields \subseteq Fields
    BY DEF Fields
  <2>5. \A f \in Fields : delta[f] # Blank /\ (f \in LiveFields => ~KeepsCurrent(b.data[f], b.prov[f], o)) => f \in Taken(b, delta, o)
    BY <1>1, TakenFacts
  <2> QED BY <1>1, <2>1, <2>2, <2>3, <2>4, <2>5 DEF PartlyMerged
<1> QED BY <1>2, <1>4, <1>5, <1>6

LEMMA PublishedFacts ==
  ASSUME shown \in Payloads, NEW b \in Boards, NEW o \in Observations, NEW r, r = Published(b, o)
  PROVE  /\ r \in Boards /\ r.write = b.write /\ r.canon = b.canon
         /\ \A f \in Fields :
              /\ r.data[f] \in {shown[f], b.data[f], Laid(b, f)}
              /\ r.data[f] = shown[f] \/ r.data[f] # Blank
              /\ r.data[f] # shown[f] /\ Laid(b, f) # Blank => r.data[f] = Laid(b, f)
              /\ b.data[f] # Blank => r.data[f] # Blank
              /\ b.data[f] = shown[f] => r.data[f] \in {shown[f], Laid(b, f)}
         /\ \A f \in LiveFields :
              r.prov[f] = b.prov[f] \/ (r.prov[f] = {o} /\ b.data[f] # Blank)
<1> DEFINE c == [b EXCEPT !.data = shown]
<1>1. c = [data |-> shown, prov |-> b.prov, canon |-> b.canon, write |-> b.write]
  BY BoardFacts
<1>2. /\ c \in Boards /\ c.data = shown /\ c.prov = b.prov /\ c.canon = b.canon
      /\ c.write = b.write /\ b.data \in Payloads
  BY <1>1, BoardFacts, IsBoard
<1>3. \A f \in Fields : Laid(c, f) = Laid(b, f)
  BY <1>2 DEF Laid
<1>4. r = MergedPartial(c, b.data, o)
  BY DEF Published
<1> HIDE DEF c
<1> DEFINE u == b.data
<1>5. c \in Boards /\ u \in Payloads /\ r = MergedPartial(c, u, o)
  BY <1>2, <1>4
<1> HIDE DEF u
<1>6. PartlyMerged(c, u, o, r)
  BY <1>5, PartialFacts
<1> QED BY <1>2, <1>3, <1>6 DEF u, PartlyMerged

-------------------------------------------------------------------------------
(* The invariant: types, and what is shown wherever something else is held.      *)

\* What did not come from HTTP is shown: whatever is on record as pushed.
PushedIsShown == \A f \in LiveFields : \A p \in provenance[f] : p.src # "http" => shown[f] # Blank

\* While a cycle is under way nothing of its baseline goes away, neither from what is
\* shown nor, once it has been read, from what the cycle holds.
BaselineIsShown ==
  httpCycle.at # "idle" => \A f \in Fields : httpCycle.base[f] # Blank => shown[f] # Blank
BaselineIsHeld ==
  httpCycle.at \in {"build", "system"} =>
    \A f \in Fields : httpCycle.base[f] # Blank => httpCycle.held[f] # Blank

Cycles == [at : {"idle", "fetch", "build", "system"}, retried : BOOLEAN,
           base : Payloads, held : Payloads, http : Payloads]
LastMessages == OneAtMost([src : Pushers \ {"ble"}, age : Ages])
Writes == [left : 0..OverrideTTL, fields : Payloads]

PfInv ==
  /\ shown \in Payloads
  /\ provenance \in [LiveFields -> OneAtMost(Observations)]
  /\ canonical \in [CanonicalFields -> OneAtMost(CanonicalEntries)]
  /\ written \in Writes
  /\ mqttLast \in LastMessages
  /\ httpCycle \in Cycles
  /\ PushedIsShown
  /\ BaselineIsShown
  /\ BaselineIsHeld

LEMMA OneAtMostFacts ==
  ASSUME NEW T, NEW S \in OneAtMost(T)
  PROVE  S \subseteq T /\ Cardinality(S) <= 1
<1>1. CASE S = {}
  BY <1>1, FS_EmptySet
<1>2. CASE S # {}
  <2>1. PICK x \in T : S = {x}
    BY <1>2 DEF OneAtMost
  <2>2. Cardinality({x}) = 1
    BY FS_Singleton
  <2> QED BY <2>1, <2>2
<1> QED BY <1>1, <1>2

LEMMA PfInvType ==
  ASSUME PfInv
  PROVE  PfTypeOK
<1>1. \A f \in LiveFields : provenance[f] \subseteq Observations /\ Cardinality(provenance[f]) <= 1
  BY OneAtMostFacts DEF PfInv
<1>2. \A f \in CanonicalFields :
        canonical[f] \subseteq CanonicalEntries /\ Cardinality(canonical[f]) <= 1
  BY OneAtMostFacts DEF PfInv
<1>3. mqttLast \subseteq [src : Pushers \ {"ble"}, age : Ages] /\ Cardinality(mqttLast) <= 1
  BY OneAtMostFacts DEF PfInv, LastMessages
<1> QED BY <1>1, <1>2, <1>3 DEF PfInv, PfTypeOK, CanonicalEntries, Cycles, Writes

LEMMA PfInitInv == PfInit => PfInv
<1> SUFFICES ASSUME PfInit PROVE PfInv
  OBVIOUS
<1>1. Nothing \in Payloads
  BY NothingType
<1>2. NoCycle \in Cycles /\ NoCycle.at = "idle"
  BY <1>1 DEF NoCycle, Cycles
<1>3. NoWrite \in Writes
  BY <1>1, FreshnessAssumption DEF NoWrite, Writes
<1>4. /\ provenance \in [LiveFields -> OneAtMost(Observations)]
      /\ canonical \in [CanonicalFields -> OneAtMost(CanonicalEntries)]
      /\ mqttLast \in LastMessages
  BY DEF PfInit, OneAtMost, LastMessages
<1>5. PushedIsShown
  BY DEF PfInit, PushedIsShown
<1> QED BY <1>2, <1>3, <1>4, <1>5 DEF PfInit, PfInv, BaselineIsShown, BaselineIsHeld

LEMMA BoardType ==
  ASSUME PfInv
  PROVE  /\ Board \in Boards
         /\ Board.data = shown /\ Board.prov = provenance
         /\ Board.canon = canonical /\ Board.write = written.fields
BY DEF PfInv, Board, Boards, Writes

LEMMA WithData ==
  ASSUME NEW b \in Boards, NEW d \in Payloads, NEW c, c = [b EXCEPT !.data = d]
  PROVE  /\ c \in Boards /\ c.data = d /\ c.prov = b.prov /\ c.canon = b.canon /\ c.write = b.write
         /\ \A f \in Fields : Laid(c, f) = Laid(b, f)
<1>1. c = [data |-> d, prov |-> b.prov, canon |-> b.canon, write |-> b.write]
  BY BoardFacts
<1>2. /\ c \in Boards /\ c.data = d /\ c.prov = b.prov /\ c.canon = b.canon /\ c.write = b.write
  BY <1>1, BoardFacts, IsBoard
<1> QED BY <1>2 DEF Laid

LEMMA ObservationType ==
  ASSUME NEW src \in Pushers \cup {"http", "cloud_mqtt"}, NEW age \in Ages
  PROVE  /\ Observation(src, age) \in Observations
         /\ Observation(src, age).src = src /\ Observation(src, age).age = age
BY FreshnessAssumption DEF Observation, Observations

LEMMA EntryLabelType ==
  ASSUME PfInv, NEW src \in {"http", "cloud_mqtt"}
  PROVE  EntryLabel(src) \in Observations
<1>1. CASE mqttLast = {}
  <2>1. {} \in Ages
    BY DEF Ages
  <2> QED BY <1>1, <2>1, ObservationType DEF EntryLabel
<1>2. CASE mqttLast # {}
  <2>1. PICK m \in [src : Pushers \ {"ble"}, age : Ages] : mqttLast = {m}
    BY <1>2 DEF PfInv, LastMessages, OneAtMost
  <2>2. (CHOOSE x \in mqttLast : TRUE) = m
    BY <2>1
  <2>3. EntryLabel(src) = Observation(m.src, m.age)
    BY <1>2, <2>2 DEF EntryLabel
  <2> QED BY <2>1, <2>3, ObservationType
<1> QED BY <1>1, <1>2

\* Setting the device to a published board keeps the invariant.
LEMMA PublishKeeps ==
  ASSUME PfInv, NEW b \in Boards, NEW o \in Observations, Set(Published(b, o)),
         \A f \in LiveFields : \A p \in b.prov[f] : p.src # "http" => b.data[f] # Blank \/ shown[f] # Blank,
         written' \in Writes, mqttLast' \in LastMessages, httpCycle' = httpCycle
  PROVE  PfInv'
<1>0. LiveFields \subseteq Fields
  BY DEF Fields
<1> DEFINE r == Published(b, o)
<1>1. /\ r \in Boards
      /\ \A f \in Fields :
           /\ r.data[f] = shown[f] \/ r.data[f] # Blank
           /\ b.data[f] # Blank => r.data[f] # Blank
      /\ \A f \in LiveFields :
           r.prov[f] = b.prov[f] \/ (r.prov[f] = {o} /\ b.data[f] # Blank)
  BY PublishedFacts DEF PfInv
<1>2. shown' = r.data /\ provenance' = r.prov /\ canonical' = r.canon
  BY DEF Set
<1> HIDE DEF r
<1>3. /\ shown' \in Payloads
      /\ provenance' \in [LiveFields -> OneAtMost(Observations)]
      /\ canonical' \in [CanonicalFields -> OneAtMost(CanonicalEntries)]
  BY <1>1, <1>2, BoardFacts
<1>4. PushedIsShown'
  <2> SUFFICES ASSUME NEW f \in LiveFields, NEW p \in provenance'[f], p.src # "http"
               PROVE  shown'[f] # Blank
    BY DEF PushedIsShown
  <2> QED BY <1>0, <1>1, <1>2
<1>5. BaselineIsShown'
  BY <1>1, <1>2 DEF PfInv, BaselineIsShown
<1>6. BaselineIsHeld'
  BY DEF PfInv, BaselineIsHeld
<1> QED BY <1>3, <1>4, <1>5, <1>6 DEF PfInv

LEMMA PayloadsOnType ==
  ASSUME NEW F
  PROVE  PayloadsOn(F) \subseteq Payloads
<1> SUFFICES ASSUME NEW p \in [F -> PropertyValues \cup {Blank}]
             PROVE  [f \in Fields |-> IF f \in F THEN p[f] ELSE Blank] \in Payloads
  BY DEF PayloadsOn
<1> QED BY DEF Payloads

LEMMA MergeBacked ==
  ASSUME PfInv, NEW update \in Payloads, NEW o \in Observations, NEW keys \in SUBSET CanonicalFields,
         NEW b, b = Merged(Board, update, o, keys)
  PROVE  /\ b \in Boards
         /\ \A f \in LiveFields : \A p \in b.prov[f] : p.src # "http" => b.data[f] # Blank \/ shown[f] # Blank
<1>1. /\ Board \in Boards /\ Board.data = shown /\ Board.prov = provenance
  BY BoardType
<1> DEFINE c == Board
<1>2. c \in Boards /\ b = Merged(c, update, o, keys)
  BY <1>1
<1>3. c.data = shown /\ c.prov = provenance
  BY <1>1
<1> HIDE DEF c
<1>4. IsMerge(c, update, o, b)
  BY <1>2, MergedFacts
<1>5. \A f \in Fields : f \in Taken(c, update, o) => update[f] # Blank
  BY <1>2, TakenFacts
<1>6. \A f \in LiveFields : f \in Fields
  BY DEF Fields
<1>7. \A f \in LiveFields : \A p \in provenance[f] : p.src # "http" => shown[f] # Blank
  BY DEF PfInv, PushedIsShown
<1> QED BY <1>3, <1>4, <1>5, <1>6, <1>7 DEF IsMerge

LEMMA PfPushInv ==
  ASSUME PfInv, NEW update \in Payloads, NEW keys \in SUBSET CanonicalFields
  PROVE  /\ \A age \in 0..Window + 1 : "ble" \in Pushers /\ BlePush(update, age, keys) => PfInv'
         /\ \A src \in Pushers \ {"ble"}, age \in Ages : MqttPush(src, update, age, keys) => PfInv'
         /\ HttpRead(update) => PfInv'
<1>1. ASSUME NEW age \in 0..Window + 1, "ble" \in Pushers, BlePush(update, age, keys) PROVE PfInv'
  <2> DEFINE o == Observation("ble", {age})
             b == Merged(Board, update, o, keys)
  <2>1. o \in Observations
    BY <1>1, ObservationType DEF Ages
  <2>2. Set(Published(b, o)) /\ UNCHANGED <<written, mqttLast, httpCycle>>
    BY <1>1 DEF BlePush
  <2> HIDE DEF o
  <2>3. /\ b \in Boards
        /\ \A f \in LiveFields : \A p \in b.prov[f] : p.src # "http" => b.data[f] # Blank \/ shown[f] # Blank
    BY <2>1, MergeBacked
  <2> HIDE DEF b
  <2> QED BY <2>1, <2>2, <2>3, PublishKeeps DEF PfInv
<1>2. ASSUME NEW src \in Pushers \ {"ble"}, NEW age \in Ages, MqttPush(src, update, age, keys)
      PROVE  PfInv'
  <2> DEFINE o == Observation(src, age)
             m == Merged(Board, update, o, keys)
             b == IF update = Nothing THEN Board ELSE m
  <2>1. o \in Observations
    BY <1>2, ObservationType
  <2>2. /\ Set(Published(b, o)) /\ UNCHANGED <<written, httpCycle>>
        /\ mqttLast' = {[src |-> src, age |-> age]}
    BY <1>2 DEF MqttPush
  <2> HIDE DEF o
  <2>3. /\ m \in Boards
        /\ \A f \in LiveFields : \A p \in m.prov[f] : p.src # "http" => m.data[f] # Blank \/ shown[f] # Blank
    BY <2>1, MergeBacked
  <2> HIDE DEF m
  <2>4. /\ b \in Boards
        /\ \A f \in LiveFields : \A p \in b.prov[f] : p.src # "http" => b.data[f] # Blank \/ shown[f] # Blank
    BY <2>3, BoardType DEF PfInv, PushedIsShown
  <2> HIDE DEF b
  <2>5. mqttLast' \in LastMessages
    BY <2>2 DEF LastMessages, OneAtMost
  <2> QED BY <2>1, <2>2, <2>4, <2>5, PublishKeeps DEF PfInv
<1>3. ASSUME HttpRead(update) PROVE PfInv'
  <2> DEFINE o == Observation("http", {})
             b == Merged(Board, update, o, {})
             p == EntryLabel("http")
  <2>1. o \in Observations
    <3>1. {} \in Ages
      BY DEF Ages
    <3> QED BY <3>1, ObservationType
  <2>2. p \in Observations
    BY EntryLabelType
  <2>3. Set(Published(b, p)) /\ UNCHANGED <<written, mqttLast, httpCycle>>
    BY <1>3 DEF HttpRead
  <2> HIDE DEF o, p
  <2>4. /\ b \in Boards
        /\ \A f \in LiveFields : \A q \in b.prov[f] : q.src # "http" => b.data[f] # Blank \/ shown[f] # Blank
    <3>1. {} \in SUBSET CanonicalFields
      OBVIOUS
    <3> QED BY <2>1, <3>1, MergeBacked
  <2> HIDE DEF b
  <2> QED BY <2>2, <2>3, <2>4, PublishKeeps DEF PfInv
<1> QED BY <1>1, <1>2, <1>3

LEMMA PfWriteInv ==
  ASSUME PfInv, NEW f, NEW v \in PropertyValues, LocalWrite(f, v)
  PROVE  PfInv'
<1> DEFINE writes == [written.fields EXCEPT ![f] = v]
           d == [shown EXCEPT ![f] = v]
           b == [Board EXCEPT !.write = writes, !.data = d]
<1>1. writes \in Payloads /\ d \in Payloads
  BY DEF PfInv, Writes, Payloads
<1>2. PICK src \in {"http", "cloud_mqtt"} : Set(Published(b, EntryLabel(src)))
  BY DEF LocalWrite
<1>3. written' = [left |-> OverrideTTL, fields |-> writes] /\ UNCHANGED <<mqttLast, httpCycle>>
  BY DEF LocalWrite
<1>5. \A e \in Fields : shown[e] # Blank => d[e] # Blank
  BY FreshnessAssumption DEF PfInv, Payloads
<1> HIDE DEF writes, d
<1>4. b = [data |-> d, prov |-> provenance, canon |-> canonical, write |-> writes]
  <2>1. [Board EXCEPT !.write = writes] =
          [data |-> shown, prov |-> provenance, canon |-> canonical, write |-> writes]
    BY DEF Board
  <2> DEFINE c == [Board EXCEPT !.write = writes]
  <2>2. b = [c EXCEPT !.data = d]
    OBVIOUS
  <2>3. c = [data |-> shown, prov |-> provenance, canon |-> canonical, write |-> writes]
    BY <2>1
  <2> HIDE DEF c, b
  <2> QED BY <2>2, <2>3
<1>6. b \in Boards
  BY <1>1, <1>4, IsBoard DEF PfInv
<1>7. \A e \in LiveFields : \A p \in b.prov[e] : p.src # "http" => b.data[e] # Blank \/ shown[e] # Blank
  BY <1>4 DEF PfInv, PushedIsShown
<1>8. written' \in Writes
  BY <1>1, <1>3, FreshnessAssumption DEF Writes
<1> HIDE DEF b
<1>9. EntryLabel(src) \in Observations
  BY EntryLabelType
<1> DEFINE o == EntryLabel(src)
<1>10. o \in Observations /\ Set(Published(b, o))
  BY <1>2, <1>9
<1> HIDE DEF o
<1> QED BY <1>3, <1>6, <1>7, <1>8, <1>10, PublishKeeps DEF PfInv

\* The steps of the update cycle, but for its end.
LEMMA PfCycleInv ==
  ASSUME PfInv
  PROVE  /\ CycleStarts => PfInv'
         /\ \A response \in Payloads : PropertyAnswered(response) => PfInv'
         /\ PropertyFailed => PfInv'
         /\ CycleRetried => PfInv'
         /\ CycleAborted => PfInv'
<1>0. Nothing \in Payloads /\ httpCycle \in Cycles /\ shown \in Payloads
  BY NothingType DEF PfInv
<1>1. ASSUME CycleStarts PROVE PfInv'
  <2>1. httpCycle' = [at |-> "fetch", retried |-> FALSE, base |-> shown,
                      held |-> Nothing, http |-> Nothing]
    BY <1>1 DEF CycleStarts, NoCycle
  <2>2. httpCycle' \in Cycles /\ httpCycle'.at = "fetch" /\ httpCycle'.base = shown
    BY <1>0, <2>1 DEF Cycles
  <2> QED BY <1>1, <2>2 DEF CycleStarts, PfInv, PushedIsShown, BaselineIsShown, BaselineIsHeld
<1>2. ASSUME NEW response \in Payloads, PropertyAnswered(response) PROVE PfInv'
  <2>1. httpCycle' = [httpCycle EXCEPT !.at = "build", !.held = shown, !.http = response]
    BY <1>2 DEF PropertyAnswered
  <2>2. /\ httpCycle' \in Cycles /\ httpCycle'.at = "build" /\ httpCycle'.base = httpCycle.base
        /\ httpCycle'.held = shown
    BY <1>0, <1>2, <2>1 DEF Cycles
  <2> QED BY <1>2, <2>2 DEF PropertyAnswered, PfInv, PushedIsShown, BaselineIsShown, BaselineIsHeld
<1>3. ASSUME PropertyFailed PROVE PfInv'
  <2>1. httpCycle' = [httpCycle EXCEPT !.at = "system", !.held = shown]
    BY <1>3 DEF PropertyFailed
  <2>2. /\ httpCycle' \in Cycles /\ httpCycle'.at = "system" /\ httpCycle'.base = httpCycle.base
        /\ httpCycle'.held = shown
    BY <1>0, <1>3, <2>1 DEF Cycles
  <2> QED BY <1>3, <2>2 DEF PropertyFailed, PfInv, PushedIsShown, BaselineIsShown, BaselineIsHeld
<1>4. ASSUME CycleRetried PROVE PfInv'
  <2>1. httpCycle' = [httpCycle EXCEPT !.at = "fetch", !.retried = TRUE, !.held = Nothing]
    BY <1>4 DEF CycleRetried
  <2>2. httpCycle' \in Cycles /\ httpCycle'.at = "fetch" /\ httpCycle'.base = httpCycle.base
    BY <1>0, <2>1 DEF Cycles
  <2>3. httpCycle.at = "system"
    BY <1>4 DEF CycleRetried
  <2> QED BY <1>4, <2>2, <2>3
        DEF CycleRetried, PfInv, PushedIsShown, BaselineIsShown, BaselineIsHeld
<1>5. ASSUME CycleAborted PROVE PfInv'
  <2>1. httpCycle' \in Cycles /\ httpCycle'.at = "idle"
    BY <1>0, <1>5 DEF CycleAborted, NoCycle, Cycles
  <2> QED BY <1>5, <2>1 DEF CycleAborted, PfInv, PushedIsShown, BaselineIsShown, BaselineIsHeld
<1> QED BY <1>1, <1>2, <1>3, <1>4, <1>5

LEMMA PfBuiltInv ==
  ASSUME PfInv, EntryBuilt
  PROVE  PfInv'
<1> DEFINE c == [Board EXCEPT !.data = httpCycle.held]
           o == Observation("http", {})
           u == httpCycle.http
           b == Merged(c, u, o, {})
<1>1. httpCycle.held \in Payloads /\ u \in Payloads /\ httpCycle \in Cycles
  BY DEF PfInv, Cycles
<1>2. /\ c \in Boards /\ c.data = httpCycle.held /\ c.prov = provenance
  BY <1>1, BoardType, WithData
<1>3. o \in Observations /\ o.src = "http"
  <2>1. {} \in Ages
    BY DEF Ages
  <2> QED BY <2>1, ObservationType
<1>4. /\ httpCycle' = [httpCycle EXCEPT !.at = "system", !.held = b.data, !.http = Nothing]
      /\ provenance' = b.prov /\ httpCycle.at = "build"
      /\ UNCHANGED <<shown, canonical, written, mqttLast>>
  BY DEF EntryBuilt
<1> HIDE DEF c, o, u
<1>5. /\ b \in Boards
      /\ \A f \in Fields :
           b.data[f] = IF Laid(c, f) # Blank THEN Laid(c, f)
                       ELSE IF f \in Taken(c, u, o) THEN u[f] ELSE c.data[f]
      /\ \A f \in LiveFields :
           b.prov[f] = IF f \in Taken(c, u, o) THEN {o} ELSE c.prov[f]
  BY <1>1, <1>2, <1>3, PlainFacts
<1> HIDE DEF b
<1>6. b.data \in Payloads /\ b.prov \in [LiveFields -> OneAtMost(Observations)]
  BY <1>5, BoardFacts
<1>7. /\ httpCycle' \in Cycles /\ httpCycle'.at = "system"
      /\ httpCycle'.base = httpCycle.base /\ httpCycle'.held = b.data
  BY <1>1, <1>4, <1>6, NothingType DEF Cycles
<1>8. PushedIsShown'
  <2> SUFFICES ASSUME NEW f \in LiveFields, NEW p \in provenance'[f], p.src # "http"
               PROVE  shown[f] # Blank
    BY <1>4 DEF PushedIsShown
  <2>1. p \in provenance[f]
    BY <1>2, <1>3, <1>4, <1>5
  <2> QED BY <2>1 DEF PfInv, PushedIsShown
<1>9. BaselineIsHeld'
  <2>1. \A f \in Fields : f \in Taken(c, u, o) => u[f] # Blank
    BY <1>1, <1>2, TakenFacts
  <2>2. \A f \in Fields : c.data[f] # Blank => b.data[f] # Blank
    BY <1>5, <2>1
  <2>3. \A f \in Fields : httpCycle.base[f] # Blank => httpCycle.held[f] # Blank
    BY <1>4 DEF PfInv, BaselineIsHeld
  <2> QED BY <1>2, <1>7, <2>2, <2>3 DEF BaselineIsHeld
<1>10. BaselineIsShown'
  BY <1>4, <1>7 DEF PfInv, BaselineIsShown
<1> QED BY <1>4, <1>6, <1>7, <1>8, <1>9, <1>10 DEF PfInv

LEMMA PfTickInv ==
  ASSUME PfInv, PfTick
  PROVE  PfInv'
<1>1. ASSUME NEW age \in Ages PROVE Older(age) \in Ages
  <2>1. CASE age = {}
    BY <2>1 DEF Older, Ages
  <2>2. CASE age # {}
    <3>1. PICK n \in 0..Window + 1 : age = {n}
      BY <2>2 DEF Ages
    <3> DEFINE m == IF n > Window THEN n ELSE n + 1
    <3>2. Older(age) = {m}
      BY <3>1 DEF Older
    <3>3. m \in 0..Window + 1
      BY <3>1, FreshnessAssumption
    <3> HIDE DEF m
    <3> QED BY <3>2, <3>3 DEF Ages
  <2> QED BY <2>1, <2>2
<1>2. ASSUME NEW f \in LiveFields
      PROVE  /\ provenance'[f] \in OneAtMost(Observations)
             /\ \A p \in provenance'[f] : \E q \in provenance[f] : p.src = q.src
  <2>1. provenance'[f] = {[p EXCEPT !.age = Older(@), !.left = IF @ = 0 THEN 0 ELSE @ - 1] : p \in provenance[f]}
    BY <1>2 DEF PfTick
  <2>2. provenance[f] \in OneAtMost(Observations)
    BY DEF PfInv
  <2>3. CASE provenance[f] = {}
    BY <2>1, <2>3 DEF OneAtMost
  <2>4. CASE provenance[f] # {}
    <3>1. PICK p \in Observations : provenance[f] = {p}
      BY <2>2, <2>4 DEF OneAtMost
    <3> DEFINE q == [p EXCEPT !.age = Older(@), !.left = IF @ = 0 THEN 0 ELSE @ - 1]
    <3>2. provenance'[f] = {q}
      BY <2>1, <3>1
    <3> DEFINE older == Older(p.age)
               c == [p EXCEPT !.age = older]
               e == IF p.left = 0 THEN 0 ELSE p.left - 1
    <3>31. c = [src |-> p.src, age |-> older, left |-> p.left]
      BY DEF Observations
    <3>32. q = [c EXCEPT !.left = e]
      OBVIOUS
    <3>33. [c EXCEPT !.left = e] = [src |-> p.src, age |-> older, left |-> e]
      <4> HIDE DEF c, e, older, q
      <4> QED BY <3>31
    <3>3. q = [src |-> p.src, age |-> Older(p.age), left |-> IF p.left = 0 THEN 0 ELSE p.left - 1]
      BY <3>32, <3>33
    <3>4. /\ q.src = p.src /\ q.age = Older(p.age)
          /\ q.left = IF p.left = 0 THEN 0 ELSE p.left - 1
      BY <3>3
    <3>5. q \in Observations
      <4>1. Older(p.age) \in Ages
        BY <1>1 DEF Observations
      <4>2. (IF p.left = 0 THEN 0 ELSE p.left - 1) \in 0..Window
        BY FreshnessAssumption DEF Observations
      <4> QED BY <3>3, <4>1, <4>2 DEF Observations
    <3> HIDE DEF q
    <3> QED BY <3>1, <3>2, <3>4, <3>5 DEF OneAtMost
  <2> QED BY <2>3, <2>4
<1>3. provenance' \in [LiveFields -> OneAtMost(Observations)]
  <2>1. DOMAIN provenance' = LiveFields /\ provenance' = [f \in LiveFields |-> provenance'[f]]
    BY DEF PfTick
  <2> QED BY <1>2, <2>1
<1>4. ASSUME NEW f \in CanonicalFields PROVE canonical'[f] \in OneAtMost(CanonicalEntries)
  <2>1. canonical'[f] = {[c EXCEPT !.left = @ - 1] : c \in {d \in canonical[f] : d.left > 1}}
    BY <1>4 DEF PfTick
  <2>2. canonical[f] \in OneAtMost(CanonicalEntries)
    BY DEF PfInv
  <2>3. CASE {d \in canonical[f] : d.left > 1} = {}
    BY <2>1, <2>3 DEF OneAtMost
  <2>4. CASE {d \in canonical[f] : d.left > 1} # {}
    <3>1. PICK c \in CanonicalEntries : {d \in canonical[f] : d.left > 1} = {c} /\ c.left > 1
      BY <2>2, <2>4 DEF OneAtMost
    <3>2. canonical'[f] = {[c EXCEPT !.left = @ - 1]}
      BY <2>1, <3>1
    <3>3. [c EXCEPT !.left = @ - 1] = [value |-> c.value, left |-> c.left - 1]
      BY DEF CanonicalEntries
    <3>4. [c EXCEPT !.left = @ - 1] \in CanonicalEntries
      BY <3>1, <3>3, FreshnessAssumption DEF CanonicalEntries
    <3> QED BY <3>2, <3>4 DEF OneAtMost
  <2> QED BY <2>3, <2>4
<1>5. canonical' \in [CanonicalFields -> OneAtMost(CanonicalEntries)]
  <2>1. DOMAIN canonical' = CanonicalFields /\ canonical' = [f \in CanonicalFields |-> canonical'[f]]
    BY DEF PfTick
  <2> QED BY <1>4, <2>1
<1>6. written' \in Writes
  <2>1. NoWrite \in Writes
    BY NothingType, FreshnessAssumption DEF NoWrite, Writes
  <2>2. CASE written.left > 1
    <3>1. written' = [left |-> written.left - 1, fields |-> written.fields]
      BY <2>2 DEF PfTick, PfInv, Writes
    <3> QED BY <2>2, <3>1, FreshnessAssumption DEF PfInv, Writes
  <2> QED BY <2>1, <2>2 DEF PfTick
<1>7. mqttLast' \in LastMessages
  <2>1. mqttLast' = {[m EXCEPT !.age = Older(@)] : m \in mqttLast}
    BY DEF PfTick
  <2>2. CASE mqttLast = {}
    BY <2>1, <2>2 DEF LastMessages, OneAtMost
  <2>3. CASE mqttLast # {}
    <3>1. PICK m \in [src : Pushers \ {"ble"}, age : Ages] : mqttLast = {m}
      BY <2>3 DEF PfInv, LastMessages, OneAtMost
    <3>2. mqttLast' = {[m EXCEPT !.age = Older(@)]}
      BY <2>1, <3>1
    <3>3. [m EXCEPT !.age = Older(@)] \in [src : Pushers \ {"ble"}, age : Ages]
      BY <1>1
    <3> QED BY <3>2, <3>3 DEF LastMessages, OneAtMost
  <2> QED BY <2>2, <2>3
<1>8. shown' = shown /\ httpCycle' = httpCycle
  BY DEF PfTick
<1>9. PushedIsShown'
  BY <1>2, <1>8 DEF PfInv, PushedIsShown
<1>10. BaselineIsShown' /\ BaselineIsHeld'
  BY <1>8 DEF PfInv, BaselineIsShown, BaselineIsHeld
<1> QED BY <1>3, <1>5, <1>6, <1>7, <1>8, <1>9, <1>10 DEF PfInv

-------------------------------------------------------------------------------
(* The replay at the end of a cycle.                                             *)

Changed == {f \in Fields : shown[f] # httpCycle.base[f]}
Start == [Board EXCEPT !.data = httpCycle.held]
Again(b, f) == MergedPartial(b, [b.data EXCEPT ![f] = shown[f]], ReplayLabel(b, f))

LEMMA OrderFacts ==
  ASSUME NEW order \in Orders
  PROVE  /\ Len(order) \in Nat /\ DOMAIN order = 1..Len(order)
         /\ \A i \in 1..Len(order) : order[i] \in Changed
         /\ \A f \in Changed : \E i \in 1..Len(order) : order[i] = f
<1>1. IsFiniteSet(Changed)
  <2>1. IsFiniteSet(Fields)
    BY FreshnessAssumption, FS_Union DEF Fields
  <2>2. Changed \subseteq Fields
    BY DEF Changed
  <2> QED BY <2>1, <2>2, FS_Subset
<1>2. Cardinality(Changed) \in Nat
  BY <1>1, FS_CardinalityType
<1>3. /\ order \in [1..Cardinality(Changed) -> Changed]
      /\ \A f \in Changed : \E i \in DOMAIN order : order[i] = f
  BY DEF Orders, Changed
<1> DEFINE n == Cardinality(Changed)
<1>4. n \in Nat /\ order \in [1..n -> Changed] /\ \A f \in Changed : \E i \in DOMAIN order : order[i] = f
  BY <1>2, <1>3
<1> HIDE DEF n, Changed
<1>5. order \in Seq(Changed) /\ Len(order) = n
  BY <1>4
<1> QED BY <1>4, <1>5

LEMMA ReplayLabelFacts ==
  ASSUME NEW b \in Boards, NEW f \in Fields
  PROVE  /\ ReplayLabel(b, f) \in Observations
         /\ f \in LiveFields /\ (\A p \in b.prov[f] : ~Stale(p)) =>
              /\ ~Stale(ReplayLabel(b, f))
              /\ \A v : ~KeepsCurrent(v, b.prov[f], ReplayLabel(b, f))
<1>1. CASE f \in SettingFields \/ b.prov[f] = {}
  <2> DEFINE o == Observation("cloud_mqtt", {})
  <2>1. ReplayLabel(b, f) = o
    BY <1>1 DEF ReplayLabel
  <2>2. o \in Observations /\ o.age = {}
    <3>1. {} \in Ages
      BY DEF Ages
    <3> QED BY <3>1, ObservationType
  <2>3. ~Stale(o)
    BY <2>2 DEF Stale
  <2>4. f \in LiveFields => b.prov[f] = {}
    BY <1>1, FreshnessAssumption
  <2> HIDE DEF o
  <2>5. f \in LiveFields => \A v : ~KeepsCurrent(v, b.prov[f], o)
    BY <2>3, <2>4 DEF KeepsCurrent
  <2> QED BY <2>1, <2>2, <2>3, <2>5
<1>2. CASE ~(f \in SettingFields \/ b.prov[f] = {})
  <2>1. f \in LiveFields
    BY <1>2 DEF Fields
  <2>2. PICK p \in Observations : b.prov[f] = {p}
    BY <1>2, <2>1, BoardFacts DEF OneAtMost
  <2>3. (CHOOSE q \in b.prov[f] : TRUE) = p
    BY <2>2
  <2> DEFINE o == [p EXCEPT !.left = Window]
  <2>4. ReplayLabel(b, f) = o
    BY <1>2, <2>3 DEF ReplayLabel
  <2>5. o = [src |-> p.src, age |-> p.age, left |-> Window]
    BY DEF Observations
  <2>6. o \in Observations /\ o.src = p.src /\ o.age = p.age
    BY <2>5, FreshnessAssumption DEF Observations
  <2> HIDE DEF o
  <2>7. Tier[p.src] \in Nat
    <3>1. p.src \in {"http", "cloud_mqtt", "local_mqtt", "ble"}
      BY FreshnessAssumption DEF Observations
    <3> QED BY <3>1 DEF Tier
  <2>8. ~\E n \in p.age, m \in p.age : n > m
    <3>1. p.age \in Ages
      BY DEF Observations
    <3> QED BY <3>1 DEF Ages
  <2>9. Stale(o) <=> Stale(p)
    BY <2>6 DEF Stale
  <2>10. ~Stale(p) => \A v : ~KeepsCurrent(v, b.prov[f], o)
    BY <2>2, <2>6, <2>7, <2>8, <2>9 DEF KeepsCurrent
  <2> QED BY <2>2, <2>4, <2>6, <2>9, <2>10
<1> QED BY <1>1, <1>2

LEMMA AgainType ==
  ASSUME PfInv, NEW b \in Boards, NEW f \in Fields
  PROVE  /\ [b.data EXCEPT ![f] = shown[f]] \in Payloads
         /\ \A e \in Fields : [b.data EXCEPT ![f] = shown[f]][e] = IF e = f THEN shown[f] ELSE b.data[e]
         /\ PartlyMerged(b, [b.data EXCEPT ![f] = shown[f]], ReplayLabel(b, f), Again(b, f))
         /\ Again(b, f) \in Boards
<1> DEFINE u == [b.data EXCEPT ![f] = shown[f]]
           o == ReplayLabel(b, f)
<1>1. u \in Payloads /\ \A e \in Fields : u[e] = IF e = f THEN shown[f] ELSE b.data[e]
  BY BoardFacts DEF PfInv, Payloads
<1>2. o \in Observations
  BY ReplayLabelFacts
<1>3. Again(b, f) = MergedPartial(b, u, o)
  BY DEF Again
<1> HIDE DEF u, o
<1>4. PartlyMerged(b, u, o, Again(b, f))
  BY <1>1, <1>2, <1>3, PartialFacts
<1>5. Again(b, f) \in Boards
  BY <1>4 DEF PartlyMerged
<1> QED BY <1>1, <1>4, <1>5 DEF u, o

\* A replay is a run.
LEMMA ReplayRun ==
  ASSUME PfInv, NEW order \in Orders
  PROVE  \E h : /\ h[0] = Start
                /\ \A i \in 1..Len(order) : h[i] = Again(h[i - 1], order[i])
                /\ Replayed(order) = h[Len(order)]
<1> DEFINE n == Len(order)
           Run(h) == h = [i \in 0..n |-> IF i = 0 THEN Start ELSE Again(h[i - 1], order[i])]
           step == [x \in Boards \X (1..n) |-> Again(x[1], order[x[2]])]
<1>1. n \in Nat /\ \A i \in 1..n : order[i] \in Fields
  BY OrderFacts DEF Changed
<1>2. Start \in Boards
  BY BoardType, WithData DEF PfInv, Cycles, Start
<1>3. step \in [Boards \X (1..n) -> Boards]
  <2>1. \A x \in Boards \X (1..n) : Again(x[1], order[x[2]]) \in Boards
    BY <1>1, AgainType
  <2> QED BY <2>1
<1>4. \A b \in Boards, i \in 1..n : step[<<b, i>>] = Again(b, order[i])
  OBVIOUS
<1>5. Replayed(order) = (CHOOSE h : Run(h))[n]
  BY DEF Replayed, Start, Again
<1> HIDE DEF step, n
<1>6. PICK g : IsRun(g, Boards, Start, n, step)
  BY <1>1, <1>2, <1>3, RunExists
<1> USE DEF IsRun
<1>7. Run(g)
  <2>1. ASSUME NEW i \in 0..n
        PROVE  g[i] = IF i = 0 THEN Start ELSE Again(g[i - 1], order[i])
    <3>1. CASE i = 0
      BY <1>6, <3>1
    <3>2. CASE i # 0
      <4>1. i \in 1..n /\ i - 1 \in 0..n
        BY <1>1, <3>2
      <4> QED BY <1>4, <1>6, <3>2, <4>1
    <3> QED BY <3>1, <3>2
  <2> QED BY <1>6, <2>1
<1> HIDE DEF Run
<1>8. PICK h : Run(h) /\ Replayed(order) = h[n]
  BY <1>5, <1>7
<1> USE DEF Run
<1>9. h[0] = Start
  BY <1>1, <1>8
<1>10. ASSUME NEW i \in 1..n PROVE h[i] = Again(h[i - 1], order[i])
  <2>1. i \in 0..n /\ i # 0
    BY <1>1
  <2> QED BY <1>8, <2>1
<1> QED BY <1>8, <1>9, <1>10 DEF n

\* A field that has been replayed shows what was shown, or what is laid over it.
Settled(b, f) ==
  /\ b.data[f] # Blank
  /\ ~Outdated(f) \/ Laid(Board, f) # Blank => b.data[f] \in {shown[f], Laid(Board, f)}

\* What i replays keep.
Retained(order, i, b) ==
  /\ b.write = written.fields /\ b.canon = canonical
  /\ \A f \in Fields : httpCycle.held[f] # Blank => b.data[f] # Blank
  /\ \A f \in LiveFields : f \notin Changed => b.prov[f] = provenance[f]
  /\ \A f \in LiveFields : ~Outdated(f) => \A p \in b.prov[f] : ~Stale(p)
  /\ \A j \in 1..i : Settled(b, order[j])

LEMMA ReplayStarts ==
  ASSUME PfInv, NEW order
  PROVE  Start \in Boards /\ Retained(order, 0, Start)
<1>1. /\ Start \in Boards /\ Start.data = httpCycle.held /\ Start.prov = provenance
      /\ Start.canon = canonical /\ Start.write = written.fields
  BY BoardType, WithData DEF PfInv, Cycles, Start
<1>2. \A f \in LiveFields : ~Outdated(f) => \A p \in provenance[f] : ~Stale(p)
  BY DEF Outdated
<1> QED BY <1>1, <1>2 DEF Retained

\* One replay of f: f is settled by it, and other fields stay settled.
LEMMA AgainSettles ==
  ASSUME PfInv, NEW b \in Boards, NEW f \in Changed, NEW c, c = Again(b, f),
         b.write = written.fields, b.canon = canonical, shown[f] # Blank,
         f \in LiveFields /\ ~Outdated(f) => \A p \in b.prov[f] : ~Stale(p)
  PROVE  /\ Settled(c, f)
         /\ \A e \in Fields : Settled(b, e) => Settled(c, e)
<1> DEFINE u == [b.data EXCEPT ![f] = shown[f]]
           o == ReplayLabel(b, f)
<1>1. f \in Fields
  BY DEF Changed
<1>2. /\ u \in Payloads
      /\ \A e \in Fields : u[e] = IF e = f THEN shown[f] ELSE b.data[e]
      /\ PartlyMerged(b, u, o, c)
  BY <1>1, AgainType
<1>3. \A e \in Fields : Laid(b, e) = Laid(Board, e)
  BY BoardType DEF Laid
<1>4. f \in LiveFields /\ ~Outdated(f) => ~KeepsCurrent(b.data[f], b.prov[f], o)
  BY <1>1, ReplayLabelFacts
<1> HIDE DEF u, o
<1>5. \A e \in Fields :
        /\ c.data[e] \in {b.data[e], u[e], Laid(b, e)}
        /\ c.data[e] = b.data[e] \/ c.data[e] # Blank
        /\ u[e] # Blank => c.data[e] # Blank
        /\ u[e] = b.data[e] => c.data[e] \in {b.data[e], Laid(b, e)}
        /\ u[e] \notin {Blank, b.data[e]} /\ Laid(b, e) # Blank => c.data[e] = Laid(b, e)
        /\ u[e] \notin {Blank, b.data[e]} /\ Laid(b, e) = Blank /\ (e \in LiveFields => ~KeepsCurrent(b.data[e], b.prov[e], o)) => c.data[e] = u[e]
  BY <1>2 DEF PartlyMerged
<1>6. Settled(c, f)
  <2>1. u[f] = shown[f]
    BY <1>1, <1>2
  <2>2. c.data[f] # Blank
    BY <1>1, <1>5, <2>1
  <2>3. ASSUME ~Outdated(f) \/ Laid(Board, f) # Blank
        PROVE  c.data[f] \in {shown[f], Laid(Board, f)}
    <3>1. CASE shown[f] = b.data[f]
      BY <1>1, <1>3, <1>5, <2>1, <3>1
    <3>2. CASE shown[f] # b.data[f] /\ Laid(b, f) # Blank
      BY <1>1, <1>3, <1>5, <2>1, <3>2
    <3>3. CASE shown[f] # b.data[f] /\ Laid(b, f) = Blank
      <4>1. f \in LiveFields => ~KeepsCurrent(b.data[f], b.prov[f], o)
        BY <1>1, <1>3, <1>4, <2>3, <3>3
      <4> QED BY <1>1, <1>5, <2>1, <3>3, <4>1
    <3> QED BY <3>1, <3>2, <3>3
  <2> QED BY <2>2, <2>3 DEF Settled
<1>7. ASSUME NEW e \in Fields, Settled(b, e) PROVE Settled(c, e)
  <2>1. CASE e = f
    BY <1>6, <2>1
  <2>2. CASE e # f
    <3>1. u[e] = b.data[e]
      BY <1>2, <2>2
    <3>2. c.data[e] \in {b.data[e], Laid(Board, e)} /\ c.data[e] # Blank
      BY <1>3, <1>5, <1>7, <3>1 DEF Settled
    <3> QED BY <1>7, <3>2 DEF Settled
  <2> QED BY <2>1, <2>2
<1> QED BY <1>6, <1>7

LEMMA ReplayKeeps ==
  ASSUME PfInv, httpCycle.at = "system", NEW order \in Orders, NEW i \in 1..Len(order),
         NEW b \in Boards, Retained(order, i - 1, b), NEW c, c = Again(b, order[i])
  PROVE  c \in Boards /\ Retained(order, i, c)
<1> DEFINE f == order[i]
           u == [b.data EXCEPT ![f] = shown[f]]
           o == ReplayLabel(b, f)
<1>1. f \in Changed /\ f \in Fields
  BY OrderFacts DEF Changed
<1>2. /\ \A e \in Fields : u[e] = IF e = f THEN shown[f] ELSE b.data[e]
      /\ PartlyMerged(b, u, o, c) /\ c \in Boards
  BY <1>1, AgainType
<1>3. c = Again(b, f)
  OBVIOUS
<1>4. f \in LiveFields => /\ o \in Observations
                          /\ (\A p \in b.prov[f] : ~Stale(p)) => ~Stale(o)
  BY <1>1, ReplayLabelFacts
<1> HIDE DEF u, o
<1>5. /\ c.write = b.write /\ c.canon = b.canon
      /\ \A e \in Fields : c.data[e] = b.data[e] \/ c.data[e] # Blank
      /\ \A e \in LiveFields : c.prov[e] = b.prov[e] \/ (c.prov[e] = {o} /\ u[e] # b.data[e])
  BY <1>2 DEF PartlyMerged
<1>6. \A e \in LiveFields : e \in Fields
  BY DEF Fields
<1>7. \A e \in LiveFields : e # f => c.prov[e] = b.prov[e]
  BY <1>2, <1>5, <1>6
<1>8. shown[f] # Blank
  BY <1>1 DEF Changed, PfInv, BaselineIsShown
<1>9. /\ b.write = written.fields /\ b.canon = canonical
      /\ \A e \in Fields : httpCycle.held[e] # Blank => b.data[e] # Blank
      /\ \A e \in LiveFields : e \notin Changed => b.prov[e] = provenance[e]
      /\ \A e \in LiveFields : ~Outdated(e) => \A p \in b.prov[e] : ~Stale(p)
      /\ \A j \in 1..(i - 1) : Settled(b, order[j])
  BY DEF Retained
<1>10. Settled(c, f) /\ \A e \in Fields : Settled(b, e) => Settled(c, e)
  BY <1>1, <1>3, <1>8, <1>9, AgainSettles
<1>11. \A j \in 1..i : Settled(c, order[j])
  <2> SUFFICES ASSUME NEW j \in 1..i PROVE Settled(c, order[j])
    OBVIOUS
  <2>1. CASE j = i
    BY <1>10, <2>1
  <2>2. CASE j # i
    <3>1. j \in 1..(i - 1) /\ j \in 1..Len(order)
      BY <2>2, OrderFacts
    <3>2. order[j] \in Fields
      BY <3>1, OrderFacts DEF Changed
    <3> QED BY <1>9, <1>10, <3>1, <3>2
  <2> QED BY <2>1, <2>2
<1> HIDE DEF f
<1>12. \A e \in LiveFields : e \notin Changed => c.prov[e] = provenance[e]
  BY <1>1, <1>7, <1>9
<1>13. ASSUME NEW e \in LiveFields, ~Outdated(e), NEW p \in c.prov[e] PROVE ~Stale(p)
  <2>1. CASE e # f
    BY <1>7, <1>9, <1>13, <2>1
  <2>2. CASE e = f
    BY <1>4, <1>5, <1>9, <1>13, <2>2
  <2> QED BY <2>1, <2>2
<1> QED BY <1>2, <1>5, <1>9, <1>11, <1>12, <1>13 DEF Retained

LEMMA ReplayedFacts ==
  ASSUME PfInv, httpCycle.at = "system", NEW order \in Orders
  PROVE  /\ Replayed(order) \in Boards
         /\ Retained(order, Len(order), Replayed(order))
         /\ \A f \in Changed : Settled(Replayed(order), f)
<1>1. PICK h : /\ h[0] = Start
               /\ \A i \in 1..Len(order) : h[i] = Again(h[i - 1], order[i])
               /\ Replayed(order) = h[Len(order)]
  BY ReplayRun
<1> DEFINE n == Len(order)
           good == [i \in 0..n |-> {b \in Boards : Retained(order, i, b)}]
<1>2. n \in Nat
  BY OrderFacts
<1>3. \A i \in 0..n : \A b : b \in good[i] <=> b \in Boards /\ Retained(order, i, b)
  OBVIOUS
<1> HIDE DEF good
<1>4. h[0] \in good[0]
  BY <1>1, <1>2, <1>3, ReplayStarts
<1>5. ASSUME NEW i \in 1..n, h[i - 1] \in good[i - 1] PROVE h[i] \in good[i]
  <2>1. i \in 0..n /\ i - 1 \in 0..n
    BY <1>2
  <2>2. h[i - 1] \in Boards /\ Retained(order, i - 1, h[i - 1])
    BY <1>3, <1>5, <2>1
  <2>3. h[i] = Again(h[i - 1], order[i])
    BY <1>1
  <2>4. h[i] \in Boards /\ Retained(order, i, h[i])
    BY <2>2, <2>3, ReplayKeeps
  <2> QED BY <1>3, <2>1, <2>4
<1>6. \A i \in 0..n : h[i] \in good[i]
  <2> HIDE DEF n
  <2> QED BY <1>2, <1>4, <1>5, RunStays
<1>7. Replayed(order) \in Boards /\ Retained(order, Len(order), Replayed(order))
  BY <1>1, <1>2, <1>3, <1>6
<1>8. \A f \in Changed : Settled(Replayed(order), f)
  BY <1>7, OrderFacts DEF Retained
<1> QED BY <1>7, <1>8

LEMMA PfEndInv ==
  ASSUME PfInv, CycleEnds
  PROVE  PfInv'
<1>1. PICK order \in Orders : Set(Replayed(order))
  BY DEF CycleEnds
<1> DEFINE r == Replayed(order)
<1>2. /\ httpCycle.at = "system" /\ httpCycle' = NoCycle /\ UNCHANGED <<written, mqttLast>>
      /\ shown' = r.data /\ provenance' = r.prov /\ canonical' = r.canon
  BY <1>1 DEF CycleEnds, Set
<1>3. r \in Boards /\ Retained(order, Len(order), r) /\ \A f \in Changed : Settled(r, f)
  BY <1>2, ReplayedFacts
<1> HIDE DEF r
<1>4. /\ shown' \in Payloads
      /\ provenance' \in [LiveFields -> OneAtMost(Observations)]
      /\ canonical' \in [CanonicalFields -> OneAtMost(CanonicalEntries)]
  BY <1>2, <1>3, BoardFacts
<1>5. httpCycle' \in Cycles /\ httpCycle'.at = "idle"
  BY <1>2, NothingType DEF NoCycle, Cycles
<1>6. PushedIsShown'
  <2> SUFFICES ASSUME NEW f \in LiveFields, NEW p \in provenance'[f], p.src # "http"
               PROVE  shown'[f] # Blank
    BY DEF PushedIsShown
  <2>1. f \in Fields
    BY DEF Fields
  <2>2. CASE f \in Changed
    BY <1>2, <1>3, <2>2 DEF Settled
  <2>3. CASE f \notin Changed
    <3>1. p \in provenance[f]
      BY <1>2, <1>3, <2>3 DEF Retained
    <3>2. shown[f] # Blank /\ shown[f] = httpCycle.base[f]
      BY <2>1, <2>3, <3>1 DEF PfInv, PushedIsShown, Changed
    <3>3. httpCycle.held[f] # Blank
      BY <1>2, <2>1, <3>2 DEF PfInv, BaselineIsHeld
    <3> QED BY <1>2, <1>3, <2>1, <3>3 DEF Retained
  <2> QED BY <2>2, <2>3
<1> QED BY <1>2, <1>4, <1>5, <1>6 DEF PfInv, BaselineIsShown, BaselineIsHeld

LEMMA PfStepInv ==
  ASSUME PfInv, NEW F, [PfStep(F)]_pfVars
  PROVE  PfInv'
<1>0. PayloadsOn(F) \subseteq Payloads
  BY PayloadsOnType
<1>1. ASSUME NEW update \in PayloadsOn(F), NEW keys \in {{}, CanonicalFields \cap F},
             \/ \E age \in 0..Window + 1 : "ble" \in Pushers /\ BlePush(update, age, keys)
             \/ \E src \in Pushers \ {"ble"}, age \in Ages : MqttPush(src, update, age, keys)
      PROVE  PfInv'
  <2>1. update \in Payloads /\ keys \in SUBSET CanonicalFields
    BY <1>0
  <2> QED BY <1>1, <2>1, PfPushInv
<1>2. ASSUME NEW response \in PayloadsOn(F), HttpRead(response) PROVE PfInv'
  <2>1. response \in Payloads /\ {} \in SUBSET CanonicalFields
    BY <1>0
  <2> QED BY <1>2, <2>1, PfPushInv
<1>3. ASSUME NEW response \in PayloadsOn(F), PropertyAnswered(response) PROVE PfInv'
  BY <1>0, <1>3, PfCycleInv
<1>4. ASSUME NEW f \in F, NEW v \in PropertyValues, LocalWrite(f, v) PROVE PfInv'
  BY <1>4, PfWriteInv
<1>5. CASE CycleStarts \/ PropertyFailed \/ CycleRetried \/ CycleAborted
  BY <1>5, PfCycleInv
<1>6. CASE EntryBuilt
  BY <1>6, PfBuiltInv
<1>7. CASE CycleEnds
  BY <1>7, PfEndInv
<1>8. CASE PfTick
  BY <1>8, PfTickInv
<1>9. CASE UNCHANGED pfVars
  BY <1>9 DEF pfVars, PfInv, PushedIsShown, BaselineIsShown, BaselineIsHeld
<1> QED BY <1>1, <1>2, <1>3, <1>4, <1>5, <1>6, <1>7, <1>8, <1>9 DEF PfStep

-------------------------------------------------------------------------------
(* Changes survive.                                                              *)

\* A write that is shown stays through what is published.
LEMMA PublishedKeepsWrite ==
  ASSUME PfInv, NEW b \in Boards, NEW o \in Observations, Set(Published(b, o)),
         NEW f \in Fields, b.write[f] = shown[f], shown[f] # Blank
  PROVE  shown'[f] = shown[f]
<1> DEFINE r == Published(b, o)
<1>1. r.data[f] # shown[f] /\ Laid(b, f) # Blank => r.data[f] = Laid(b, f)
  BY PublishedFacts DEF PfInv
<1>2. shown' = r.data
  BY DEF Set
<1>3. Laid(b, f) = shown[f]
  BY DEF Laid
<1> HIDE DEF r
<1> QED BY <1>1, <1>2, <1>3

LEMMA MergeKeepsWrites ==
  ASSUME PfInv, NEW update \in Payloads, NEW o \in Observations, NEW keys \in SUBSET CanonicalFields,
         NEW b, b = Merged(Board, update, o, keys)
  PROVE  b \in Boards /\ b.write = written.fields
<1>1. b \in Boards
  BY MergeBacked
<1>2. b.write = Board.write
  BY DEF Merged
<1> QED BY <1>1, <1>2, BoardType

LEMMA PushKeepsWrite ==
  ASSUME PfInv, NEW update \in Payloads, NEW keys \in SUBSET CanonicalFields,
         NEW f \in Fields, written.fields[f] = shown[f], shown[f] # Blank
  PROVE  /\ \A age \in 0..Window + 1 : "ble" \in Pushers /\ BlePush(update, age, keys) => shown'[f] = shown[f]
         /\ \A src \in Pushers \ {"ble"}, age \in Ages : MqttPush(src, update, age, keys) => shown'[f] = shown[f]
         /\ HttpRead(update) => shown'[f] = shown[f]
<1>1. ASSUME NEW age \in 0..Window + 1, "ble" \in Pushers, BlePush(update, age, keys)
      PROVE  shown'[f] = shown[f]
  <2> DEFINE o == Observation("ble", {age})
             b == Merged(Board, update, o, keys)
  <2>1. o \in Observations
    BY <1>1, ObservationType DEF Ages
  <2>2. Set(Published(b, o))
    BY <1>1 DEF BlePush
  <2> HIDE DEF o
  <2>3. b \in Boards /\ b.write = written.fields
    BY <2>1, MergeKeepsWrites
  <2> HIDE DEF b
  <2> QED BY <2>1, <2>2, <2>3, PublishedKeepsWrite
<1>2. ASSUME NEW src \in Pushers \ {"ble"}, NEW age \in Ages, MqttPush(src, update, age, keys)
      PROVE  shown'[f] = shown[f]
  <2> DEFINE o == Observation(src, age)
             m == Merged(Board, update, o, keys)
             b == IF update = Nothing THEN Board ELSE m
  <2>1. o \in Observations
    BY <1>2, ObservationType
  <2>2. Set(Published(b, o))
    BY <1>2 DEF MqttPush
  <2> HIDE DEF o
  <2>3. m \in Boards /\ m.write = written.fields
    BY <2>1, MergeKeepsWrites
  <2> HIDE DEF m
  <2>4. b \in Boards /\ b.write = written.fields
    BY <2>3, BoardType
  <2> HIDE DEF b
  <2> QED BY <2>1, <2>2, <2>4, PublishedKeepsWrite
<1>3. ASSUME HttpRead(update) PROVE shown'[f] = shown[f]
  <2> DEFINE o == Observation("http", {})
             b == Merged(Board, update, o, {})
             p == EntryLabel("http")
  <2>1. o \in Observations /\ {} \in SUBSET CanonicalFields
    <3>1. {} \in Ages
      BY DEF Ages
    <3> QED BY <3>1, ObservationType
  <2>2. p \in Observations
    BY EntryLabelType
  <2>3. Set(Published(b, p))
    BY <1>3 DEF HttpRead
  <2> HIDE DEF o, p
  <2>4. b \in Boards /\ b.write = written.fields
    BY <2>1, MergeKeepsWrites
  <2> HIDE DEF b
  <2> QED BY <2>2, <2>3, <2>4, PublishedKeepsWrite
<1> QED BY <1>1, <1>2, <1>3

LEMMA WriteKeepsWrites ==
  ASSUME PfInv, NEW e, NEW v \in PropertyValues, LocalWrite(e, v), written' = written,
         NEW f \in Fields, written.fields[f] = shown[f], shown[f] # Blank
  PROVE  shown'[f] = shown[f]
<1> DEFINE writes == [written.fields EXCEPT ![e] = v]
           d == [shown EXCEPT ![e] = v]
           b == [Board EXCEPT !.write = writes, !.data = d]
<1>1. writes \in Payloads /\ d \in Payloads
  BY DEF PfInv, Writes, Payloads
<1>2. PICK src \in {"http", "cloud_mqtt"} : Set(Published(b, EntryLabel(src)))
  BY DEF LocalWrite
<1>3. writes = written.fields
  BY DEF LocalWrite
<1> HIDE DEF writes, d
<1>4. b = [data |-> d, prov |-> provenance, canon |-> canonical, write |-> writes]
  <2> DEFINE c == [Board EXCEPT !.write = writes]
  <2>1. c = [data |-> shown, prov |-> provenance, canon |-> canonical, write |-> writes]
    BY DEF Board
  <2>2. b = [c EXCEPT !.data = d]
    OBVIOUS
  <2> HIDE DEF c, b
  <2> QED BY <2>1, <2>2
<1>5. b \in Boards /\ b.write = written.fields
  BY <1>1, <1>3, <1>4, IsBoard DEF PfInv
<1> HIDE DEF b
<1> DEFINE o == EntryLabel(src)
<1>6. o \in Observations /\ Set(Published(b, o))
  BY <1>2, EntryLabelType
<1> HIDE DEF o
<1> QED BY <1>5, <1>6, PublishedKeepsWrite

\* HTTP has no say in what was pushed of late.
LEMMA PushedKeeps ==
  ASSUME PfInv, NEW f \in LiveFields, PushedOfLate(f), NEW o \in Observations, o.src = "http"
  PROVE  shown[f] # Blank /\ KeepsCurrent(shown[f], provenance[f], o)
<1>1. PICK p \in provenance[f] : p.src # "http" /\ p.left > 0
  BY DEF PushedOfLate
<1>2. shown[f] # Blank
  BY <1>1 DEF PfInv, PushedIsShown
<1>3. p \in Observations
  BY OneAtMostFacts DEF PfInv
<1>4. p.src \in {"cloud_mqtt", "local_mqtt", "ble"}
  BY <1>1, <1>3, FreshnessAssumption DEF Observations
<1>5. Tier["http"] < Tier[p.src]
  BY <1>4 DEF Tier
<1> QED BY <1>1, <1>2, <1>5 DEF KeepsCurrent

LEMMA LaidStands ==
  ASSUME PfInv, NEW f \in Fields, written' = written, canonical' = canonical,
         shown'[f] \in {shown[f], Laid(Board, f)}, shown'[f] # Blank
  PROVE  Stands(f)
<1>1. Laid(Board, f) = IF written.fields[f] # Blank THEN written.fields[f]
                       ELSE CanonicalValues(canonical)[f]
  BY BoardType DEF Laid
<1>2. CanonicalValues(canonical') = CanonicalValues(canonical)
  OBVIOUS
<1> QED BY <1>1, <1>2 DEF Stands

LEMMA ReadStands ==
  ASSUME PfInv, NEW f \in LiveFields, PushedOfLate(f), NEW response \in Payloads, HttpRead(response)
  PROVE  Stands(f)
<1> DEFINE o == Observation("http", {})
           c == Board
           b == Merged(c, response, o, {})
           p == EntryLabel("http")
           r == Published(b, p)
<1>1. o \in Observations /\ o.src = "http"
  <2>1. {} \in Ages
    BY DEF Ages
  <2> QED BY <2>1, ObservationType
<1>2. p \in Observations
  BY EntryLabelType
<1>3. shown' = r.data /\ canonical' = r.canon /\ written' = written
  BY DEF HttpRead, Set
<1>4. /\ c \in Boards /\ c.data = shown /\ c.prov = provenance
      /\ c.canon = canonical /\ c.write = written.fields
  BY BoardType
<1>5. f \in Fields
  BY DEF Fields
<1> HIDE DEF o, p, r, c
<1>6. /\ b \in Boards /\ b.canon = canonical /\ b.write = written.fields
      /\ b.data[f] = IF Laid(c, f) # Blank THEN Laid(c, f)
                     ELSE IF f \in Taken(c, response, o) THEN response[f] ELSE c.data[f]
  BY <1>1, <1>4, <1>5, PlainFacts
<1>7. f \notin Taken(c, response, o)
  BY <1>1, <1>4, <1>5, PushedKeeps, TakenFacts
<1>8. b.data[f] \in {shown[f], Laid(c, f)} /\ Laid(b, f) = Laid(c, f)
  BY <1>4, <1>6, <1>7 DEF Laid
<1> HIDE DEF b
<1>9. /\ r.canon = b.canon
      /\ r.data[f] \in {shown[f], b.data[f], Laid(b, f)}
      /\ r.data[f] = shown[f] \/ r.data[f] # Blank
  BY <1>2, <1>5, <1>6, PublishedFacts DEF PfInv, r
<1>10. shown[f] # Blank
  BY <1>1, PushedKeeps
<1>11. shown'[f] \in {shown[f], Laid(Board, f)} /\ shown'[f] # Blank /\ canonical' = canonical
  BY <1>3, <1>6, <1>8, <1>9, <1>10 DEF c
<1> QED BY <1>3, <1>5, <1>11, LaidStands

\* What changed during a cycle stands at its end.
LEMMA EndStands ==
  ASSUME PfInv, CycleEnds, NEW f \in Fields, shown[f] # httpCycle.base[f]
  PROVE  /\ ~Outdated(f) => Stands(f)
         /\ written.fields[f] = shown[f] /\ shown[f] # Blank => shown'[f] = shown[f]
<1>1. PICK order \in Orders : Set(Replayed(order))
  BY DEF CycleEnds
<1> DEFINE r == Replayed(order)
<1>2. /\ httpCycle.at = "system" /\ written' = written
      /\ shown' = r.data /\ canonical' = r.canon
  BY <1>1 DEF CycleEnds, Set
<1>3. Retained(order, Len(order), r) /\ \A e \in Changed : Settled(r, e)
  BY <1>2, ReplayedFacts
<1> HIDE DEF r
<1>4. Settled(r, f)
  BY <1>3 DEF Changed
<1>5. canonical' = canonical
  BY <1>2, <1>3 DEF Retained
<1>6. ~Outdated(f) => Stands(f)
  BY <1>2, <1>4, <1>5, LaidStands DEF Settled
<1>7. written.fields[f] = shown[f] /\ shown[f] # Blank => Laid(Board, f) = shown[f]
  BY BoardType DEF Laid
<1> QED BY <1>2, <1>4, <1>6, <1>7 DEF Settled

\* ChangesSurvive, of one step.
Survives ==
  shown' # shown =>
     /\ \A f \in LiveFields : PushedOfLate(f) /\ ~Stands(f) =>
          ~\E response \in Payloads : HttpRead(response)
     /\ CycleEnds => \A f \in Fields :
          shown[f] # httpCycle.base[f] /\ ~Outdated(f) => Stands(f)
     /\ written' = written => \A f \in Fields :
          written.fields[f] \in PropertyValues \cap {shown[f]} =>
            shown'[f] = shown[f] \/ (CycleEnds /\ shown[f] = httpCycle.base[f])

LEMMA PfStepSurvives ==
  ASSUME PfInv, NEW F, [PfStep(F)]_pfVars
  PROVE  Survives
<1>1. ASSUME NEW f \in LiveFields, PushedOfLate(f), NEW response \in Payloads, HttpRead(response)
      PROVE  Stands(f)
  BY <1>1, ReadStands
<1>2. ASSUME CycleEnds, NEW f \in Fields, shown[f] # httpCycle.base[f], ~Outdated(f)
      PROVE  Stands(f)
  BY <1>2, EndStands
<1>3. ASSUME shown' # shown, written' = written, NEW f \in Fields,
             written.fields[f] \in PropertyValues \cap {shown[f]}
      PROVE  shown'[f] = shown[f] \/ (CycleEnds /\ shown[f] = httpCycle.base[f])
  <2>0. written.fields[f] = shown[f] /\ shown[f] # Blank
    BY <1>3, FreshnessAssumption
  <2>10. PayloadsOn(F) \subseteq Payloads
    BY PayloadsOnType
  <2>1. ASSUME NEW update \in PayloadsOn(F), NEW keys \in {{}, CanonicalFields \cap F},
               \/ \E age \in 0..Window + 1 : "ble" \in Pushers /\ BlePush(update, age, keys)
               \/ \E src \in Pushers \ {"ble"}, age \in Ages : MqttPush(src, update, age, keys)
        PROVE  shown'[f] = shown[f]
    <3>1. update \in Payloads /\ keys \in SUBSET CanonicalFields
      BY <2>10
    <3> QED BY <2>0, <2>1, <3>1, PushKeepsWrite
  <2>2. ASSUME NEW response \in PayloadsOn(F), HttpRead(response) PROVE shown'[f] = shown[f]
    <3>1. response \in Payloads /\ {} \in SUBSET CanonicalFields
      BY <2>10
    <3> QED BY <2>0, <2>2, <3>1, PushKeepsWrite
  <2>3. ASSUME NEW response \in PayloadsOn(F), PropertyAnswered(response) PROVE FALSE
    BY <1>3, <2>3 DEF PropertyAnswered
  <2>4. ASSUME NEW e \in F, NEW v \in PropertyValues, LocalWrite(e, v) PROVE shown'[f] = shown[f]
    BY <1>3, <2>0, <2>4, WriteKeepsWrites
  <2>5. CASE CycleStarts \/ PropertyFailed \/ CycleRetried \/ CycleAborted
    BY <1>3, <2>5 DEF CycleStarts, PropertyFailed, CycleRetried, CycleAborted
  <2>6. CASE EntryBuilt
    BY <1>3, <2>6 DEF EntryBuilt
  <2>7. CASE CycleEnds
    BY <2>0, <2>7, EndStands
  <2>8. CASE PfTick
    BY <1>3, <2>8 DEF PfTick
  <2>9. CASE UNCHANGED pfVars
    BY <1>3, <2>9 DEF pfVars
  <2> QED BY <2>1, <2>2, <2>3, <2>4, <2>5, <2>6, <2>7, <2>8, <2>9 DEF PfStep
<1> QED BY <1>1, <1>2, <1>3 DEF Survives

\* The types of what is shown and of what is known of it.
THEOREM FreshnessTypeCorrect == PfSpec => []PfTypeOK
<1>1. PfInit => PfInv
  BY PfInitInv
<1>2. PfInv /\ [PfNext]_pfVars => PfInv'
  BY PfStepInv DEF PfNext
<1>3. PfInv => PfTypeOK
  BY PfInvType
<1> QED BY <1>1, <1>2, <1>3, PTL DEF PfSpec

\* HTTP takes no value away that another way has brought: a fresh pushed value stays
\* through a manual read, what changed during an update cycle is shown after it, and a
\* local write is shown while it has priority.
THEOREM ChangesAreKept == PfSpec => ChangesSurvive
<1>1. PfInit => PfInv
  BY PfInitInv
<1>2. PfInv /\ [PfNext]_pfVars => PfInv'
  BY PfStepInv DEF PfNext
<1>3. PfInv /\ [PfNext]_pfVars => [Survives]_pfVars
  BY PfStepSurvives DEF PfNext
<1>4. ChangesSurvive <=> [][Survives]_pfVars
  BY DEF ChangesSurvive, Survives
<1> QED BY <1>1, <1>2, <1>3, <1>4, PTL DEF PfSpec

-------------------------------------------------------------------------------
(* The parts side by side (MCTransports).                                        *)

\* What the part that runs keeps; the others stand as they began.
TransportsInv ==
  /\ part = "listener" => LmInvariant
  /\ part = "fifo" => LfShape /\ LfOrder
  /\ part = "ble" => BleShape /\ OwnInv
  /\ part = "frames" => BrInv
  /\ part \in {"live", "other"} => PfInv

transportsVars == <<part, lmVars, lfVars, bleVars, brVars, pfVars>>

LEMMA TransportsInvInit == TransportsInit => TransportsInv
<1> SUFFICES ASSUME TransportsInit PROVE TransportsInv
  OBVIOUS
<1>1. LmInit /\ LfInit /\ BleInit /\ BrInit /\ PfInit
  BY DEF TransportsInit
<1>2. LmInvariant
  BY <1>1, TypesInit, StructureInit DEF LmInvariant
<1>3. LfShape /\ LfOrder
  BY <1>1, ShapeInit, OrderInit
<1>4. BleShape /\ OwnInv
  BY <1>1, BleShapeInit, OwnInit
<1>5. BrInv
  BY <1>1, BrInvInit
<1>6. PfInv
  BY <1>1, PfInitInv
<1> QED BY <1>2, <1>3, <1>4, <1>5, <1>6 DEF TransportsInv

LEMMA TransportsInvNext == ASSUME TransportsInv, [TransportsNext]_transportsVars PROVE TransportsInv'
<1>1. /\ part' = part
      /\ part = "listener" => [LmNext]_lmVars
      /\ part = "fifo" => [LfNext]_lfVars
      /\ part = "ble" => [BleNext]_bleVars
      /\ part = "frames" => [BrNext]_brVars
      /\ part = "live" => [PfStep({f1})]_pfVars
      /\ part = "other" => [PfStep({f2})]_pfVars
  BY DEF TransportsNext, transportsVars
<1>2. part = "listener" => LmInvariant'
  BY <1>1, LmInvariantNext DEF TransportsInv
<1>3. part = "fifo" => (LfShape /\ LfOrder)'
  BY <1>1, ShapeNext, OrderNext DEF TransportsInv
<1>4. part = "ble" => (BleShape /\ OwnInv)'
  BY <1>1, OwnNext DEF TransportsInv
<1>5. part = "frames" => BrInv'
  BY <1>1, BrInvNext DEF TransportsInv
<1>6. part = "live" => PfInv'
  BY <1>1, PfStepInv DEF TransportsInv
<1>7. part = "other" => PfInv'
  BY <1>1, PfStepInv DEF TransportsInv
<1> QED BY <1>1, <1>2, <1>3, <1>4, <1>5, <1>6, <1>7 DEF TransportsInv

\* The local MQTT listener, its FIFO, the BLE session, the reassembly of its messages
\* and the properties of a device keep their types, whatever arrives or is cancelled.
THEOREM TransportsTypeCorrect == TransportsSpec => []TransportsTypeOK
<1>1. TransportsInit => TransportsInv
  BY TransportsInvInit
<1>2. TransportsInv /\ [TransportsNext]_transportsVars => TransportsInv'
  BY TransportsInvNext
<1>3. TransportsInv => TransportsTypeOK
  <2>1. LfShape /\ LfOrder => LfTypeOK
    BY LfTypeFollows
  <2>2. LmInvariant => LmTypeOK
    BY LmTypesOK DEF LmInvariant
  <2>3. BrInv => BrTypeOK
    BY DEF BrInv
  <2>4. PfInv => PfTypeOK
    BY PfInvType
  <2> QED BY <2>1, <2>2, <2>3, <2>4, ShapeIsTypeOK DEF TransportsInv, TransportsTypeOK
<1> QED BY <1>1, <1>2, <1>3, PTL DEF TransportsSpec, transportsVars
===============================================================================
