------------------------- MODULE RecordRetentionProofs -------------------------
(***************************************************************************)
(* Theorems about RecordRetention, for every set of records and every      *)
(* policy.                                                                 *)
(***************************************************************************)
EXTENDS RecordRetention, FiniteSetTheorems, FunctionTheorems, TLAPS

(* Within its range, a signed wrap is the identity. *)
LEMMA WrapExact ==
    ASSUME NEW x \in Int, NEW L \in Nat \ {0}, -L <= x, x < L
    PROVE  ((x + L) % (2 * L)) - L = x
<1>1. x + L \in Nat /\ x + L < 2 * L /\ 2 * L \in Nat \ {0}
    OBVIOUS
<1>2. (x + L) % (2 * L) = x + L
    BY <1>1
<1> QED BY <1>2

(* A limit in days that a duration holds. *)
Fits(days) == -DurationLimit <= days * Day /\ days * Day < DurationLimit

AllFit == \A p \in Policies : p.days # None => Fits(p.days)

LEMMA MaxAgeExact ==
    ASSUME NEW days \in Int, Fits(days)
    PROVE  MaxAge(days) = days * Day
<1>1. Day \in Int /\ DurationLimit \in Nat \ {0}
    BY RetentionAssumption
<1>2. days * Day \in Int
    BY <1>1
<1> QED BY <1>1, <1>2, WrapExact DEF MaxAge, Fits

(* A pass under no policy at all, and a policy users write, have limits    *)
(* that are integers.                                                      *)
Written == Policies \cup {NoPolicy}

LEMMA Limits ==
    ASSUME NEW p \in Written
    PROVE  /\ p.count # None => p.count \in Int
           /\ p.days # None => p.days \in Int /\ p \in Policies
BY RetentionAssumption DEF Written, NoPolicy

(* The filter chooses among the records it is given, and lets the count    *)
(* decide only when there are more of them than it allows.                 *)
LEMMA FilterSubset ==
    ASSUME NEW S, NEW p, NEW pos \in Orders(S)
    PROVE  BeyondCount(p, pos) \subseteq S /\ TooOld(p, S) \subseteq S
BY DEF Orders, BeyondCount, TooOld

LEMMA SurplusNeedsExcess ==
    ASSUME NEW S, IsFiniteSet(S), NEW p \in Written, NEW pos \in Orders(S),
           NEW r \in BeyondCount(p, pos)
    PROVE  p.count # None /\ Cardinality(S) > p.count
<1>1. p.count # None /\ r \in DOMAIN pos /\ pos[r] > p.count
    BY DEF BeyondCount
<1>2. p.count \in Int
    BY <1>1, Limits
<1>3. pos[r] \in 1 .. Cardinality(S) /\ Cardinality(S) \in Nat
    BY <1>1, FS_CardinalityType DEF Orders
<1> QED BY <1>1, <1>2, <1>3

LEMMA ExpiredExactly ==
    ASSUME TypeOK, AllFit,
           NEW S, S \subseteq Records, NEW p \in Written, NEW r \in TooOld(p, S)
    PROVE  p.days # None /\ clock > created[r] + p.days * Day
<1>1. p.days # None /\ p.days \in Int /\ p \in Policies
    BY Limits DEF TooOld
<1>2. r \in Records /\ created[r] + MaxAge(p.days) < clock
    BY <1>1 DEF TooOld
<1>3. MaxAge(p.days) = p.days * Day
    BY <1>1, MaxAgeExact DEF AllFit
<1>4. Day \in Int
    BY RetentionAssumption
<1>5. p.days * Day \in Int
    BY <1>1, <1>4
<1> QED BY <1>1, <1>2, <1>3, <1>5 DEF TypeOK

-----------------------------------------------------------------------------

(* Every variable keeps its type; among them: a pass deletes only records  *)
(* it listed.                                                              *)
THEOREM RetentionTypeCorrect ==
    Spec => []TypeOK
<1>1. Init => TypeOK
    <2> SUFFICES ASSUME Init PROVE TypeOK
        OBVIOUS
    <2>1. created \in [Records -> Nat] /\ clock \in Nat
        BY DEF Init
    <2> QED BY <2>1, Zenon DEF Init, TypeOK
<1>2. ASSUME TypeOK, [Next]_vars PROVE TypeOK'
    <2> USE <1>2 DEF TypeOK
    <2>1. CASE ApplyRetentionPolicy
        <3>1. policy' \in Policies \cup {NoPolicy}
            BY <2>1 DEF ApplyRetentionPolicy
        <3>2. PICK pos \in Orders(cached) :
                  todo' \subseteq BeyondCount(policy', pos) \cup TooOld(policy', cached)
            BY <2>1 DEF ApplyRetentionPolicy
        <3>3. todo' \subseteq cached
            BY <3>2, FilterSubset
        <3>4. current' \in BOOLEAN
            BY <2>1, Zenon DEF ApplyRetentionPolicy
        <3> QED BY <2>1, <3>1, <3>3, <3>4 DEF ApplyRetentionPolicy, taskVars
    <2>2. CASE DeleteRecord
        BY <2>2 DEF DeleteRecord, taskVars
    <2>3. CASE EndPass
        BY <2>3 DEF EndPass, taskVars
    <2>4. CASE SyncCache
        BY <2>4 DEF SyncCache, taskVars, passVars
    <2>5. CASE Report
        BY <2>5 DEF Report, taskVars, passVars
    <2>6. CASE Tick
        BY <2>6 DEF Tick, taskVars, passVars
    <2>7. CASE SyncTask
        BY <2>7 DEF SyncTask, passVars
    <2>8. CASE EditTask
        BY <2>8 DEF EditTask, passVars
    <2>9. CASE UNCHANGED vars
        BY <2>9 DEF vars, taskVars, passVars
    <2> QED BY <1>2, <2>1, <2>2, <2>3, <2>4, <2>5, <2>6, <2>7, <2>8, <2>9 DEF Next
<1> QED BY <1>1, <1>2, PTL DEF Spec

-----------------------------------------------------------------------------

(* Whatever is stored, cached or listed has been created, so a report      *)
(* changes the age of none of it.                                          *)
Reported == {r \in Records : created[r] # 0}

ReportedInv ==
    /\ clock # 0
    /\ records \subseteq Reported /\ cached \subseteq Reported /\ listed \subseteq Reported

LEMMA ReportKeepsAges ==
    ASSUME TypeOK, ReportedInv, Report
    PROVE  /\ \A r \in Reported : created'[r] = created[r]
           /\ Reported \subseteq Reported' /\ records' \subseteq Reported'
           /\ records \subseteq records'
<1>1. PICK r \in Records :
          /\ created[r] = 0
          /\ created' = [created EXCEPT ![r] = clock]
          /\ records' = records \cup {r}
    BY DEF Report
<1>2. /\ created \in [Records -> Nat] /\ clock # 0
      /\ \A q \in Records : q # r => created'[q] = created[q]
      /\ created'[r] = clock
    BY <1>1 DEF TypeOK, ReportedInv
<1> QED BY <1>1, <1>2 DEF Reported, ReportedInv

LEMMA ReportedInvariant ==
    Spec => []ReportedInv
<1>1. Init => ReportedInv
    BY DEF Init, ReportedInv
<1>2. ASSUME TypeOK, ReportedInv, [Next]_vars PROVE ReportedInv'
    <2>1. CASE Report
        BY <1>2, <2>1, ReportKeepsAges DEF Report, ReportedInv, passVars
    <2>2. CASE Tick
        <3>1. clock' # 0 /\ UNCHANGED <<created, records, cached, listed>>
            BY <1>2, <2>2 DEF Tick, TypeOK, passVars
        <3> QED BY <1>2, <3>1 DEF ReportedInv, Reported
    <2>3. CASE ApplyRetentionPolicy \/ DeleteRecord \/ EndPass \/ SyncCache
        <3>1. /\ UNCHANGED <<clock, created>>
              /\ records' \subseteq records /\ cached' \subseteq cached \cup records
              /\ listed' \subseteq listed \cup cached
            BY <2>3 DEF ApplyRetentionPolicy, DeleteRecord, EndPass, SyncCache, passVars
        <3> QED BY <1>2, <3>1 DEF ReportedInv, Reported
    <2>4. CASE SyncTask \/ EditTask \/ UNCHANGED vars
        <3>1. UNCHANGED <<clock, created, records, cached, listed>>
            BY <2>4 DEF SyncTask, EditTask, vars, passVars
        <3> QED BY <1>2, <3>1 DEF ReportedInv, Reported
    <2> QED BY <1>2, <2>1, <2>2, <2>3, <2>4 DEF Next
<1> QED BY <1>1, <1>2, RetentionTypeCorrect, PTL DEF Spec

-----------------------------------------------------------------------------

(* What a pass still has to delete is justified by its policy, and stays   *)
(* so to the end of the pass: policy and list are the pass's own, creation *)
(* times do not change, and the clock does not go back.                    *)
Justified(r) ==
    \/ policy.days # None /\ clock > created[r] + policy.days * Day
    \/ policy.count # None /\ Cardinality(listed) > policy.count

JustifiedInv ==
    /\ pc = "idle" => todo = {}
    /\ \A r \in todo : r \in Reported /\ Justified(r)

LEMMA JustifiedInvariant ==
    ASSUME AllFit
    PROVE  Spec => []JustifiedInv
<1>1. Init => JustifiedInv
    BY DEF Init, JustifiedInv
<1>2. ASSUME TypeOK, ReportedInv, JustifiedInv, [Next]_vars PROVE JustifiedInv'
    <2>1. CASE ApplyRetentionPolicy
        <3>1. /\ policy' \in Written /\ listed' = cached /\ pc' = "delete"
              /\ UNCHANGED <<clock, created, records, cached>>
            BY <1>2, <2>1 DEF ApplyRetentionPolicy, TypeOK, Written
        <3>2. PICK pos \in Orders(cached) :
                  todo' \subseteq BeyondCount(policy', pos) \cup TooOld(policy', cached)
            BY <2>1 DEF ApplyRetentionPolicy
        <3>3. cached \subseteq Records /\ IsFiniteSet(cached)
            BY <1>2, RetentionAssumption, FS_Subset DEF TypeOK
        <3>4. ASSUME NEW r \in todo' PROVE (r \in Reported /\ Justified(r))'
            <4>1. r \in Reported'
                BY <1>2, <3>1, <3>2, FilterSubset DEF ReportedInv, Reported
            <4>2. CASE r \in BeyondCount(policy', pos)
                BY <3>1, <3>3, <4>1, <4>2, SurplusNeedsExcess DEF Justified
            <4>3. CASE r \in TooOld(policy', cached)
                BY <1>2, <3>1, <3>3, <4>1, <4>3, ExpiredExactly DEF Justified
            <4> QED BY <3>2, <4>2, <4>3
        <3> QED BY <1>2, <3>1, <3>4 DEF JustifiedInv, Reported
    <2>2. CASE DeleteRecord
        BY <1>2, <2>2 DEF DeleteRecord, JustifiedInv, Justified, Reported
    <2>3. CASE EndPass
        BY <1>2, <2>3 DEF EndPass, JustifiedInv, Reported, taskVars
    <2>4. CASE SyncCache
        BY <1>2, <2>4 DEF SyncCache, JustifiedInv, Justified, Reported, passVars
    <2>5. CASE Report
        <3>1. UNCHANGED <<clock, pc, policy, listed, todo>>
            BY <2>5 DEF Report, passVars
        <3> QED BY <1>2, <2>5, <3>1, ReportKeepsAges DEF JustifiedInv, Justified
    <2>6. CASE Tick
        <3>1. /\ clock' = clock + 1 /\ clock \in Nat
              /\ UNCHANGED <<created, records, cached, pc, policy, listed, todo>>
            BY <1>2, <2>6 DEF Tick, TypeOK, passVars
        <3>2. ASSUME NEW r \in todo PROVE Justified(r)'
            <4>1. r \in Records /\ created[r] \in Nat /\ Justified(r)
                BY <1>2, <3>2 DEF JustifiedInv, TypeOK, Reported
            <4>2. policy \in Written /\ Day \in Int
                BY <1>2, RetentionAssumption DEF TypeOK, Written
            <4>3. policy.days # None => policy.days * Day \in Int
                BY <4>2, Limits
            <4> QED BY <3>1, <4>1, <4>3 DEF Justified
        <3> QED BY <1>2, <3>1, <3>2 DEF JustifiedInv, Reported
    <2>7. CASE SyncTask \/ EditTask \/ UNCHANGED vars
        <3>1. UNCHANGED <<clock, created, records, cached, pc, policy, listed, todo>>
            BY <2>7 DEF SyncTask, EditTask, vars, passVars
        <3> QED BY <1>2, <3>1 DEF JustifiedInv, Justified, Reported
    <2> QED BY <1>2, <2>1, <2>2, <2>3, <2>4, <2>5, <2>6, <2>7 DEF Next
<1> QED BY <1>1, <1>2, RetentionTypeCorrect, ReportedInvariant, PTL DEF Spec

(* Every deletion is justified: the record is past its days, or the pass   *)
(* had a longer list than maxBackupCount.  For any number of records, any  *)
(* policies whose days fit a duration, however stale and however ordered   *)
(* the lists, and however often deletions fail.                            *)
THEOREM Justification ==
    ASSUME AllFit
    PROVE  Spec => DeletionsJustified
<1>1. ASSUME JustifiedInv, [Next]_vars
      PROVE  [\A r \in Deleted :
                 \/ policy.days # None /\ clock > created[r] + policy.days * Day
                 \/ policy.count # None /\ Cardinality(listed) > policy.count]_vars
    <2>1. Deleted \subseteq todo
        BY <1>1 DEF Next, Deleted, ApplyRetentionPolicy, DeleteRecord, EndPass, SyncCache,
                    SyncTask, Report, EditTask, Tick, vars
    <2> QED BY <1>1, <2>1 DEF JustifiedInv, Justified
<1> QED BY <1>1, JustifiedInvariant, PTL DEF Spec, DeletionsJustified

-----------------------------------------------------------------------------

(* Positions are a numbering of the list, so at least count records come   *)
(* within the first count, or all there are.                               *)
LEMMA FirstKept ==
    ASSUME NEW S, IsFiniteSet(S), NEW pos \in Orders(S), NEW p \in Written,
           p.count # None, ~Panics(p)
    PROVE  LET kept == S \ BeyondCount(p, pos)
           IN  kept = S \/ Cardinality(kept) >= p.count
<1> DEFINE n == Cardinality(S)
           kept == S \ BeyondCount(p, pos)
<1>1. n \in Nat /\ p.count \in Nat
    BY FS_CardinalityType, Limits DEF Panics
<1>2. pos \in [S -> 1 .. n] /\ \A r, q \in S : pos[r] = pos[q] => r = q
    BY DEF Orders
<1>3. kept = {r \in S : pos[r] <= p.count}
    BY <1>1, <1>2 DEF BeyondCount
<1>4. CASE n <= p.count
    BY <1>1, <1>2, <1>3, <1>4
<1>5. CASE p.count < n
    <2>1. IsFiniteSet(1 .. n) /\ Cardinality(1 .. n) = n
        BY <1>1, FS_Interval
    <2>2. pos \in Injection(S, 1 .. n)
        BY <1>2, Fun_IsInj
    <2>3. pos \in Surjection(S, 1 .. n)
        BY <2>1, <2>2, FS_Injection
    <2>4. \A i \in 1 .. n : \E r \in S : pos[r] = i
        BY <2>3 DEF Surjection
    <2> DEFINE first == [r \in {q \in kept : pos[q] \in 1 .. p.count} |-> pos[r]]
    <2>5. first \in Surjection(DOMAIN first, 1 .. p.count)
        <3>1. first \in [DOMAIN first -> 1 .. p.count]
            OBVIOUS
        <3>2. \A i \in 1 .. p.count : \E r \in DOMAIN first : first[r] = i
            BY <1>1, <1>3, <1>5, <2>4
        <3> QED BY <3>1, <3>2, Fun_IsSurj
    <2>6. IsFiniteSet(kept) /\ DOMAIN first \in SUBSET kept
        BY FS_Subset
    <2>7. /\ IsFiniteSet(DOMAIN first)
          /\ Cardinality(DOMAIN first) <= Cardinality(kept)
        BY <2>6, FS_Subset
    <2>8. Cardinality(1 .. p.count) <= Cardinality(DOMAIN first)
        BY <2>5, <2>7, FS_Surjection
    <2>9. Cardinality(1 .. p.count) = p.count
        BY <1>1, FS_Interval
    <2> QED BY <1>1, <2>6, <2>7, <2>8, <2>9, FS_CardinalityType
<1> QED BY <1>1, <1>4, <1>5

(* What a pass is to keep: enough of its list, of which it will delete     *)
(* only what is too old, and which is still stored, or too old by now.     *)
Kept(K) ==
    /\ K \subseteq (records \cap listed) \cup TooOld(policy, listed)
    /\ K \cap todo \subseteq TooOld(policy, listed)
    /\ policy.count # None => K = listed \/ Cardinality(K) >= policy.count

KeptInv == pc = "delete" /\ current => \E K : Kept(K)

(* Records on the list only grow older. *)
LEMMA AgesGrow ==
    ASSUME TypeOK, ReportedInv, policy' = policy, listed' = listed, clock' \in Nat,
           clock' >= clock, \A r \in Reported : created'[r] = created[r]
    PROVE  TooOld(policy, listed) \subseteq TooOld(policy, listed)'
<1> SUFFICES ASSUME NEW r \in TooOld(policy, listed)
             PROVE  r \in TooOld(policy, listed)'
    OBVIOUS
<1>1. policy \in Written /\ clock \in Nat /\ listed \subseteq Records
    BY DEF TypeOK, Written
<1>2. policy.days # None /\ r \in listed /\ created[r] + MaxAge(policy.days) < clock
    BY DEF TooOld
<1>3. created[r] \in Nat /\ created'[r] = created[r]
    BY <1>1, <1>2 DEF TypeOK, ReportedInv
<1>4. MaxAge(policy.days) \in Int
    BY <1>1, <1>2, Limits, RetentionAssumption DEF MaxAge
<1>5. created'[r] + MaxAge(policy.days) < clock'
    BY <1>1, <1>2, <1>3, <1>4
<1>6. MaxAge(policy'.days) = MaxAge(policy.days)
    OBVIOUS
<1> QED BY <1>2, <1>5, <1>6 DEF TooOld

LEMMA KeptInvariant ==
    Spec => []KeptInv
<1>1. Init => KeptInv
    BY DEF Init, KeptInv
<1>2. ASSUME TypeOK, ReportedInv, KeptInv, [Next]_vars PROVE KeptInv'
    <2>1. CASE ApplyRetentionPolicy
        <3> SUFFICES ASSUME current' PROVE \E K : Kept(K)'
            BY DEF KeptInv
        <3>1. /\ policy' \in Written /\ listed' = cached /\ records' = cached
              /\ UNCHANGED <<clock, created>>
            BY <1>2, <2>1 DEF ApplyRetentionPolicy, TypeOK, Written
        <3>2. PICK pos \in Orders(cached) :
                  todo' = IF Panics(policy') THEN {}
                          ELSE BeyondCount(policy', pos) \cup TooOld(policy', cached)
            BY <2>1 DEF ApplyRetentionPolicy
        <3>3. IsFiniteSet(cached)
            BY <1>2, RetentionAssumption, FS_Subset DEF TypeOK
        <3>4. TooOld(policy, listed)' = TooOld(policy', cached)
            BY <3>1 DEF TooOld
        <3>5. PICK K : K = IF Panics(policy') THEN cached
                           ELSE cached \ BeyondCount(policy', pos)
            OBVIOUS
        <3>6. policy'.count # None => K = cached \/ Cardinality(K) >= policy'.count
            BY <3>1, <3>3, <3>5, FirstKept
        <3>7. K \subseteq cached /\ K \cap todo' \subseteq TooOld(policy', cached)
            BY <3>2, <3>5
        <3>8. Kept(K)'
            BY <3>1, <3>4, <3>6, <3>7 DEF Kept
        <3> QED BY <3>8
    <2>2. CASE DeleteRecord
        <3> SUFFICES ASSUME current PROVE \E K : Kept(K)'
            BY <2>2 DEF KeptInv, DeleteRecord
        <3>1. PICK K : Kept(K)
            BY <1>2, <2>2 DEF KeptInv, DeleteRecord
        <3>2. PICK r \in todo : todo' = todo \ {r} /\ records \ {r} \subseteq records'
            BY <2>2 DEF DeleteRecord
        <3>3. UNCHANGED <<policy, listed>> /\ TooOld(policy, listed)' = TooOld(policy, listed)
            BY <2>2 DEF DeleteRecord, TooOld, MaxAge
        <3>4. Kept(K)'
            BY <3>1, <3>2, <3>3 DEF Kept
        <3> QED BY <3>4
    <2>3. CASE EndPass
        BY <2>3 DEF EndPass, KeptInv
    <2>4. CASE SyncCache \/ SyncTask \/ Report \/ EditTask \/ Tick \/ UNCHANGED vars
        <3> SUFFICES ASSUME pc = "delete", current PROVE \E K : Kept(K)'
            BY <2>4 DEF KeptInv, SyncCache, SyncTask, Report, EditTask, Tick, vars, passVars
        <3>1. PICK K : Kept(K)
            BY <1>2 DEF KeptInv
        <3>2. /\ UNCHANGED <<policy, listed, todo>>
              /\ clock' = clock \/ clock' = clock + 1
            BY <2>4 DEF SyncCache, SyncTask, Report, EditTask, Tick, vars, passVars
        <3>3. records \subseteq records' /\ \A r \in Reported : created'[r] = created[r]
            <4>1. CASE Report
                BY <1>2, <4>1, ReportKeepsAges
            <4>2. CASE UNCHANGED <<records, created>>
                BY <4>2
            <4> QED BY <2>4, <4>1, <4>2 DEF SyncCache, SyncTask, EditTask, Tick, vars
        <3>4. TooOld(policy, listed) \subseteq TooOld(policy, listed)'
            <4>1. clock' \in Nat /\ clock' >= clock
                BY <1>2, <3>2 DEF TypeOK
            <4> QED BY <1>2, <3>2, <3>3, <4>1, AgesGrow
        <3>5. Kept(K)'
            BY <3>1, <3>2, <3>3, <3>4 DEF Kept
        <3> QED BY <3>5
    <2> QED BY <1>2, <2>1, <2>2, <2>3, <2>4 DEF Next
<1> QED BY <1>1, <1>2, RetentionTypeCorrect, ReportedInvariant, PTL DEF Spec

(* A pass that began on a current list leaves at least maxBackupCount of   *)
(* the records it saw, but for those past their age, at every moment of    *)
(* its loop: for any list, in any order, and any policy, whatever agents   *)
(* report and users edit meanwhile.                                        *)
THEOREM CountKept ==
    Spec => []CurrentPassKeepsCount
<1>1. ASSUME TypeOK, KeptInv PROVE CurrentPassKeepsCount
    <2> DEFINE left == (records \cap listed) \cup TooOld(policy, listed)
    <2> SUFFICES ASSUME pc = "delete", current, policy.count # None
                 PROVE  \/ Cardinality(left) >= policy.count
                        \/ Cardinality(left) = Cardinality(listed)
        BY DEF CurrentPassKeepsCount
    <2>1. PICK K : Kept(K)
        BY <1>1 DEF KeptInv
    <2>2. K \in SUBSET left /\ left \subseteq listed
        BY <2>1 DEF Kept, TooOld
    <2>3. IsFiniteSet(left) /\ IsFiniteSet(K)
        BY <1>1, <2>2, RetentionAssumption, FS_Subset DEF TypeOK
    <2>4. /\ Cardinality(K) \in Nat /\ Cardinality(left) \in Nat
          /\ Cardinality(K) <= Cardinality(left)
        BY <2>2, <2>3, FS_Subset, FS_CardinalityType
    <2>5. policy.count \in Int
        BY <1>1, Limits DEF TypeOK, Written
    <2>6. CASE K = listed
        BY <2>2, <2>6
    <2>7. CASE Cardinality(K) >= policy.count
        BY <2>4, <2>5, <2>7
    <2> QED BY <2>1, <2>6, <2>7 DEF Kept
<1> QED BY <1>1, KeptInvariant, RetentionTypeCorrect, PTL

-----------------------------------------------------------------------------

(* No more records come within the first count than count. *)
LEMMA NoMoreKept ==
    ASSUME NEW S, IsFiniteSet(S), NEW pos \in Orders(S), NEW p \in Written,
           p.count # None, ~Panics(p)
    PROVE  Cardinality(S \ BeyondCount(p, pos)) <= p.count
<1> DEFINE kept == S \ BeyondCount(p, pos)
           place == [r \in kept |-> pos[r]]
<1>1. p.count \in Nat /\ Cardinality(S) \in Nat
    BY FS_CardinalityType, Limits DEF Panics
<1>2. pos \in [S -> 1 .. Cardinality(S)] /\ \A r, q \in S : pos[r] = pos[q] => r = q
    BY DEF Orders
<1>3. place \in [kept -> 1 .. p.count]
    BY <1>1, <1>2 DEF BeyondCount
<1>4. place \in Injection(kept, 1 .. p.count)
    BY <1>2, <1>3, Fun_IsInj
<1>5. IsFiniteSet(1 .. p.count) /\ Cardinality(1 .. p.count) = p.count
    <2>1. 1 \in Int /\ p.count \in Int /\ p.count >= 0
        BY <1>1
    <2> HIDE DEF kept, place
    <2>2. /\ IsFiniteSet(1 .. p.count)
          /\ Cardinality(1 .. p.count) = IF 1 > p.count THEN 0 ELSE p.count - 1 + 1
        BY <2>1, FS_Interval
    <2> QED BY <2>1, <2>2
<1> QED BY <1>4, <1>5, FS_Injection

(* What the filter chooses from a list that comes newest first is what a   *)
(* policy means: exactly the surplus, the oldest of it, and exactly the    *)
(* records past their days, for any list and any policy whose days fit a   *)
(* duration.                                                               *)
THEOREM FilterRight ==
    ASSUME AllFit
    PROVE  Spec => []FilterRightWhenSorted
<1>1. ASSUME TypeOK PROVE FilterRightWhenSorted
    <2> SUFFICES ASSUME NEW p \in Policies, NEW pos \in Orders(cached),
                        NewestFirst(pos), ~Panics(p)
                 PROVE  LET surplus == BeyondCount(p, pos)
                            kept    == cached \ surplus
                        IN  /\ p.count # None =>
                                  \/ Cardinality(kept) = p.count
                                  \/ kept = cached /\ Cardinality(kept) < p.count
                            /\ \A r \in surplus, q \in kept : created[q] >= created[r]
                            /\ p.days # None =>
                                  TooOld(p, cached) =
                                      {r \in cached : clock - created[r] > p.days * Day}
        BY DEF FilterRightWhenSorted
    <2> DEFINE surplus == BeyondCount(p, pos)
               kept    == cached \ surplus
    <2>1. p \in Written /\ cached \subseteq Records /\ IsFiniteSet(cached)
        BY <1>1, RetentionAssumption, FS_Subset DEF TypeOK, Written
    <2>2. ASSUME p.count # None
          PROVE  \/ Cardinality(kept) = p.count
                 \/ kept = cached /\ Cardinality(kept) < p.count
        <3>1. Cardinality(kept) \in Nat
            BY <2>1, FS_Subset, FS_CardinalityType
        <3>2. p.count \in Int
            BY <2>1, <2>2, Limits
        <3>3. kept = cached \/ Cardinality(kept) >= p.count
            BY <2>1, <2>2, FirstKept
        <3>4. Cardinality(kept) <= p.count
            BY <2>1, <2>2, NoMoreKept
        <3> HIDE DEF kept
        <3> QED BY <3>1, <3>2, <3>3, <3>4
    <2>3. ASSUME NEW r \in surplus, NEW q \in kept
          PROVE  created[q] >= created[r]
        <3>1. /\ p.count # None /\ r \in cached /\ q \in cached
              /\ pos[r] > p.count /\ ~(pos[q] > p.count)
            BY DEF BeyondCount, Orders
        <3>2. pos[r] \in Int /\ pos[q] \in Int /\ p.count \in Int
            BY <2>1, <3>1, FS_CardinalityType, Limits DEF Orders
        <3>3. DOMAIN pos = cached
            BY DEF Orders
        <3>4. ~(created[r] > created[q])
            BY <3>1, <3>2, <3>3 DEF NewestFirst
        <3>5. created[r] \in Nat /\ created[q] \in Nat
            BY <1>1, <2>1, <3>1 DEF TypeOK
        <3> QED BY <3>4, <3>5
    <2>4. ASSUME p.days # None
          PROVE  TooOld(p, cached) = {r \in cached : clock - created[r] > p.days * Day}
        <3>1. p.days \in Int /\ Day \in Int
            BY <2>1, <2>4, Limits, RetentionAssumption
        <3>2. p.days * Day \in Int /\ MaxAge(p.days) = p.days * Day
            BY <2>4, <3>1, MaxAgeExact DEF AllFit
        <3>3. clock \in Int /\ \A r \in cached : created[r] \in Int
            BY <1>1, <2>1 DEF TypeOK
        <3> QED BY <2>4, <3>2, <3>3 DEF TooOld
    <2> QED BY <2>2, <2>3, <2>4
<1> QED BY <1>1, RetentionTypeCorrect, PTL
=============================================================================
