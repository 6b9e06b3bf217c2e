--------------------------- MODULE Modules_proofs ---------------------------
(***************************************************************************)
(* Proofs about DynImport for any number of modules and imports, about     *)
(* ModuleLoad for any number of loads, names and sites, and about Startup  *)
(* for any plan whose runtimes extend their snapshots.                     *)
(*                                                                         *)
(* DynImport.  An import that is under way is in exactly one place (being  *)
(* prepared, being loaded, being evaluated, or once on one of the three    *)
(* lists), and the lists that poll_progress does not hold at a step are    *)
(* empty.                                                                  *)
(***************************************************************************)
EXTENDS DynImport, ModuleLoad, Startup, Sequence_lemmas, SequenceTheorems

Distinct(s) == \A i, j \in DOMAIN s : s[i] = s[j] => i = j

ImportTypes ==
  /\ calls \in 0 .. MaxImports /\ target \in [Ids -> Modules \cup {None}]
  /\ promise \in [Ids -> {"none", "pending", "resolved", "rejected"}]
  /\ status \in [Modules -> StatusType]
  /\ source_phase \in SUBSET Ids /\ dynamic_import_map \in SUBSET Ids
  /\ preparing \in SUBSET Ids /\ loading \in SUBSET Ids /\ early \in SUBSET Ids
  /\ pending \in Seq(Ids) /\ batch \in Seq(Ids) /\ still_pending \in Seq(Ids)
  /\ waiters \in [Modules -> SUBSET Ids]
  /\ pc \in {"outside", "prepare", "load", "evaluated", "evaluate"}
  /\ current \in 0 .. MaxImports

ImportFlags ==
  /\ preparing_flag \in BOOLEAN /\ loading_flag \in BOOLEAN /\ pending_flag \in BOOLEAN
  /\ js \in BOOLEAN /\ resolved_any \in BOOLEAN /\ has_evaluated \in BOOLEAN
  /\ woken \in BOOLEAN

(* Ids above `calls` are new, the others name a module. *)
NewIdsAreNew ==
  /\ UnderWay \subseteq 1 .. calls
  /\ \A id \in Ids : promise[id] = "pending" => id <= calls
  /\ \A id \in 1 .. calls : target[id] \in Modules
  /\ \A m \in Modules : \A id \in waiters[m] : id <= calls /\ target[id] = m

(* No import is in two places, or twice on a list. *)
OnePlace ==
  /\ preparing \cap loading = {} /\ (preparing \cup loading) \cap Evaluating = {}
  /\ current \notin preparing \cup loading \cup Evaluating
  /\ Members(pending) \cap Members(batch) = {}
  /\ Members(pending) \cap Members(still_pending) = {}
  /\ Members(batch) \cap Members(still_pending) = {}
  /\ Distinct(pending) /\ Distinct(batch) /\ Distinct(still_pending)
  /\ \A m \in Modules : waiters[m] \cap UnderWay = {}

(* What each step of poll_progress holds. *)
Stages ==
  /\ pc # "evaluate" => batch = <<>> /\ still_pending = <<>>
  /\ pc = "evaluate" => pending = <<>>
  /\ pc = "evaluated" <=> current # 0

ImportIInv ==
  /\ ImportTypes /\ NewIdsAreNew /\ OnePlace /\ Stages
  /\ UnderWayIsUnsettled /\ NoImportForgotten /\ WaitersAreServed /\ FlagsCoverImports

----------------------------------------------------------------------------
(* Lists. *)
LEMMA AppendedList ==
  ASSUME NEW S, NEW s \in Seq(S), NEW x \in S
  PROVE  /\ Append(s, x) \in Seq(S) /\ Members(Append(s, x)) = Members(s) \cup {x}
         /\ Distinct(s) /\ x \notin Members(s) => Distinct(Append(s, x))
<1> DEFINE t == Append(s, x)
<1>1. /\ t \in Seq(S) /\ Len(t) = Len(s) + 1 /\ Len(s) \in Nat
      /\ DOMAIN s = 1 .. Len(s) /\ DOMAIN t = 1 .. Len(s) + 1
      /\ \A i \in 1 .. Len(s) : t[i] = s[i]
      /\ t[Len(s) + 1] = x
  OBVIOUS
<1> HIDE DEF t
<1>2. Members(t) = Members(s) \cup {x}
  BY <1>1 DEF Members
<1>3. Distinct(s) /\ x \notin Members(s) => Distinct(t)
  BY <1>1 DEF Distinct, Members
<1> QED BY <1>1, <1>2, <1>3 DEF t

LEMMA TailOfList ==
  ASSUME NEW S, NEW s \in Seq(S), s # <<>>
  PROVE  /\ Tail(s) \in Seq(S) /\ Head(s) \in Members(s) /\ Head(s) \in S
         /\ Members(s) = Members(Tail(s)) \cup {Head(s)}
         /\ Distinct(s) => Distinct(Tail(s)) /\ Head(s) \notin Members(Tail(s))
<1> DEFINE t == Tail(s)
<1>1. /\ t \in Seq(S) /\ Len(t) = Len(s) - 1 /\ Len(s) \in Nat \ {0}
      /\ DOMAIN s = 1 .. Len(s) /\ DOMAIN t = 1 .. Len(s) - 1
      /\ \A i \in 1 .. Len(s) - 1 : t[i] = s[i + 1]
      /\ Head(s) = s[1] /\ Head(s) \in S
  OBVIOUS
<1> HIDE DEF t
<1>2. Members(s) = Members(t) \cup {Head(s)} /\ Head(s) \in Members(s)
  <2>1. \A i \in DOMAIN s : i = 1 \/ (i - 1 \in DOMAIN t /\ s[i] = t[i - 1])
    BY <1>1
  <2>2. \A i \in DOMAIN t : i + 1 \in DOMAIN s /\ t[i] = s[i + 1]
    BY <1>1
  <2>3. 1 \in DOMAIN s
    BY <1>1
  <2>4. Members(s) \subseteq Members(t) \cup {Head(s)}
    <3> SUFFICES ASSUME NEW i \in DOMAIN s PROVE s[i] \in Members(t) \cup {Head(s)}
      BY DEF Members
    <3>1. CASE i = 1
      BY <1>1, <3>1
    <3>2. CASE i # 1
      BY <2>1, <3>2 DEF Members
    <3> QED BY <3>1, <3>2
  <2>5. Members(t) \subseteq Members(s)
    BY <2>2 DEF Members
  <2>6. Head(s) \in Members(s)
    BY <1>1, <2>3 DEF Members
  <2> QED BY <2>4, <2>5, <2>6
<1>3. Distinct(s) => Distinct(t) /\ Head(s) \notin Members(t)
  <2> SUFFICES ASSUME Distinct(s) PROVE Distinct(t) /\ Head(s) \notin Members(t)
    OBVIOUS
  <2>1. ASSUME NEW i \in DOMAIN t, NEW j \in DOMAIN t, t[i] = t[j] PROVE i = j
    <3>1. i + 1 \in DOMAIN s /\ j + 1 \in DOMAIN s /\ s[i + 1] = s[j + 1]
      BY <1>1, <2>1
    <3>2. i + 1 = j + 1
      BY <3>1 DEF Distinct
    <3> QED BY <1>1, <3>2
  <2>2. ASSUME NEW i \in DOMAIN t PROVE t[i] # Head(s)
    BY <1>1 DEF Distinct
  <2> QED BY <2>1, <2>2 DEF Distinct, Members
<1> QED BY <1>1, <1>2, <1>3 DEF t

LEMMA EmptyList ==
  /\ Members(<<>>) = {} /\ Distinct(<<>>) /\ \A S : <<>> \in Seq(S)
  /\ \A S : \A s \in Seq(S) : Members(s) \subseteq S /\ (Members(s) = {} => s = <<>>)
<1>1. Members(<<>>) = {} /\ Distinct(<<>>) /\ \A S : <<>> \in Seq(S)
  BY DEF Members, Distinct
<1>2. ASSUME NEW S, NEW s \in Seq(S) PROVE Members(s) \subseteq S /\ (Members(s) = {} => s = <<>>)
  <2>1. Members(s) \subseteq S
    BY DEF Members
  <2>2. ASSUME s # <<>> PROVE Members(s) # {}
    BY <2>2, TailOfList
  <2> QED BY <2>1, <2>2
<1> QED BY <1>1, <1>2

LEMMA IdFacts ==
  ASSUME ImportIInv
  PROVE  /\ Ids \subseteq Nat /\ 0 \notin Ids /\ 1 .. calls \subseteq Ids /\ calls \in Nat
         /\ calls < MaxImports => calls + 1 \in Ids /\ calls + 1 # 0
         /\ calls + 1 \notin UnderWay /\ 0 \notin Evaluating
         /\ \A id \in UnderWay : id \in Ids /\ target[id] \in Modules
<1>1. /\ Ids \subseteq Nat /\ 0 \notin Ids /\ 1 .. calls \subseteq Ids /\ calls \in Nat
      /\ calls < MaxImports => calls + 1 \in Ids /\ calls + 1 # 0
  BY ImportAssumption DEF ImportIInv, ImportTypes, Ids
<1>2. UnderWay \subseteq 1 .. calls /\ \A id \in 1 .. calls : target[id] \in Modules
  BY DEF ImportIInv, NewIdsAreNew
<1>3. Evaluating \subseteq UnderWay
  BY DEF UnderWay
<1> QED BY <1>1, <1>2, <1>3

LEMMA PendingIsCalled ==
  ASSUME ImportIInv, NEW id \in Ids, promise[id] = "pending"
  PROVE  id \in 1 .. calls /\ target[id] \in Modules
BY IdFacts DEF ImportIInv, NewIdsAreNew, Ids

----------------------------------------------------------------------------
LEMMA ImportInitial == Init => ImportIInv
<1> SUFFICES ASSUME Init PROVE ImportIInv
  OBVIOUS
<1>1. Evaluating = {} /\ UnderWay = {}
  BY EmptyList DEF Init, Evaluating, UnderWay
<1>2. ImportTypes
  BY ImportAssumption, EmptyList DEF Init, ImportTypes, StatusType, Ids
<1>3. NewIdsAreNew
  BY <1>1 DEF Init, NewIdsAreNew
<1>4. OnePlace
  BY <1>1, EmptyList DEF Init, OnePlace
<1>5. Stages
  BY DEF Init, Stages
<1>6. UnderWayIsUnsettled /\ NoImportForgotten /\ WaitersAreServed /\ FlagsCoverImports
  BY <1>1 DEF Init, UnderWayIsUnsettled, NoImportForgotten, WaitersAreServed, FlagsCoverImports
<1> QED BY <1>2, <1>3, <1>4, <1>5, <1>6 DEF ImportIInv

----------------------------------------------------------------------------
(* Imports move from one place to the next, or stay. *)
LEMMA MoveKeeps ==
  ASSUME ImportIInv, UNCHANGED <<calls, target, promise, dynamic_import_map, waiters>>,
         UnderWay' = UnderWay, Evaluating \subseteq Evaluating'
  PROVE  /\ NewIdsAreNew' /\ UnderWayIsUnsettled' /\ NoImportForgotten' /\ WaitersAreServed'
         /\ \A m \in Modules : waiters'[m] \cap UnderWay' = {}
BY DEF ImportIInv, NewIdsAreNew, UnderWayIsUnsettled, NoImportForgotten, WaitersAreServed, OnePlace

LEMMA StayKeeps ==
  ASSUME ImportIInv,
         UNCHANGED <<calls, target, promise, dynamic_import_map, waiters, preparing, loading,
                     pending, batch, still_pending, current>>
  PROVE  /\ NewIdsAreNew' /\ UnderWayIsUnsettled' /\ NoImportForgotten' /\ WaitersAreServed'
         /\ OnePlace' /\ Evaluating' = Evaluating
<1>1. Evaluating' = Evaluating /\ UnderWay' = UnderWay
  BY DEF Evaluating, UnderWay
<1>2. OnePlace'
  BY <1>1 DEF ImportIInv, OnePlace
<1> QED BY <1>1, <1>2, MoveKeeps

(* An import is answered without an evaluation. *)
LEMMA AnswerKeeps ==
  ASSUME ImportIInv, NEW id, NEW r \in {"resolved", "rejected"},
         \/ id \in preparing /\ preparing' = preparing \ {id} /\ loading' = loading
         \/ id \in loading /\ loading' = loading \ {id} /\ preparing' = preparing,
         promise' = [promise EXCEPT ![id] = r],
         dynamic_import_map' \in {dynamic_import_map, dynamic_import_map \ {id}},
         UNCHANGED <<calls, target, source_phase, status, waiters, pending, batch, still_pending,
                     current, early, pc, preparing_flag, loading_flag, pending_flag>>
  PROVE  ImportIInv'
<1>1. id \in Ids /\ id \in UnderWay /\ id # 0
  BY IdFacts DEF UnderWay
<1>2. Evaluating' = Evaluating /\ UnderWay' = UnderWay \ {id}
  <2>1. Evaluating' = Evaluating
    BY DEF Evaluating
  <2>2. id \notin Evaluating /\ id # current /\ ~(id \in preparing /\ id \in loading)
    BY DEF ImportIInv, OnePlace
  <2> QED BY <2>1, <2>2 DEF UnderWay
<1>3. /\ promise' \in [Ids -> {"none", "pending", "resolved", "rejected"}]
      /\ promise'[id] = r /\ \A i \in Ids \ {id} : promise'[i] = promise[i]
  BY <1>1 DEF ImportIInv, ImportTypes
<1>4. ImportTypes'
  BY <1>3 DEF ImportIInv, ImportTypes
<1>5. NewIdsAreNew'
  BY <1>2, <1>3 DEF ImportIInv, NewIdsAreNew
<1>6. OnePlace'
  BY <1>2 DEF ImportIInv, OnePlace
<1>7. Stages'
  BY DEF ImportIInv, Stages
<1>8. UnderWayIsUnsettled'
  BY <1>2, <1>3, IdFacts DEF ImportIInv, UnderWayIsUnsettled
<1>9. NoImportForgotten'
  BY <1>2, <1>3 DEF ImportIInv, NoImportForgotten
<1>10. WaitersAreServed' /\ FlagsCoverImports'
  BY <1>2 DEF ImportIInv, WaitersAreServed, FlagsCoverImports
<1> QED BY <1>4, <1>5, <1>6, <1>7, <1>8, <1>9, <1>10 DEF ImportIInv

(* A new import: calls + 1 names m. *)
LEMMA CallFacts ==
  ASSUME ImportIInv, NEW m \in Modules, Call(m)
  PROVE  /\ calls + 1 \in Ids /\ calls' = calls + 1 /\ calls' \in 0 .. MaxImports
         /\ target' \in [Ids -> Modules \cup {None}] /\ target'[calls + 1] = m
         /\ \A id \in Ids \ {calls + 1} : target'[id] = target[id]
         /\ \A id \in 1 .. calls' : target'[id] \in Modules
         /\ \A id \in 1 .. calls : target'[id] = target[id] /\ id \in 1 .. calls' /\ id # calls + 1
<1>1. calls + 1 \in Ids /\ calls' = calls + 1 /\ calls' \in 0 .. MaxImports /\ calls \in Nat
  BY IdFacts, ImportAssumption DEF Call, ImportIInv, ImportTypes
<1>2. /\ target' \in [Ids -> Modules \cup {None}] /\ target'[calls + 1] = m
      /\ \A id \in Ids \ {calls + 1} : target'[id] = target[id]
  BY <1>1 DEF Call, ImportIInv, ImportTypes
<1>3. \A id \in 1 .. calls : target'[id] = target[id] /\ id \in 1 .. calls' /\ id # calls + 1
  BY <1>1, <1>2, IdFacts
<1>4. \A id \in 1 .. calls' : id = calls + 1 \/ id \in 1 .. calls
  BY <1>1
<1> QED BY <1>1, <1>2, <1>3, <1>4 DEF ImportIInv, NewIdsAreNew

LEMMA ImportWaitsKeeps ==
  ASSUME ImportIInv, NEW m \in Modules, ImportWaits(m) PROVE ImportIInv'
<1> DEFINE n == calls + 1
<1>1. Call(m) /\ HasPendingTla(m) /\ promise' = [promise EXCEPT ![n] = "pending"]
      /\ waiters' = [waiters EXCEPT ![m] = @ \cup {n}]
      /\ UNCHANGED <<source_phase, status, dynamic_import_map, loadVars, evalVars, pc, js,
                     current, woken, early>>
  BY DEF ImportWaits
<1>2. Evaluating' = Evaluating /\ UnderWay' = UnderWay
  BY <1>1 DEF Evaluating, UnderWay, loadVars, evalVars
<1>3. /\ n \in Ids /\ n \notin UnderWay /\ calls' = n /\ calls \in Nat
      /\ \A id \in UnderWay : id \in Ids \ {n} /\ id \in 1 .. calls /\ target'[id] = target[id]
  BY <1>1, CallFacts, IdFacts DEF ImportIInv, NewIdsAreNew
<1>4. /\ promise' \in [Ids -> {"none", "pending", "resolved", "rejected"}]
      /\ promise'[n] = "pending" /\ \A i \in Ids \ {n} : promise'[i] = promise[i]
  BY <1>1, <1>3 DEF ImportIInv, ImportTypes
<1>5. /\ waiters' \in [Modules -> SUBSET Ids] /\ waiters'[m] = waiters[m] \cup {n}
      /\ \A k \in Modules \ {m} : waiters'[k] = waiters[k]
  BY <1>1, <1>3 DEF ImportIInv, ImportTypes
<1>6. target'[n] = m /\ (\A id \in Ids \ {n} : target'[id] = target[id])
      /\ \A id \in 1 .. calls' : target'[id] \in Modules
  BY <1>1, CallFacts
<1> HIDE DEF n
<1>7. ImportTypes'
  <2>1. calls' \in 0 .. MaxImports /\ target' \in [Ids -> Modules \cup {None}]
    BY <1>1, CallFacts
  <2> QED BY <1>1, <1>4, <1>5, <2>1 DEF ImportIInv, ImportTypes, loadVars, evalVars
<1>8. NewIdsAreNew'
  <2>1. UnderWay' \subseteq 1 .. calls'
    BY <1>2, <1>3 DEF n
  <2>2. ASSUME NEW k \in Modules, NEW id \in waiters'[k] PROVE id <= calls' /\ target'[id] = k
    <3>1. CASE id = n
      <4>1. k = m
        <5>1. n \notin waiters[k]
          BY <1>3 DEF ImportIInv, NewIdsAreNew, n
        <5> QED BY <1>5, <2>2, <3>1, <5>1
      <4> QED BY <1>3, <1>6, <3>1, <4>1 DEF n
    <3>2. CASE id # n
      <4>1. id \in waiters[k] /\ id \in Ids \ {n}
        BY <1>5, <2>2, <3>2 DEF ImportIInv, ImportTypes
      <4>2. id <= calls /\ target[id] = k
        BY <4>1 DEF ImportIInv, NewIdsAreNew
      <4> QED BY <1>3, <1>6, <4>1, <4>2, IdFacts DEF n
    <3> QED BY <3>1, <3>2
  <2>3. \A id \in Ids : promise'[id] = "pending" => id <= calls'
    BY <1>3, <1>4, IdFacts DEF ImportIInv, NewIdsAreNew, n
  <2> QED BY <1>6, <2>1, <2>2, <2>3 DEF NewIdsAreNew
<1>9. OnePlace'
  <2>1. \A k \in Modules : waiters'[k] \cap UnderWay' = {}
    BY <1>2, <1>3, <1>5 DEF ImportIInv, OnePlace
  <2> QED BY <1>1, <1>2, <2>1 DEF ImportIInv, OnePlace, loadVars, evalVars
<1>10. Stages'
  BY <1>1 DEF ImportIInv, Stages, evalVars
<1>11. UnderWayIsUnsettled'
  BY <1>1, <1>2, <1>3, <1>4 DEF ImportIInv, UnderWayIsUnsettled
<1>12. NoImportForgotten'
  <2> SUFFICES ASSUME NEW id \in Ids, promise'[id] = "pending"
               PROVE  id \in UnderWay' \/ id \in waiters'[target'[id]]
    BY DEF NoImportForgotten
  <2>1. CASE id = n
    BY <1>5, <1>6, <2>1
  <2>2. CASE id # n
    <3>1. id \in UnderWay \/ id \in waiters[target[id]]
      BY <1>4, <2>2 DEF ImportIInv, NoImportForgotten
    <3>2. CASE id \in waiters[target[id]] /\ target[id] \in Modules
      BY <1>5, <1>6, <2>2, <3>2
    <3>3. CASE id \in UnderWay
      BY <1>2, <3>3
    <3>4. target[id] \in Modules
      BY <1>4, <2>2, PendingIsCalled
    <3> QED BY <3>1, <3>2, <3>3, <3>4
  <2> QED BY <2>1, <2>2
<1>13. WaitersAreServed'
  <2> SUFFICES ASSUME NEW k \in Modules, waiters'[k] # {}
               PROVE  \E id \in Evaluating' : target'[id] = k
    BY DEF WaitersAreServed
  <2>1. \E id \in Evaluating : target[id] = k
    <3>1. CASE k = m
      BY <1>1, <3>1 DEF HasPendingTla, Evaluating
    <3>2. CASE k # m
      BY <1>5, <3>2 DEF ImportIInv, WaitersAreServed
    <3> QED BY <3>1, <3>2
  <2>2. Evaluating \subseteq UnderWay
    BY DEF UnderWay
  <2> QED BY <1>2, <1>3, <2>1, <2>2
<1>14. FlagsCoverImports'
  BY <1>1, <1>2 DEF ImportIInv, FlagsCoverImports, loadVars, evalVars
<1> QED BY <1>7, <1>8, <1>9, <1>10, <1>11, <1>12, <1>13, <1>14 DEF ImportIInv

(* An import that is answered at once, or that starts a load. *)
LEMMA ImportStarts ==
  ASSUME ImportIInv, NEW m \in Modules, Call(m), NEW p \in {"pending", "resolved"},
         promise' = [promise EXCEPT ![calls + 1] = p],
         \/ /\ p = "resolved"
            /\ UNCHANGED <<preparing, preparing_flag, dynamic_import_map>>
         \/ /\ p = "pending" /\ preparing' = preparing \cup {calls + 1} /\ preparing_flag' = TRUE
            /\ dynamic_import_map' = dynamic_import_map \cup {calls + 1},
         source_phase' \in SUBSET Ids, early' \in SUBSET Ids,
         UNCHANGED <<status, waiters, loading, loading_flag, pending, batch, still_pending,
                     pending_flag, pc, current>>
  PROVE  ImportIInv'
<1> DEFINE n == calls + 1
<1>1. Evaluating' = Evaluating
  BY DEF Evaluating
<1>2. /\ n \in Ids /\ n \notin UnderWay /\ calls' = n /\ calls \in Nat /\ n \in 1 .. calls'
      /\ \A id \in UnderWay : id \in Ids \ {n} /\ id \in 1 .. calls /\ target'[id] = target[id]
  BY CallFacts, IdFacts DEF ImportIInv, NewIdsAreNew
<1>3. /\ promise' \in [Ids -> {"none", "pending", "resolved", "rejected"}]
      /\ promise'[n] = p /\ \A i \in Ids \ {n} : promise'[i] = promise[i]
  BY <1>2 DEF ImportIInv, ImportTypes
<1>4. target'[n] = m /\ (\A id \in Ids \ {n} : target'[id] = target[id])
      /\ \A id \in 1 .. calls' : target'[id] \in Modules
  BY CallFacts
<1>5. n \notin preparing \cup loading \cup Evaluating /\ n # current
  BY <1>2 DEF UnderWay
<1>6. /\ UnderWay \subseteq UnderWay' /\ UnderWay' \subseteq UnderWay \cup {n}
      /\ n \in UnderWay' <=> p = "pending"
  <2>1. preparing' = IF p = "pending" THEN preparing \cup {n} ELSE preparing
    OBVIOUS
  <2> QED BY <1>1, <1>5, <2>1 DEF UnderWay
<1>7. ImportTypes'
  <2>1. calls' \in 0 .. MaxImports /\ target' \in [Ids -> Modules \cup {None}]
    BY CallFacts
  <2>2. preparing' \in SUBSET Ids /\ dynamic_import_map' \in SUBSET Ids
    BY <1>2 DEF ImportIInv, ImportTypes
  <2> QED BY <1>3, <2>1, <2>2 DEF ImportIInv, ImportTypes
<1>8. \A k \in Modules : \A id \in waiters[k] : id \in Ids \ {n} /\ id <= calls' /\ target'[id] = k
  <2> SUFFICES ASSUME NEW k \in Modules, NEW id \in waiters[k]
               PROVE  id \in Ids \ {n} /\ id <= calls' /\ target'[id] = k
    OBVIOUS
  <2>1. id \in Ids /\ id <= calls /\ target[id] = k
    BY DEF ImportIInv, ImportTypes, NewIdsAreNew
  <2>2. id \in Nat
    BY <2>1, IdFacts
  <2> QED BY <1>2, <1>4, <2>1, <2>2
<1>9. NewIdsAreNew'
  <2>1. UnderWay' \subseteq 1 .. calls'
    BY <1>2, <1>6
  <2>2. \A id \in Ids : promise'[id] = "pending" => id <= calls'
    BY <1>2, <1>3, IdFacts DEF ImportIInv, NewIdsAreNew
  <2> QED BY <1>4, <1>8, <2>1, <2>2 DEF NewIdsAreNew
<1>10. OnePlace'
  <2>1. \A k \in Modules : waiters'[k] \cap UnderWay' = {}
    BY <1>6, <1>8 DEF ImportIInv, OnePlace
  <2>2. /\ preparing' \cap loading = {} /\ (preparing' \cup loading) \cap Evaluating = {}
        /\ current \notin preparing' \cup loading \cup Evaluating
    BY <1>5 DEF ImportIInv, OnePlace
  <2> QED BY <1>1, <2>1, <2>2 DEF ImportIInv, OnePlace
<1>11. Stages'
  BY DEF ImportIInv, Stages
<1>12. UnderWayIsUnsettled'
  BY <1>2, <1>3, <1>6 DEF ImportIInv, UnderWayIsUnsettled
<1>13. NoImportForgotten'
  <2> SUFFICES ASSUME NEW id \in Ids, promise'[id] = "pending"
               PROVE  id \in UnderWay' \/ id \in waiters'[target'[id]]
    BY DEF NoImportForgotten
  <2>1. CASE id = n
    BY <1>3, <1>6, <2>1
  <2>2. CASE id # n
    BY <1>3, <1>4, <1>6, <2>2 DEF ImportIInv, NoImportForgotten
  <2> QED BY <2>1, <2>2
<1>14. WaitersAreServed'
  <2>1. \A id \in Evaluating : target'[id] = target[id]
    BY <1>2 DEF UnderWay
  <2> QED BY <1>1, <2>1 DEF ImportIInv, WaitersAreServed
<1>15. FlagsCoverImports'
  BY <1>1 DEF ImportIInv, FlagsCoverImports
<1> QED BY <1>7, <1>9, <1>10, <1>11, <1>12, <1>13, <1>14, <1>15 DEF ImportIInv

(* An evaluation ends: its import and the ones that waited for the module  *)
(* are answered.                                                           *)
LEMMA SettleKeeps ==
  ASSUME ImportIInv, SettleOne PROVE ImportIInv'
<1> DEFINE id == Head(batch)
           m == target[id]
           r == IF status[m] = "evaluated" THEN "resolved" ELSE "rejected"
<1>1. /\ pc = "evaluate" /\ batch # <<>> /\ dynamic_import_map' = dynamic_import_map \ {id}
      /\ promise' = [SettleWaiters(m, r) EXCEPT ![id] = r]
      /\ waiters' = [waiters EXCEPT ![m] = {}] /\ batch' = Tail(batch)
      /\ UNCHANGED <<importVars, status, loadVars, pending, pending_flag, still_pending,
                     has_evaluated, pc, current, woken, early>>
  BY DEF SettleOne
<1>2. /\ batch' \in Seq(Ids) /\ id \in Members(batch) /\ id \in Ids
      /\ Members(batch) = Members(batch') \cup {id}
      /\ Distinct(batch') /\ id \notin Members(batch')
  BY <1>1, TailOfList DEF ImportIInv, ImportTypes, OnePlace
<1>3. r \in {"resolved", "rejected"} /\ id \in Evaluating /\ id \in UnderWay /\ id # 0
  BY <1>2, IdFacts DEF Evaluating, UnderWay
<1>4. m \in Modules
  BY <1>3, IdFacts
<1> HIDE DEF id, m, r
<1>5. Evaluating' = Evaluating \ {id}
  <2>1. id \notin Members(pending) /\ id \notin Members(still_pending)
    BY <1>2 DEF ImportIInv, OnePlace
  <2>2. Members(pending)' = Members(pending) /\ Members(still_pending)' = Members(still_pending)
    BY <1>1 DEF Members
  <2>3. Members(batch)' = Members(batch')
    BY DEF Members
  <2> QED BY <1>2, <2>1, <2>2, <2>3 DEF Evaluating
<1>6. /\ preparing' = preparing /\ loading' = loading /\ current' = current
      /\ UnderWay' = UnderWay \ {id}
  <2>1. preparing' = preparing /\ loading' = loading /\ current' = current
    BY <1>1 DEF loadVars
  <2>2. id \notin preparing \cup loading /\ id # current
    BY <1>3 DEF ImportIInv, OnePlace
  <2> QED BY <1>5, <2>1, <2>2 DEF UnderWay
<1>7. /\ promise' \in [Ids -> {"none", "pending", "resolved", "rejected"}]
      /\ promise'[id] = r /\ \A i \in waiters[m] : promise'[i] = r
      /\ \A i \in Ids : i # id /\ i \notin waiters[m] => promise'[i] = promise[i]
  <2> DEFINE q == SettleWaiters(m, r)
  <2>1. /\ q \in [Ids -> {"none", "pending", "resolved", "rejected"}]
        /\ \A i \in Ids : q[i] = IF i \in waiters[m] THEN r ELSE promise[i]
    BY <1>3 DEF SettleWaiters, ImportIInv, ImportTypes
  <2>2. promise' = [q EXCEPT ![id] = r]
    BY <1>1
  <2>3. waiters[m] \subseteq Ids
    BY <1>4 DEF ImportIInv, ImportTypes
  <2> HIDE DEF q
  <2> QED BY <1>2, <1>3, <2>1, <2>2, <2>3
<1>8. /\ waiters' \in [Modules -> SUBSET Ids] /\ waiters'[m] = {}
      /\ \A k \in Modules \ {m} : waiters'[k] = waiters[k]
  BY <1>1, <1>4 DEF ImportIInv, ImportTypes
<1>9. UNCHANGED <<calls, target, source_phase, early, status>>
  BY <1>1 DEF importVars
<1>10. ImportTypes'
  BY <1>1, <1>2, <1>6, <1>7, <1>8, <1>9 DEF ImportIInv, ImportTypes
<1>11. NewIdsAreNew'
  <2>1. \A i \in Ids : promise'[i] = "pending" => promise[i] = "pending"
    BY <1>3, <1>7
  <2>2. \A k \in Modules : waiters'[k] \subseteq waiters[k]
    BY <1>8
  <2> QED BY <1>6, <1>9, <2>1, <2>2 DEF ImportIInv, NewIdsAreNew
<1>12. OnePlace'
  <2>1. \A k \in Modules : waiters'[k] \cap UnderWay' = {}
    BY <1>6, <1>8 DEF ImportIInv, OnePlace
  <2>2. pending' = pending /\ still_pending' = still_pending
    BY <1>1
  <2> QED BY <1>2, <1>5, <1>6, <2>1, <2>2 DEF ImportIInv, OnePlace
<1>13. Stages'
  BY <1>1 DEF ImportIInv, Stages
<1>14. UnderWayIsUnsettled'
  <2>1. \A i \in UnderWay : i \notin waiters[m] /\ i \in Ids
    BY <1>4, IdFacts DEF ImportIInv, OnePlace
  <2> QED BY <1>1, <1>6, <1>7, <2>1 DEF ImportIInv, UnderWayIsUnsettled
<1>15. NoImportForgotten'
  <2> SUFFICES ASSUME NEW i \in Ids, promise'[i] = "pending"
               PROVE  i \in UnderWay' \/ i \in waiters'[target'[i]]
    BY DEF NoImportForgotten
  <2>1. i # id /\ i \notin waiters[m] /\ promise[i] = "pending"
    BY <1>3, <1>7
  <2>2. target[i] \in Modules /\ (i \in UnderWay \/ i \in waiters[target[i]])
    BY <2>1, PendingIsCalled DEF ImportIInv, NoImportForgotten
  <2> QED BY <1>6, <1>8, <1>9, <2>1, <2>2
<1>16. WaitersAreServed'
  <2> SUFFICES ASSUME NEW k \in Modules, waiters'[k] # {}
               PROVE  \E i \in Evaluating' : target'[i] = k
    BY DEF WaitersAreServed
  <2>1. k # m /\ waiters[k] # {}
    BY <1>8
  <2>2. PICK i \in Evaluating : target[i] = k
    BY <2>1 DEF ImportIInv, WaitersAreServed
  <2>3. i # id
    BY <2>1, <2>2 DEF m
  <2> QED BY <1>5, <1>9, <2>2, <2>3
<1>17. FlagsCoverImports'
  BY <1>1, <1>5, <1>6 DEF ImportIInv, FlagsCoverImports, loadVars
<1> QED BY <1>10, <1>11, <1>12, <1>13, <1>14, <1>15, <1>16, <1>17 DEF ImportIInv

----------------------------------------------------------------------------
(* The steps of poll_progress that move imports along. *)
LEMMA PreparedKeeps ==
  ASSUME ImportIInv, NEW id \in Ids, Prepared(id) PROVE ImportIInv'
<1>1. /\ id \in preparing /\ preparing' = preparing \ {id} /\ loading' = loading \cup {id}
      /\ loading_flag' = TRUE
      /\ UNCHANGED <<calls, target, source_phase, promise, status, dynamic_import_map, preparing_flag,
                     pending, pending_flag, batch, still_pending, waiters, pc, current, early>>
  BY DEF Prepared, importVars, evalVars
<1>2. Evaluating' = Evaluating
  BY <1>1 DEF Evaluating
<1>3. UnderWay' = UnderWay
  BY <1>1, <1>2 DEF UnderWay
<1>4. /\ NewIdsAreNew' /\ UnderWayIsUnsettled' /\ NoImportForgotten' /\ WaitersAreServed'
      /\ \A m \in Modules : waiters'[m] \cap UnderWay' = {}
  BY <1>1, <1>2, <1>3, MoveKeeps
<1>5. OnePlace'
  BY <1>1, <1>2, <1>4 DEF ImportIInv, OnePlace
<1>6. ImportTypes' /\ Stages' /\ FlagsCoverImports'
  BY <1>1, <1>2 DEF ImportIInv, ImportTypes, Stages, FlagsCoverImports
<1> QED BY <1>4, <1>5, <1>6 DEF ImportIInv

LEMMA EvaluateKeeps ==
  ASSUME ImportIInv, NEW id \in Ids, Evaluate(id) PROVE ImportIInv'
<1>1. /\ pc = "load" /\ id \in loading /\ loading' = loading \ {id} /\ current' = id
      /\ pc' = "evaluated" /\ status' \in [Modules -> StatusType]
      /\ UNCHANGED <<calls, target, source_phase, promise, dynamic_import_map, preparing,
                     preparing_flag, loading_flag, pending, pending_flag, batch, still_pending,
                     waiters, early>>
  <2>1. id \in loading
    BY DEF Evaluate
  <2>2. target[id] \in Modules
    BY <2>1, IdFacts DEF UnderWay
  <2>3. status' \in [Modules -> StatusType]
    <3>1. CASE status[target[id]] = "new"
      <4>1. PICK s \in {"awaiting", "evaluated", "errored"} :
                   status' = [status EXCEPT ![target[id]] = s]
        BY <3>1 DEF Evaluate
      <4> QED BY <2>2, <4>1 DEF ImportIInv, ImportTypes, StatusType
    <3>2. CASE status[target[id]] # "new"
      BY <3>2 DEF Evaluate, ImportIInv, ImportTypes
    <3> QED BY <3>1, <3>2
  <2> QED BY <2>1, <2>3 DEF Evaluate, importVars, evalVars
<1>2. Evaluating' = Evaluating
  BY <1>1 DEF Evaluating
<1>3. current = 0 /\ id # 0 /\ id \in 0 .. MaxImports
  BY <1>1, IdFacts DEF ImportIInv, Stages, Ids
<1>4. UnderWay' = UnderWay
  BY <1>1, <1>2, <1>3 DEF UnderWay
<1>5. /\ NewIdsAreNew' /\ UnderWayIsUnsettled' /\ NoImportForgotten' /\ WaitersAreServed'
      /\ \A m \in Modules : waiters'[m] \cap UnderWay' = {}
  BY <1>1, <1>2, <1>4, MoveKeeps
<1>6. OnePlace'
  BY <1>1, <1>2, <1>5 DEF ImportIInv, OnePlace
<1>7. ImportTypes'
  BY <1>1, <1>3 DEF ImportIInv, ImportTypes
<1>8. Stages' /\ FlagsCoverImports'
  BY <1>1, <1>2, <1>3 DEF ImportIInv, Stages, FlagsCoverImports
<1> QED BY <1>5, <1>6, <1>7, <1>8 DEF ImportIInv

LEMMA PushKeeps ==
  ASSUME ImportIInv, PushEvaluation PROVE ImportIInv'
<1>1. /\ pc = "evaluated" /\ pending' = Append(pending, current) /\ pending_flag' = TRUE
      /\ pc' = "load" /\ current' = 0
      /\ UNCHANGED <<calls, target, source_phase, promise, status, dynamic_import_map, preparing,
                     preparing_flag, loading, loading_flag, batch, still_pending, waiters, early>>
  BY DEF PushEvaluation, importVars, loadVars
<1>2. current # 0 /\ current \in Ids /\ current \notin Members(pending) /\ current \in UnderWay
  <2>1. current # 0
    BY <1>1 DEF ImportIInv, Stages
  <2> QED BY <2>1, IdFacts DEF ImportIInv, OnePlace, Evaluating, UnderWay
<1>3. /\ pending' \in Seq(Ids) /\ Members(pending') = Members(pending) \cup {current}
      /\ Distinct(pending')
  BY <1>1, <1>2, AppendedList DEF ImportIInv, ImportTypes, OnePlace
<1>4. Evaluating' = Evaluating \cup {current}
  <2>1. Members(batch)' = Members(batch) /\ Members(still_pending)' = Members(still_pending)
    BY <1>1 DEF Members
  <2>2. Members(pending)' = Members(pending')
    BY DEF Members
  <2> QED BY <1>3, <2>1, <2>2 DEF Evaluating
<1>5. UnderWay' = UnderWay
  BY <1>1, <1>2, <1>4 DEF UnderWay
<1>6. /\ NewIdsAreNew' /\ UnderWayIsUnsettled' /\ NoImportForgotten' /\ WaitersAreServed'
      /\ \A m \in Modules : waiters'[m] \cap UnderWay' = {}
  BY <1>1, <1>4, <1>5, MoveKeeps
<1>7. OnePlace'
  <2>1. batch = <<>> /\ still_pending = <<>>
    BY <1>1 DEF ImportIInv, Stages
  <2>2. 0 \notin preparing \cup loading \cup Evaluating \cup {current}
    BY <1>2, IdFacts DEF ImportIInv, ImportTypes
  <2> QED BY <1>1, <1>3, <1>4, <1>6, <2>1, <2>2, EmptyList DEF ImportIInv, OnePlace
<1>8. ImportTypes'
  <2>1. current' \in 0 .. MaxImports
    BY <1>1, ImportAssumption
  <2> QED BY <1>1, <1>3, <2>1 DEF ImportIInv, ImportTypes
<1>9. Stages' /\ FlagsCoverImports'
  BY <1>1, <1>2 DEF ImportIInv, Stages, FlagsCoverImports
<1> QED BY <1>6, <1>7, <1>8, <1>9 DEF ImportIInv

LEMMA LoadEndsKeeps ==
  ASSUME ImportIInv, LoadEnds PROVE ImportIInv'
<1>1. /\ pc = "load" /\ still_pending' = <<>> /\ pc' = "evaluate"
      /\ loading_flag' = (loading_flag /\ loading # {})
      /\ UNCHANGED <<calls, target, source_phase, promise, status, dynamic_import_map, preparing,
                     preparing_flag, loading, pending_flag, waiters, current, early>>
  BY DEF LoadEnds, importVars
<1>2. batch = <<>> /\ still_pending = <<>> /\ current = 0
  BY <1>1 DEF ImportIInv, Stages
<1>3. pending' = <<>> /\ batch' = pending
  <2>1. CASE pending_flag
    BY <2>1 DEF LoadEnds
  <2>2. CASE ~pending_flag
    <3>1. pending = <<>>
      BY <2>2, EmptyList DEF ImportIInv, FlagsCoverImports, Evaluating, ImportTypes
    <3> QED BY <2>2, <3>1 DEF LoadEnds
  <2> QED BY <2>1, <2>2
<1>4. Evaluating' = Evaluating
  <2>1. /\ Members(pending)' = {} /\ Members(batch)' = Members(pending)
        /\ Members(still_pending)' = {}
    BY <1>1, <1>3 DEF Members
  <2> QED BY <1>2, <2>1, EmptyList DEF Evaluating
<1>5. UnderWay' = UnderWay
  BY <1>1, <1>4 DEF UnderWay
<1>6. /\ NewIdsAreNew' /\ UnderWayIsUnsettled' /\ NoImportForgotten' /\ WaitersAreServed'
      /\ \A m \in Modules : waiters'[m] \cap UnderWay' = {}
  BY <1>1, <1>4, <1>5, MoveKeeps
<1>7. OnePlace'
  BY <1>1, <1>3, <1>4, <1>6, EmptyList DEF ImportIInv, OnePlace
<1>8. ImportTypes'
  BY <1>1, <1>3, EmptyList DEF ImportIInv, ImportTypes
<1>9. Stages' /\ FlagsCoverImports'
  BY <1>1, <1>2, <1>3, <1>4 DEF ImportIInv, Stages, FlagsCoverImports
<1> QED BY <1>6, <1>7, <1>8, <1>9 DEF ImportIInv

LEMMA StillPendingKeeps ==
  ASSUME ImportIInv, StillPending PROVE ImportIInv'
<1> DEFINE id == Head(batch)
<1>1. /\ pc = "evaluate" /\ batch # <<>> /\ still_pending' = Append(still_pending, id)
      /\ batch' = Tail(batch)
      /\ UNCHANGED <<calls, target, source_phase, promise, status, dynamic_import_map, preparing,
                     preparing_flag, loading, loading_flag, pending, pending_flag, waiters, pc,
                     current, early>>
  BY DEF StillPending, importVars, loadVars
<1>2. /\ batch' \in Seq(Ids) /\ id \in Members(batch) /\ id \in Ids
      /\ Members(batch) = Members(batch') \cup {id}
      /\ Distinct(batch') /\ id \notin Members(batch')
  BY <1>1, TailOfList DEF ImportIInv, ImportTypes, OnePlace
<1> HIDE DEF id
<1>3. id \notin Members(still_pending)
  BY <1>2 DEF ImportIInv, OnePlace
<1>4. /\ still_pending' \in Seq(Ids) /\ Members(still_pending') = Members(still_pending) \cup {id}
      /\ Distinct(still_pending')
  BY <1>1, <1>2, <1>3, AppendedList DEF ImportIInv, ImportTypes, OnePlace
<1>5. Evaluating' = Evaluating
  <2>1. Members(pending)' = Members(pending) /\ Members(batch)' = Members(batch')
        /\ Members(still_pending)' = Members(still_pending')
    BY <1>1 DEF Members
  <2> QED BY <1>2, <1>4, <2>1 DEF Evaluating
<1>6. UnderWay' = UnderWay
  BY <1>1, <1>5 DEF UnderWay
<1>7. /\ NewIdsAreNew' /\ UnderWayIsUnsettled' /\ NoImportForgotten' /\ WaitersAreServed'
      /\ \A m \in Modules : waiters'[m] \cap UnderWay' = {}
  BY <1>1, <1>5, <1>6, MoveKeeps
<1>8. OnePlace'
  BY <1>1, <1>2, <1>4, <1>5, <1>7 DEF ImportIInv, OnePlace
<1>9. ImportTypes' /\ Stages' /\ FlagsCoverImports'
  BY <1>1, <1>2, <1>4, <1>5 DEF ImportIInv, ImportTypes, Stages, FlagsCoverImports
<1> QED BY <1>7, <1>8, <1>9 DEF ImportIInv

LEMMA EvaluateEndsKeeps ==
  ASSUME ImportIInv, EvaluateEnds PROVE ImportIInv'
<1>1. /\ pc = "evaluate" /\ batch = <<>> /\ batch' = <<>> /\ still_pending' = <<>>
      /\ pc' \in {"prepare", "outside"}
      /\ UNCHANGED <<calls, target, source_phase, promise, status, dynamic_import_map, preparing,
                     preparing_flag, loading, loading_flag, waiters, current, early>>
  BY DEF EvaluateEnds, importVars, loadVars
<1>2. pending = <<>> /\ current = 0
  BY <1>1 DEF ImportIInv, Stages
<1>3. pending' = still_pending /\ (still_pending # <<>> => pending_flag')
  <2>1. CASE pending_flag
    BY <2>1 DEF EvaluateEnds, PutBack
  <2>2. CASE ~pending_flag
    <3>1. still_pending = <<>>
      BY <2>2, EmptyList DEF ImportIInv, FlagsCoverImports, Evaluating, ImportTypes
    <3> QED BY <1>2, <2>2, <3>1 DEF EvaluateEnds
  <2> QED BY <2>1, <2>2
<1>4. Evaluating' = Evaluating
  <2>1. /\ Members(pending)' = Members(still_pending) /\ Members(batch)' = {}
        /\ Members(still_pending)' = {}
    BY <1>1, <1>3 DEF Members
  <2> QED BY <1>1, <1>2, <2>1, EmptyList DEF Evaluating
<1>5. UnderWay' = UnderWay
  BY <1>1, <1>4 DEF UnderWay
<1>6. /\ NewIdsAreNew' /\ UnderWayIsUnsettled' /\ NoImportForgotten' /\ WaitersAreServed'
      /\ \A m \in Modules : waiters'[m] \cap UnderWay' = {}
  BY <1>1, <1>4, <1>5, MoveKeeps
<1>7. OnePlace'
  BY <1>1, <1>3, <1>4, <1>6, EmptyList DEF ImportIInv, OnePlace
<1>8. ImportTypes' /\ Stages'
  BY <1>1, <1>2, <1>3, EmptyList DEF ImportIInv, ImportTypes, Stages
<1>9. FlagsCoverImports'
  <2>1. Evaluating' # {} => still_pending # <<>>
    BY <1>1, <1>2, <1>4, EmptyList DEF Evaluating
  <2> QED BY <1>1, <1>3, <2>1 DEF ImportIInv, FlagsCoverImports
<1> QED BY <1>6, <1>7, <1>8, <1>9 DEF ImportIInv

----------------------------------------------------------------------------
LEMMA ImportInductive == ImportIInv /\ [Next]_vars => ImportIInv'
<1> SUFFICES ASSUME ImportIInv, [Next]_vars PROVE ImportIInv'
  OBVIOUS
<1> USE DEF importVars, loadVars, evalVars
<1>1. ASSUME NEW m \in Modules, ImportAtOnce(m) PROVE ImportIInv'
  <2>1. early' \in SUBSET Ids /\ source_phase' \in SUBSET Ids
    <3>1. calls + 1 \in Ids
      BY <1>1, CallFacts DEF ImportAtOnce
    <3> QED BY <1>1, <3>1 DEF ImportAtOnce, ImportIInv, ImportTypes
  <2> QED BY <1>1, <2>1, ImportStarts DEF ImportAtOnce
<1>2. ASSUME NEW m \in Modules, NEW phase \in {"evaluation", "defer", "source"}, ImportLoads(m, phase)
      PROVE  ImportIInv'
  <2>1. early' \in SUBSET Ids /\ source_phase' \in SUBSET Ids
    <3>1. calls + 1 \in Ids
      BY <1>2, CallFacts DEF ImportLoads
    <3> QED BY <1>2, <3>1 DEF ImportLoads, ImportIInv, ImportTypes
  <2> QED BY <1>2, <2>1, ImportStarts DEF ImportLoads
<1>3. ASSUME NEW m \in Modules, NEW outcome \in {"evaluated", "errored"}, TlaSettles(m, outcome)
      PROVE  ImportIInv'
  <2>1. /\ NewIdsAreNew' /\ UnderWayIsUnsettled' /\ NoImportForgotten' /\ WaitersAreServed'
        /\ OnePlace' /\ Evaluating' = Evaluating
    BY <1>3, StayKeeps DEF TlaSettles
  <2>2. status' \in [Modules -> StatusType]
    BY <1>3 DEF TlaSettles, ImportIInv, ImportTypes, StatusType
  <2>3. ImportTypes' /\ Stages' /\ FlagsCoverImports'
    BY <1>3, <2>1, <2>2 DEF TlaSettles, ImportIInv, ImportTypes, Stages, FlagsCoverImports
  <2> QED BY <2>1, <2>3 DEF ImportIInv
<1>4. CASE \/ ScriptEnds \/ PollProgress \/ PrepareEnds \/ FutureWakes
           \/ UNCHANGED vars
  <2>1. /\ UNCHANGED <<calls, target, source_phase, promise, status, dynamic_import_map, waiters,
                       preparing, loading, pending, batch, still_pending, current, early,
                       loading_flag, pending_flag>>
        /\ preparing # {} => preparing_flag'
        /\ \/ pc' = pc
           \/ pc \in {"outside", "prepare"} /\ pc' \in {"prepare", "load"}
    BY <1>4 DEF ScriptEnds, PollProgress, PrepareEnds, PreparingFlagNow, FutureWakes, vars, ImportIInv,
                FlagsCoverImports
  <2>2. /\ NewIdsAreNew' /\ UnderWayIsUnsettled' /\ NoImportForgotten' /\ WaitersAreServed'
        /\ OnePlace' /\ Evaluating' = Evaluating
    BY <2>1, StayKeeps
  <2>3. ImportTypes' /\ Stages' /\ FlagsCoverImports'
    BY <2>1, <2>2 DEF ImportIInv, ImportTypes, Stages, FlagsCoverImports
  <2> QED BY <2>2, <2>3 DEF ImportIInv
<1>5. ASSUME NEW id \in Ids, PrepareFails(id) PROVE ImportIInv'
  BY <1>5, AnswerKeeps DEF PrepareFails, Reject
<1>6. ASSUME NEW id \in Ids, LoadFails(id) PROVE ImportIInv'
  BY <1>6, AnswerKeeps DEF LoadFails, Reject
<1>7. ASSUME NEW id \in Ids, SourceLoaded(id) PROVE ImportIInv'
  BY <1>7, AnswerKeeps DEF SourceLoaded
<1>8. ASSUME NEW id \in Ids, InstantiateFails(id) PROVE ImportIInv'
  BY <1>8, AnswerKeeps DEF InstantiateFails, Reject, MayEvaluate
<1>9. ASSUME NEW m \in Modules, ImportWaits(m) PROVE ImportIInv'
  BY <1>9, ImportWaitsKeeps
<1>10. CASE Quiet /\ UNCHANGED vars
  BY <1>4, <1>10
<1> QED BY <1>1, <1>2, <1>3, <1>4, <1>5, <1>6, <1>7, <1>8, <1>9, <1>10, PreparedKeeps, EvaluateKeeps,
           PushKeeps, LoadEndsKeeps, StillPendingKeeps, SettleKeeps, EvaluateEndsKeeps
        DEF Next, Poll, JavaScript

(* The flags are Booleans. *)
LEMMA ImportFlagsKeep == ImportFlags /\ [Next]_vars => ImportFlags'
<1> SUFFICES ASSUME ImportFlags, [Next]_vars PROVE ImportFlags'
  OBVIOUS
<1> USE ImportAssumption DEF importVars, loadVars, evalVars, ImportFlags
<1>1. ASSUME NEW m \in Modules, ImportWaits(m) \/ ImportAtOnce(m) PROVE ImportFlags'
  BY <1>1 DEF ImportWaits, ImportAtOnce
<1>2. ASSUME NEW m \in Modules, NEW phase \in {"evaluation", "defer", "source"}, ImportLoads(m, phase)
      PROVE  ImportFlags'
  BY <1>2 DEF ImportLoads
<1>3. ASSUME NEW m \in Modules, NEW outcome \in {"evaluated", "errored"}, TlaSettles(m, outcome)
      PROVE  ImportFlags'
  BY <1>3 DEF TlaSettles
<1>4. CASE ScriptEnds \/ PollProgress \/ FutureWakes \/ UNCHANGED vars
  BY <1>4 DEF ScriptEnds, PollProgress, FutureWakes, vars
<1>5. CASE PrepareEnds
  BY <1>5 DEF PrepareEnds, PreparingFlagNow
<1>6. CASE PushEvaluation
  BY <1>6 DEF PushEvaluation
<1>7. CASE LoadEnds
  BY <1>7 DEF LoadEnds
<1>8. CASE StillPending \/ SettleOne
  BY <1>8 DEF StillPending, SettleOne
<1>9. CASE EvaluateEnds
  BY <1>9 DEF EvaluateEnds
<1>10. ASSUME NEW id \in Ids,
              \/ Prepared(id) \/ PrepareFails(id) \/ LoadFails(id) \/ SourceLoaded(id)
       PROVE  ImportFlags'
  BY <1>10 DEF Prepared, PrepareFails, LoadFails, SourceLoaded, Reject
<1>11. ASSUME NEW id \in Ids, InstantiateFails(id) PROVE ImportFlags'
  BY <1>11 DEF InstantiateFails, Reject
<1>12. ASSUME NEW id \in Ids, Evaluate(id) PROVE ImportFlags'
  BY <1>12 DEF Evaluate
<1> QED BY <1>1, <1>2, <1>3, <1>4, <1>5, <1>6, <1>7, <1>8, <1>9, <1>10, <1>11, <1>12
        DEF Next, Poll, JavaScript

LEMMA ImportIInvConsistent == ImportIInv /\ ImportFlags => ImportsConsistent
<1> SUFFICES ASSUME ImportIInv, ImportFlags PROVE ImportsConsistent
  OBVIOUS
<1>1. Evaluating \subseteq Ids
  BY EmptyList DEF ImportIInv, ImportTypes, Evaluating
<1>2. {preparing_flag, loading_flag, pending_flag, js, resolved_any, has_evaluated, woken}
        \subseteq BOOLEAN
  BY DEF ImportFlags
<1>3. TypeOK
  BY <1>1, <1>2 DEF TypeOK, ImportIInv, ImportTypes
<1> QED BY <1>3 DEF ImportsConsistent, ImportIInv

(* Whatever scripts import between the steps of poll_progress, no import   *)
(* is forgotten or answered twice, those that wait for a top-level await   *)
(* wait for an evaluation that is on the list, and the flags the event     *)
(* loop reads miss none of them; for any modules and any number of calls.  *)
THEOREM ImportsAreConsistent == Spec => []ImportsConsistent
<1>1. Init => ImportFlags
  BY DEF Init, ImportFlags
<1> QED BY <1>1, ImportInitial, ImportInductive, ImportFlagsKeep, ImportIInvConsistent, PTL DEF Spec

(***************************************************************************)
(* ModuleLoad.  A module is entered where nothing redirects, so its entry  *)
(* is never replaced and the map only grows: what one load has relied on   *)
(* stays true whatever the others register.  What a load has visited is    *)
(* being fetched, or in the map with all its requests visited or still on  *)
(* the queue of the walk; when nothing is left to fetch or to walk, what   *)
(* it has visited is closed under requests.                                *)
(***************************************************************************)

(* The map and the states of the loads. *)
Kinds == {"js", "wasm", "data"}
InfoType == [name : Names, type : Kinds, main : BOOLEAN, requests : Seq(Requests)]
FetchType == [request : Requests, started : BOOLEAN]
Ended == {"none", "linked", "unlinked", "failed"}

LoadType ==
  /\ root \in [Loads -> Requests \cup {NoRoot}]
  /\ state \in [Loads -> Ended \cup {"init", "loading_root", "loading_imports", "done"}]
  /\ root_module_id \in [Loads -> SUBSET DOMAIN info]
  /\ fetches \in [Loads -> SUBSET FetchType]
  /\ visited \in [Loads -> SUBSET (Names \X RequestedTypes)]
  /\ visited_as_alias \in [Loads -> SUBSET Names]

WalkType ==
  /\ walker = {} \/ \E l \in Loads : walker = {l}
  /\ already_registered \in Seq(DOMAIN info) /\ requests_left \in Seq(Requests)
  /\ walker = {} => already_registered = <<>> /\ requests_left = <<>>

(* A module is entered under the name it was found under, where no alias   *)
(* can replace it: a name that redirects has none but its alias.           *)
InfoOK(names, infos, i) ==
  /\ site.found[infos[i].name] = infos[i].name
  /\ names[<<infos[i].name, RequestedFrom(infos[i].type)>>] = Mod(i)
  /\ infos[i].requests = RequestsIn(infos[i].name, infos[i].type)

EntryOK(names, infos, n, t) ==
  \/ names[<<n, t>>] = Absent
  \/ site.found[n] # n /\ names[<<n, t>>] = Alias(site.found[n])
  \/ site.found[n] = n /\ \E i \in DOMAIN infos :
       names[<<n, t>>] = Mod(i) /\ infos[i].name = n /\ RequestedFrom(infos[i].type) = t

MapOK(names, infos) ==
  /\ DOMAIN names = Names \X RequestedTypes /\ infos \in Seq(InfoType)
  /\ \A i \in DOMAIN infos : InfoOK(names, infos, i)
  /\ \A n \in Names, t \in RequestedTypes : EntryOK(names, infos, n, t)

(* How far a load is: its fields, whether it is the walker, the sources. *)
LoadOKOf(st, rt, ids, fs, vs, as, walks, srcs) ==
  /\ st \notin Ended => rt \in site.entries
  /\ st = "done" => fs = {}
  /\ st \in Ended \/ (st = "init" /\ ~walks) => fs = {} /\ vs = {} /\ as = {}
  /\ st = "loading_root" /\ ~walks => fs = {Pending(rt, TRUE)} /\ vs = {} /\ as = {}
  /\ st = "loading_imports" /\ ~walks => fs # {}
  /\ (walks \/ st \in {"loading_imports", "done"}) /\ rt.phase = "evaluation" => ids # {}
  /\ rt.phase = "source" => ~walks /\ st # "loading_imports"
  /\ rt.phase = "source" /\ st = "done" => <<"requested", rt.name, rt.type>> \in srcs
  /\ walks => st \in {"init", "loading_root", "loading_imports"}

LoadOK(l) ==
  LoadOKOf(state[l], root[l], root_module_id[l], fetches[l], visited[l], visited_as_alias[l],
           l \in walker, sources)

GraphIInv ==
  /\ site \in Sites /\ MapOK(by_name, info) /\ main_module_id \in 0 .. Len(info)
  /\ LoadType /\ WalkType
  /\ \A l \in Loads : LoadOK(l)

(***************************************************************************)
(* The walk.                                                               *)
(***************************************************************************)
SourceRef(n, t) ==
  \E r \in Requests : Imported(site, r) /\ Ref(r) = <<n, t>> /\ r.phase = "source"

InfoKind(i) ==
  /\ info[i].type = "wasm" => /\ <<"requested", info[i].name, "none">> \in sources
                              /\ \A n \in Names : site.found[n] = info[i].name => n = info[i].name
  /\ ~SourceRef(info[i].name, RequestedFrom(info[i].type))

(* This load has considered the request, or is about to. *)
Considered(l, r) == Seen(l, r) \/ (l \in walker /\ r \in ToSet(requests_left))
Walked(l, i) ==
  \/ l \in walker /\ i \in ToSet(already_registered)
  \/ \A r \in RequestsOf(i) : Considered(l, r)
KnownAndWalked(l, n, t) ==
  GetId(by_name, n, t) # {} /\ \A i \in GetId(by_name, n, t) : Walked(l, i)

ToBeFetched(l, n, t) == \E p \in fetches[l] : Ref(p.request) = <<n, t>>

VisitedRefOK(l, ref) ==
  \/ ToBeFetched(l, ref[1], ref[2])
  \/ IF SourceRef(ref[1], ref[2]) THEN <<"requested", ref[1], ref[2]>> \in sources
     ELSE KnownAndWalked(l, ref[1], ref[2])

AliasOK(l, m) ==
  /\ \E n \in Names : n # m /\ site.found[n] = m
  /\ KnownAndWalked(l, m, "none")

RootOK(l) ==
  /\ state[l] = "init" => root_module_id[l] \subseteq GetId(by_name, root[l].name, root[l].type)
  /\ (l \in walker \/ state[l] \in {"loading_imports", "done"}) /\ root[l].phase = "evaluation" =>
       \A i \in root_module_id[l] : Walked(l, i)

FetchesOK(l) ==
  ~(state[l] = "loading_root" /\ l \notin walker) =>
    \A p \in fetches[l] : Imported(site, p.request)

LoadWalkOK(l) ==
  /\ \A ref \in visited[l] : VisitedRefOK(l, ref)
  /\ \A m \in visited_as_alias[l] : AliasOK(l, m)
  /\ RootOK(l) /\ FetchesOK(l)

QueueOK ==
  \A l \in walker :
    /\ \A i \in ToSet(already_registered) :
         info[i].type = "wasm" => <<info[i].name, "none">> \in visited[l]
    /\ \A r \in ToSet(requests_left) : Imported(site, r) \/ Ref(r) \in visited[l]

WalkIInv ==
  /\ \A i \in DOMAIN info : InfoKind(i)
  /\ \A l \in Loads : LoadWalkOK(l)
  /\ QueueOK

(***************************************************************************)
(* Names.                                                                  *)
(***************************************************************************)
LEMMA Shapes ==
  /\ Absent.at = "absent"
  /\ \A i : Mod(i).at = "mod" /\ Mod(i).id = i
  /\ \A n : Alias(n).at = "alias" /\ Alias(n).to = n
BY DEF Absent, Mod, Alias

LEMMA SiteFacts ==
  ASSUME site \in Sites
  PROVE  /\ site.found \in [Names -> Names] /\ site.kind \in [Names -> {"js", "wasm"}]
         /\ site.imports \in [Names -> Seq(Requests)] /\ site.entries \subseteq Requests
BY GraphAssumption DEF SiteType

LEMMA RequestFacts ==
  ASSUME NEW r \in Requests
  PROVE  /\ r.name \in Names /\ r.type \in {"none", "data"} /\ r.type \in RequestedTypes
         /\ r.phase \in {"evaluation", "source"}
         /\ Ref(r) = <<r.name, r.type>> /\ Ref(r) \in Names \X RequestedTypes
BY DEF Requests, Phases, RequestedTypes, Ref

(* The loader answers with the requested type: a module and the alias that *)
(* leads to it are entered under that type.                                *)
LEMMA AnswerFacts ==
  ASSUME site \in Sites, NEW r \in Requests
  PROVE  /\ Found(r) \in Names /\ LoadedType(r) \in Kinds /\ RequestedFrom(LoadedType(r)) = r.type
         /\ LoadedType(r) = "wasm" => r.type = "none" /\ site.kind[Found(r)] = "wasm"
         /\ RequestsIn(Found(r), LoadedType(r)) \in Seq(Requests)
<1>1. Found(r) \in Names /\ site.kind[Found(r)] \in {"js", "wasm"}
  BY SiteFacts, RequestFacts DEF Found
<1>2. /\ LoadedType(r) \in Kinds /\ RequestedFrom(LoadedType(r)) = r.type
      /\ LoadedType(r) = "wasm" => r.type = "none" /\ site.kind[Found(r)] = "wasm"
  BY <1>1, RequestFacts DEF LoadedType, RequestedFrom, Kinds
<1>3. RequestsIn(Found(r), LoadedType(r)) \in Seq(Requests)
  <2> DEFINE n == Found(r)
             own == [name |-> n, type |-> "none", phase |-> "source"]
  <2>1. site.imports[n] \in Seq(Requests) /\ own \in Requests
    BY <1>1, SiteFacts DEF Requests, RequestedTypes, Phases
  <2>2. <<own>> \in Seq(Requests)
    BY <2>1
  <2>3. <<own>> \o site.imports[n] \in Seq(Requests)
    BY <2>1, <2>2, ConcatProperties
  <2> QED BY <2>1, <2>3 DEF RequestsIn
<1> QED BY <1>1, <1>2, <1>3

LEMMA RequestsInSeq ==
  ASSUME site \in Sites, NEW n \in Names, NEW ty \in Kinds
  PROVE  RequestsIn(n, ty) \in Seq(Requests)
<1> DEFINE own == [name |-> n, type |-> "none", phase |-> "source"]
<1>1. site.imports[n] \in Seq(Requests) /\ own \in Requests
  BY SiteFacts DEF Requests, RequestedTypes, Phases
<1>2. <<own>> \in Seq(Requests)
  BY <1>1
<1>3. <<own>> \o site.imports[n] \in Seq(Requests)
  BY <1>1, <1>2, ConcatProperties
<1> QED BY <1>1, <1>3 DEF RequestsIn, Kinds

LEMMA InfoFacts ==
  ASSUME NEW names, NEW infos, MapOK(names, infos), NEW i \in DOMAIN infos
  PROVE  /\ infos[i].name \in Names /\ infos[i].type \in Kinds
         /\ infos[i].requests \in Seq(Requests) /\ i \in Nat /\ InfoOK(names, infos, i)
<1>1. infos \in Seq(InfoType) /\ InfoOK(names, infos, i)
  BY DEF MapOK
<1>2. infos[i] \in InfoType /\ i \in Nat
  BY <1>1
<1> QED BY <1>1, <1>2 DEF InfoType

(* What get_id finds: the entry of the name itself, or of where it         *)
(* redirects to.                                                           *)
IdOf(names, n, t) ==
  IF names[<<n, t>>] # Absent /\ names[<<site.found[n], t>>].at = "mod"
  THEN {names[<<site.found[n], t>>].id} ELSE {}

Aliases(names) ==
  \A n \in Names, t \in RequestedTypes :
    \/ names[<<n, t>>] = Absent
    \/ site.found[n] # n /\ names[<<n, t>>] = Alias(site.found[n])
    \/ site.found[n] = n /\ \E i \in Nat : names[<<n, t>>] = Mod(i)

LEMMA GetIdIsIdOf ==
  ASSUME RedirectsSettle, site \in Sites, NEW names, Aliases(names),
         NEW n \in Names, NEW t \in RequestedTypes
  PROVE  GetId(names, n, t) = IdOf(names, n, t)
<1> DEFINE f == site.found[n]
<1>1. f \in Names /\ site.found[f] = f
  BY SiteFacts DEF RedirectsSettle
<1>2. /\ names[<<f, t>>] = Absent \/ \E i \in Nat : names[<<f, t>>] = Mod(i)
      /\ \/ names[<<n, t>>] = Absent \/ (f # n /\ names[<<n, t>>] = Alias(f))
         \/ (f = n /\ \E i \in Nat : names[<<n, t>>] = Mod(i))
  BY <1>1 DEF Aliases
<1>3. names[<<f, t>>].at # "alias" /\ (names[<<f, t>>].at = "mod" => names[<<f, t>>] # Absent)
  BY <1>2, Shapes
<1>4. CASE names[<<n, t>>].at = "alias"
  <2>1. f # n /\ names[<<n, t>>].to = f /\ names[<<n, t>>] # Absent
    BY <1>2, <1>4, Shapes
  <2>2. f \in Followed(names, n, t)
    BY <1>1, <1>4, <2>1 DEF Followed
  <2>3. Followed(names, n, t) \subseteq {n, f}
    <3>1. {n, f} \in SUBSET Names
      BY <1>1
    <3>2. \A y \in {n, f} : names[<<y, t>>].at = "alias" => names[<<y, t>>].to \in {n, f}
      BY <1>3, <2>1
    <3> QED BY <3>1, <3>2 DEF Followed
  <2>4. {y \in Followed(names, n, t) : names[<<y, t>>].at = "mod"}
          = IF names[<<f, t>>].at = "mod" THEN {f} ELSE {}
    BY <1>4, <2>2, <2>3
  <2>5. GetId(names, n, t) = IF names[<<f, t>>].at = "mod" THEN {names[<<f, t>>].id} ELSE {}
    BY <2>4 DEF GetId
  <2> QED BY <2>1, <2>5 DEF IdOf
<1>5. CASE names[<<n, t>>].at # "alias"
  <2>1. {n} \in SUBSET Names /\ \A y \in {n} : names[<<y, t>>].at = "alias" => names[<<y, t>>].to \in {n}
    BY <1>5
  <2>2. Followed(names, n, t) = {n}
    BY <2>1 DEF Followed
  <2>3. GetId(names, n, t) = IF names[<<n, t>>].at = "mod" THEN {names[<<n, t>>].id} ELSE {}
    BY <2>2 DEF GetId
  <2>4. names[<<n, t>>] = Absent \/ (f = n /\ names[<<n, t>>].at = "mod" /\ names[<<n, t>>] # Absent)
    BY <1>2, <1>5, Shapes
  <2>5. names[<<n, t>>] = Absent => names[<<n, t>>].at # "mod"
    BY Shapes
  <2> QED BY <2>3, <2>4, <2>5 DEF IdOf
<1> QED BY <1>4, <1>5

LEMMA MapIsAliases ==
  ASSUME NEW names, NEW infos, MapOK(names, infos)
  PROVE  Aliases(names)
<1>1. DOMAIN infos \subseteq Nat
  BY LenProperties DEF MapOK
<1> QED BY <1>1 DEF MapOK, EntryOK, Aliases

(* A name stands for one module at most, which was found where the name    *)
(* leads and has the type asked for.                                       *)
StandsFor(names, infos, n, t, i) ==
  /\ i \in DOMAIN infos /\ GetId(names, n, t) = {i}
  /\ infos[i].name = site.found[n] /\ RequestedFrom(infos[i].type) = t
  /\ names[<<site.found[n], t>>] = Mod(i)

LEMMA KnownIdAt ==
  ASSUME RedirectsSettle, site \in Sites, NEW names, NEW infos, MapOK(names, infos),
         NEW n \in Names, NEW t \in RequestedTypes, NEW i \in GetId(names, n, t)
  PROVE  StandsFor(names, infos, n, t, i)
<1> DEFINE f == site.found[n]
<1>1. GetId(names, n, t) = IdOf(names, n, t)
  BY MapIsAliases, GetIdIsIdOf
<1>2. f \in Names /\ site.found[f] = f
  BY SiteFacts DEF RedirectsSettle
<1>3. names[<<f, t>>].at = "mod" /\ i = names[<<f, t>>].id /\ IdOf(names, n, t) = {i}
  BY <1>1 DEF IdOf
<1>4. EntryOK(names, infos, f, t)
  BY <1>2 DEF MapOK
<1>5. names[<<f, t>>] # Absent /\ \A m : names[<<f, t>>] # Alias(m)
  BY <1>3, Shapes
<1>6. PICK j \in DOMAIN infos :
        names[<<f, t>>] = Mod(j) /\ infos[j].name = f /\ RequestedFrom(infos[j].type) = t
  BY <1>4, <1>5 DEF EntryOK
<1>7. j = i
  BY <1>3, <1>6, Shapes
<1> QED BY <1>1, <1>3, <1>6, <1>7 DEF StandsFor

LEMMA KnownIds ==
  ASSUME RedirectsSettle, site \in Sites, NEW names, NEW infos, MapOK(names, infos),
         NEW n \in Names, NEW t \in RequestedTypes
  PROVE  \A i \in GetId(names, n, t) : i \in DOMAIN infos
BY KnownIdAt DEF StandsFor

(* The map only grows. *)
Grows(old, new) == \A k \in Names \X RequestedTypes : old[k] # Absent => new[k] = old[k]

LEMMA KnownStaysKnown ==
  ASSUME RedirectsSettle, site \in Sites, NEW old, NEW new, NEW olds, NEW news,
         MapOK(old, olds), MapOK(new, news), Grows(old, new),
         NEW n \in Names, NEW t \in RequestedTypes, GetId(old, n, t) # {}
  PROVE  GetId(new, n, t) = GetId(old, n, t)
<1>1. GetId(old, n, t) = IdOf(old, n, t) /\ GetId(new, n, t) = IdOf(new, n, t)
  <2>1. Aliases(old) /\ Aliases(new)
    BY MapIsAliases
  <2> QED BY <2>1, GetIdIsIdOf
<1>2. /\ old[<<n, t>>] # Absent /\ old[<<site.found[n], t>>].at = "mod"
      /\ site.found[n] \in Names
  <2>1. site.found[n] \in Names
    BY SiteFacts
  <2> QED BY <1>1, <2>1 DEF IdOf
<1>3. old[<<site.found[n], t>>] # Absent
  BY <1>2, Shapes
<1>4. new[<<n, t>>] = old[<<n, t>>] /\ new[<<site.found[n], t>>] = old[<<site.found[n], t>>]
  BY <1>2, <1>3 DEF Grows
<1> QED BY <1>1, <1>2, <1>4 DEF IdOf

LEMMA AliasNoted ==
  ASSUME RedirectsSettle, site \in Sites, MapOK(by_name, info), NEW r \in Requests
  PROVE  /\ MapOK(WithAlias(r), info) /\ Grows(by_name, WithAlias(r))
         /\ WithAlias(r)[<<Found(r), r.type>>] = by_name[<<Found(r), r.type>>]
         /\ Found(r) # r.name => WithAlias(r)[<<r.name, r.type>>] = Alias(Found(r))
<1>0. /\ r.name \in Names /\ r.type \in RequestedTypes /\ Found(r) \in Names
      /\ RequestedFrom(LoadedType(r)) = r.type /\ Found(r) = site.found[r.name]
      /\ site.found[Found(r)] = Found(r)
  BY RequestFacts, AnswerFacts, SiteFacts DEF Found, RedirectsSettle
<1>1. CASE Found(r) = r.name
  BY <1>1 DEF WithAlias, Grows
<1>2. CASE Found(r) # r.name
  <2> DEFINE k == <<r.name, r.type>>
             names == [by_name EXCEPT ![k] = Alias(Found(r))]
  <2>1. WithAlias(r) = names
    BY <1>0, <1>2 DEF WithAlias
  <2>2. k \in DOMAIN by_name /\ DOMAIN by_name = Names \X RequestedTypes
    BY <1>0 DEF MapOK
  <2>3. /\ names[k] = Alias(Found(r)) /\ DOMAIN names = Names \X RequestedTypes
        /\ \A j \in Names \X RequestedTypes : j # k => names[j] = by_name[j]
    BY <2>2
  <2> HIDE DEF names
  <2>4. EntryOK(by_name, info, r.name, r.type)
    BY <1>0 DEF MapOK
  <2>5. by_name[k] = Absent \/ by_name[k] = names[k]
    BY <1>0, <1>2, <2>3, <2>4 DEF EntryOK
  <2>6. Grows(by_name, names)
    BY <2>3, <2>5 DEF Grows
  <2>7. ASSUME NEW i \in DOMAIN info PROVE InfoOK(names, info, i)
    <3>1. InfoOK(by_name, info, i) /\ info[i] \in InfoType
      BY <2>7, ElementOfSeq DEF MapOK
    <3>2. info[i].name \in Names /\ RequestedFrom(info[i].type) \in RequestedTypes
      BY <3>1 DEF InfoType, RequestedFrom, RequestedTypes
    <3>3. <<info[i].name, RequestedFrom(info[i].type)>> # k
      BY <1>0, <1>2, <3>1 DEF InfoOK
    <3> QED BY <2>3, <3>1, <3>2, <3>3 DEF InfoOK
  <2>8. ASSUME NEW n \in Names, NEW t \in RequestedTypes PROVE EntryOK(names, info, n, t)
    <3>1. EntryOK(by_name, info, n, t)
      BY DEF MapOK
    <3>2. CASE <<n, t>> = k
      BY <1>0, <1>2, <2>3, <3>2 DEF EntryOK
    <3>3. CASE <<n, t>> # k
      <4>1. names[<<n, t>>] = by_name[<<n, t>>]
        BY <2>3, <3>3
      <4> QED BY <3>1, <4>1 DEF EntryOK
    <3> QED BY <3>2, <3>3
  <2>9. MapOK(names, info)
    BY <2>3, <2>7, <2>8 DEF MapOK
  <2>10. names[<<Found(r), r.type>>] = by_name[<<Found(r), r.type>>]
    BY <1>0, <1>2, <2>3
  <2> QED BY <2>1, <2>3, <2>6, <2>9, <2>10
<1> QED BY <1>1, <1>2

NewInfo(r, main) ==
  [name |-> Found(r), type |-> LoadedType(r), main |-> main,
   requests |-> RequestsIn(Found(r), LoadedType(r))]

LEMMA InfoAppended ==
  ASSUME NEW S, NEW s \in Seq(S), NEW x \in S
  PROVE  /\ Append(s, x) \in Seq(S) /\ Len(Append(s, x)) = Len(s) + 1 /\ Len(s) \in Nat
         /\ DOMAIN Append(s, x) = DOMAIN s \cup {Len(s) + 1} /\ Len(s) + 1 \notin DOMAIN s
         /\ \A i \in DOMAIN s : Append(s, x)[i] = s[i]
         /\ Append(s, x)[Len(s) + 1] = x
OBVIOUS

LEMMA ModuleEntered ==
  ASSUME RedirectsSettle, site \in Sites, NEW names, MapOK(names, info), NEW r \in Requests,
         names[<<Found(r), r.type>>] = Absent, NEW main \in BOOLEAN,
         NEW new, new = [names EXCEPT ![<<Found(r), r.type>>] = Mod(Len(info) + 1)],
         NEW infos, infos = Append(info, NewInfo(r, main))
  PROVE  MapOK(new, infos) /\ Grows(names, new) /\ new[<<Found(r), r.type>>] = Mod(Len(info) + 1)
<1> DEFINE k == <<Found(r), r.type>>
           id == Len(info) + 1
           x == NewInfo(r, main)
<1>0. /\ Found(r) \in Names /\ r.type \in RequestedTypes
      /\ RequestedFrom(LoadedType(r)) = r.type /\ site.found[Found(r)] = Found(r)
  BY RequestFacts, AnswerFacts, SiteFacts DEF Found, RedirectsSettle
<1>1. /\ x \in InfoType /\ x.name = Found(r) /\ x.type = LoadedType(r)
      /\ x.requests = RequestsIn(Found(r), LoadedType(r))
  BY AnswerFacts DEF NewInfo, InfoType
<1> HIDE DEF x
<1>2. info \in Seq(InfoType) /\ DOMAIN names = Names \X RequestedTypes
  BY DEF MapOK
<1>3. /\ infos \in Seq(InfoType) /\ DOMAIN infos = DOMAIN info \cup {id} /\ id \notin DOMAIN info
      /\ \A i \in DOMAIN info : infos[i] = info[i]
      /\ infos[id] = x
  BY <1>1, <1>2, InfoAppended DEF x
<1>4. /\ new[k] = Mod(id) /\ DOMAIN new = Names \X RequestedTypes
      /\ \A j \in Names \X RequestedTypes : j # k => new[j] = names[j]
  BY <1>0, <1>2
<1> HIDE DEF id
<1>5. Grows(names, new)
  BY <1>4 DEF Grows
<1>6. ASSUME NEW i \in DOMAIN infos PROVE InfoOK(new, infos, i)
  <2>1. CASE i = id
    BY <1>0, <1>1, <1>3, <1>4, <2>1 DEF InfoOK
  <2>2. CASE i \in DOMAIN info
    <3>1. InfoOK(names, info, i) /\ info[i] \in InfoType /\ infos[i] = info[i]
      BY <1>2, <1>3, <2>2, ElementOfSeq DEF MapOK
    <3>2. <<info[i].name, RequestedFrom(info[i].type)>> \in Names \X RequestedTypes
      BY <3>1 DEF InfoType, RequestedFrom, RequestedTypes
    <3>3. names[<<info[i].name, RequestedFrom(info[i].type)>>] # Absent
      BY <3>1, Shapes DEF InfoOK
    <3>4. new[<<info[i].name, RequestedFrom(info[i].type)>>]
            = names[<<info[i].name, RequestedFrom(info[i].type)>>]
      BY <1>5, <3>2, <3>3 DEF Grows
    <3> QED BY <3>1, <3>4 DEF InfoOK
  <2> QED BY <1>3, <2>1, <2>2
<1>7. ASSUME NEW n \in Names, NEW t \in RequestedTypes PROVE EntryOK(new, infos, n, t)
  <2>1. EntryOK(names, info, n, t)
    BY DEF MapOK
  <2>2. CASE <<n, t>> = k
    <3>1. n = Found(r) /\ t = r.type
      BY <2>2
    <3>2. site.found[n] = n /\ id \in DOMAIN infos
      BY <1>0, <1>3, <3>1
    <3>3. new[<<n, t>>] = Mod(id) /\ infos[id].name = n /\ RequestedFrom(infos[id].type) = t
      BY <1>0, <1>1, <1>3, <1>4, <2>2, <3>1
    <3> QED BY <3>2, <3>3 DEF EntryOK
  <2>3. CASE <<n, t>> # k
    <3>1. new[<<n, t>>] = names[<<n, t>>]
      BY <1>4, <2>3
    <3> QED BY <1>3, <2>1, <3>1 DEF EntryOK
  <2> QED BY <2>2, <2>3
<1>8. MapOK(new, infos)
  BY <1>3, <1>4, <1>6, <1>7 DEF MapOK
<1> QED BY <1>4, <1>5, <1>8 DEF id

(***************************************************************************)
(* The map and the states of the loads are kept by every step.             *)
(***************************************************************************)
SameLoad(k) ==
  /\ state'[k] = state[k] /\ root'[k] = root[k] /\ root_module_id'[k] = root_module_id[k]
  /\ fetches'[k] = fetches[k] /\ visited'[k] = visited[k]
  /\ visited_as_alias'[k] = visited_as_alias[k] /\ ((k \in walker') = (k \in walker))

SameMap == UNCHANGED <<site, by_name, info, main_module_id, sources>>

LEMMA OtherLoadStays ==
  ASSUME NEW k, LoadOK(k), site' = site, sources \subseteq sources', SameLoad(k)
  PROVE  LoadOK(k)'
BY DEF LoadOK, LoadOKOf, SameLoad

LEMMA Combined ==
  ASSUME GraphIInv, NEW l \in Loads, site' = site, MapOK(by_name, info)',
         main_module_id' \in 0 .. Len(info'), LoadType', WalkType', sources \subseteq sources',
         \A k \in Loads \ {l} : SameLoad(k), LoadOK(l)'
  PROVE  GraphIInv'
<1>1. ASSUME NEW k \in Loads PROVE LoadOK(k)'
  <2>1. CASE k = l
    BY <2>1
  <2>2. CASE k # l
    BY <2>2, OtherLoadStays DEF GraphIInv
  <2> QED BY <2>1, <2>2
<1> QED BY <1>1 DEF GraphIInv

LEMMA CombinedSameMap ==
  ASSUME GraphIInv, NEW l \in Loads, SameMap, LoadType', WalkType',
         \A k \in Loads \ {l} : SameLoad(k), LoadOK(l)'
  PROVE  GraphIInv'
<1>1. /\ site' = site /\ main_module_id' \in 0 .. Len(info') /\ sources \subseteq sources'
  BY DEF SameMap, GraphIInv
<1>2. MapOK(by_name, info)'
  BY DEF SameMap, GraphIInv, MapOK, InfoOK, EntryOK, RequestsIn
<1> QED BY <1>1, <1>2, Combined

LEMMA HeadAndTail ==
  ASSUME NEW S, NEW s \in Seq(S), s # <<>>
  PROVE  /\ Tail(s) \in Seq(S) /\ Head(s) \in S /\ Head(s) \in ToSet(s)
         /\ \A x \in ToSet(s) : x = Head(s) \/ x \in ToSet(Tail(s))
         /\ \A x \in ToSet(Tail(s)) : x \in ToSet(s)
<1>1. /\ Len(s) \in Nat \ {0} /\ DOMAIN s = 1 .. Len(s)
      /\ Tail(s) \in Seq(S) /\ Head(s) = s[1] /\ Head(s) \in S
      /\ DOMAIN Tail(s) = 1 .. Len(s) - 1
      /\ \A i \in 1 .. Len(s) - 1 : Tail(s)[i] = s[i + 1]
  OBVIOUS
<1>2. ASSUME NEW i \in DOMAIN s PROVE s[i] = Head(s) \/ s[i] \in ToSet(Tail(s))
  <2>1. CASE i = 1
    BY <2>1, <1>1
  <2>2. CASE i # 1
    <3>1. i - 1 \in DOMAIN Tail(s) /\ Tail(s)[i - 1] = s[i]
      BY <2>2, <1>1
    <3> QED BY <3>1 DEF ToSet
  <2> QED BY <2>1, <2>2
<1>3. ASSUME NEW i \in DOMAIN Tail(s) PROVE Tail(s)[i] \in ToSet(s)
  BY <1>1 DEF ToSet
<1>4. Head(s) \in ToSet(s)
  BY <1>1 DEF ToSet
<1> QED BY <1>1, <1>2, <1>3, <1>4 DEF ToSet

LEMMA PopModuleKeeps ==
  ASSUME GraphIInv, NEW l \in walker, PopModule(l)
  PROVE  GraphIInv'
<1>1. l \in Loads /\ walker # {}
  BY DEF GraphIInv, WalkType
<1>2. /\ Tail(already_registered) \in Seq(DOMAIN info) /\ Head(already_registered) \in DOMAIN info
  BY HeadAndTail DEF PopModule, GraphIInv, WalkType
<1>3. info[Head(already_registered)].requests \in Seq(Requests)
  BY <1>2, InfoFacts DEF GraphIInv
<1>4. WalkType'
  BY <1>1, <1>2, <1>3 DEF PopModule, mapVars, GraphIInv, WalkType
<1>5. LoadType' /\ SameMap /\ \A k \in Loads : SameLoad(k)
  BY DEF PopModule, GraphIInv, LoadType, SameMap, SameLoad, mapVars, rmlVars
<1>6. LoadOK(l)'
  BY <1>1, <1>5, OtherLoadStays DEF GraphIInv, SameMap
<1> QED BY <1>1, <1>4, <1>5, <1>6, CombinedSameMap

LEMMA SkipRequestKeeps ==
  ASSUME GraphIInv, NEW l \in walker, SkipRequest(l)
  PROVE  GraphIInv'
<1>1. l \in Loads /\ walker # {}
  BY DEF GraphIInv, WalkType
<1>2. Tail(requests_left) \in Seq(Requests)
  BY HeadAndTail DEF SkipRequest, GraphIInv, WalkType
<1>4. WalkType'
  BY <1>1, <1>2 DEF SkipRequest, mapVars, GraphIInv, WalkType
<1>5. LoadType' /\ SameMap /\ \A k \in Loads : SameLoad(k)
  BY DEF SkipRequest, GraphIInv, LoadType, SameMap, SameLoad, mapVars, rmlVars
<1>6. LoadOK(l)'
  BY <1>1, <1>5, OtherLoadStays DEF GraphIInv, SameMap
<1> QED BY <1>1, <1>4, <1>5, <1>6, CombinedSameMap

LEMMA WalkKnownKeeps ==
  ASSUME RedirectsSettle, GraphIInv, NEW l \in walker, WalkKnown(l)
  PROVE  GraphIInv'
<1> DEFINE r == Head(requests_left)
           known == KnownId(by_name, r)
<1>1. l \in Loads /\ walker # {} /\ walker' = walker
  BY DEF GraphIInv, WalkType, WalkKnown
<1>2. Tail(requests_left) \in Seq(Requests) /\ r \in Requests
  BY HeadAndTail DEF WalkKnown, GraphIInv, WalkType
<1>3. (CHOOSE id \in known : TRUE) \in DOMAIN info
  <2>1. known # {} /\ known = GetId(by_name, r.name, r.type)
    BY DEF WalkKnown, KnownId
  <2>2. (CHOOSE id \in known : TRUE) \in known
    BY <2>1
  <2>3. \A i \in GetId(by_name, r.name, r.type) : i \in DOMAIN info
    BY <1>2, RequestFacts, KnownIds DEF GraphIInv
  <2> QED BY <2>1, <2>2, <2>3
<1>4. Queued(known) \in Seq(DOMAIN info)
  BY <1>3, InfoAppended DEF Queued, GraphIInv, WalkType
<1>5. WalkType'
  BY <1>1, <1>2, <1>4 DEF WalkKnown, mapVars, GraphIInv, WalkType
<1>6. Ref(r) \in Names \X RequestedTypes
  BY <1>2, RequestFacts
<1>7. /\ visited' = [visited EXCEPT ![l] = @ \cup {Ref(r)}] /\ SameMap
      /\ UNCHANGED <<root, state, root_module_id, fetches, visited_as_alias, walker>>
  BY DEF WalkKnown, SameMap, mapVars
<1>8. LoadType' /\ \A k \in Loads \ {l} : SameLoad(k)
  BY <1>1, <1>6, <1>7 DEF GraphIInv, LoadType, SameLoad, SameMap
<1>9. LoadOK(l)'
  <2>1. LoadOK(l) /\ visited'[l] = visited[l] \cup {Ref(r)}
    BY <1>1, <1>7 DEF GraphIInv, LoadType
  <2> QED BY <1>1, <1>7, <2>1 DEF LoadOK, LoadOKOf, SameMap, Ended
<1> QED BY <1>1, <1>5, <1>7, <1>8, <1>9, CombinedSameMap

LEMMA AddFetchKeeps ==
  ASSUME GraphIInv, NEW l \in walker, AddFetch(l)
  PROVE  GraphIInv'
<1> DEFINE r == Head(requests_left)
<1>1. l \in Loads /\ walker # {} /\ walker' = walker
  BY DEF GraphIInv, WalkType, AddFetch
<1>2. Tail(requests_left) \in Seq(Requests) /\ r \in Requests
  BY HeadAndTail DEF AddFetch, GraphIInv, WalkType
<1>5. WalkType'
  BY <1>1, <1>2 DEF AddFetch, mapVars, GraphIInv, WalkType
<1>6. Ref(r) \in Names \X RequestedTypes /\ Pending(r, FALSE) \in FetchType
  BY <1>2, RequestFacts DEF Pending, FetchType
<1>7. /\ visited' = [visited EXCEPT ![l] = @ \cup {Ref(r)}] /\ SameMap
      /\ fetches' = [fetches EXCEPT ![l] = @ \cup {Pending(r, FALSE)}]
      /\ UNCHANGED <<root, state, root_module_id, visited_as_alias, walker>>
  BY DEF AddFetch, SameMap, mapVars
<1>8. LoadType' /\ \A k \in Loads \ {l} : SameLoad(k)
  <2>1. UNCHANGED info
    BY <1>7 DEF SameMap
  <2> QED BY <1>1, <1>6, <1>7, <2>1 DEF GraphIInv, LoadType, SameLoad
<1>9. LoadOK(l)'
  <2>1. LoadOK(l) /\ visited'[l] = visited[l] \cup {Ref(r)}
        /\ fetches'[l] = fetches[l] \cup {Pending(r, FALSE)}
    BY <1>1, <1>7 DEF GraphIInv, LoadType
  <2> QED BY <1>1, <1>7, <2>1 DEF LoadOK, LoadOKOf, SameMap, Ended
<1> QED BY <1>1, <1>5, <1>7, <1>8, <1>9, CombinedSameMap

LEMMA WalkEndsKeeps ==
  ASSUME GraphIInv, NEW l \in walker, WalkEnds(l)
  PROVE  GraphIInv'
<1>1. l \in Loads /\ walker = {l}
  BY DEF GraphIInv, WalkType
<1>2. /\ walker' = {} /\ state' = [state EXCEPT ![l] = StateAfter(l)] /\ SameMap
      /\ already_registered' = <<>> /\ requests_left' = <<>>
      /\ UNCHANGED <<root, root_module_id, fetches, visited, visited_as_alias>>
  BY DEF WalkEnds, SameMap, mapVars
<1>3. WalkType'
  BY <1>2 DEF WalkType
<1>4. StateAfter(l) = IF fetches[l] = {} THEN "done" ELSE "loading_imports"
  BY DEF StateAfter
<1>5. LoadType' /\ state'[l] = StateAfter(l) /\ \A k \in Loads \ {l} : SameLoad(k)
  BY <1>1, <1>2, <1>4 DEF GraphIInv, LoadType, SameLoad, SameMap
<1>6. LoadOK(l)'
  <2>1. LoadOK(l)
    BY <1>1 DEF GraphIInv
  <2> QED BY <1>1, <1>2, <1>4, <1>5, <2>1 DEF LoadOK, LoadOKOf, SameMap, Ended
<1> QED BY <1>1, <1>2, <1>3, <1>5, <1>6, CombinedSameMap

LEMMA RootIsKnownKeeps ==
  ASSUME GraphIInv, NEW l \in Loads, walker = {}, RootIsKnown(l)
  PROVE  GraphIInv'
<1>1. PICK id \in root_module_id[l] : RecurseFrom(l, id, root[l])
  BY DEF RootIsKnown
<1>2. /\ state[l] = "init" /\ root[l].phase = "evaluation" /\ SameMap
      /\ walker' = {l} /\ already_registered' = <<id>> /\ requests_left' = <<>>
      /\ visited' = [visited EXCEPT ![l] = @ \cup {Ref(root[l])}]
      /\ UNCHANGED <<root, state, root_module_id, fetches, visited_as_alias>>
  BY <1>1 DEF RootIsKnown, RecurseFrom, SameMap, mapVars
<1>3. LoadOK(l) /\ root[l] \in Requests /\ id \in DOMAIN info
  <2>1. LoadOK(l) /\ state[l] \notin Ended /\ site \in Sites
    BY <1>2 DEF GraphIInv, Ended
  <2>2. root[l] \in site.entries
    BY <2>1 DEF LoadOK, LoadOKOf
  <2> QED BY <1>1, <2>1, <2>2, SiteFacts DEF GraphIInv, LoadType
<1>4. WalkType'
  <2>1. <<id>> \in Seq(DOMAIN info)
    BY <1>3
  <2> QED BY <1>2, <2>1 DEF WalkType, SameMap
<1>5. Ref(root[l]) \in Names \X RequestedTypes
  BY <1>3, RequestFacts
<1>6. LoadType' /\ \A k \in Loads \ {l} : SameLoad(k)
  <2>1. UNCHANGED info
    BY <1>2 DEF SameMap
  <2> QED BY <1>2, <1>5, <2>1 DEF GraphIInv, LoadType, SameLoad
<1>7. LoadOK(l)'
  <2>1. l \in walker' /\ root_module_id[l] # {} /\ sources' = sources /\ site' = site
    BY <1>1, <1>2 DEF SameMap
  <2> QED BY <1>2, <1>3, <2>1 DEF LoadOK, LoadOKOf, Ended
<1> QED BY <1>2, <1>4, <1>6, <1>7, CombinedSameMap

LEMMA FetchRootKeeps ==
  ASSUME GraphIInv, NEW l \in Loads, walker = {}, FetchRoot(l)
  PROVE  GraphIInv'
<1>2. /\ state[l] = "init" /\ SameMap /\ UNCHANGED walkVars
      /\ fetches' = [fetches EXCEPT ![l] = {Pending(root[l], TRUE)}]
      /\ state' = [state EXCEPT ![l] = "loading_root"]
      /\ UNCHANGED <<root, root_module_id, visited, visited_as_alias>>
  BY DEF FetchRoot, SameMap, mapVars
<1>3. LoadOK(l) /\ root[l] \in Requests
  <2>1. LoadOK(l) /\ state[l] \notin Ended /\ site \in Sites
    BY <1>2 DEF GraphIInv, Ended
  <2>2. root[l] \in site.entries
    BY <2>1 DEF LoadOK, LoadOKOf
  <2> QED BY <2>1, <2>2, SiteFacts
<1>4. WalkType' /\ walker' = {}
  BY <1>2 DEF WalkType, SameMap, GraphIInv, walkVars
<1>5. Pending(root[l], TRUE) \in FetchType
  BY <1>3 DEF Pending, FetchType
<1>6. LoadType' /\ \A k \in Loads \ {l} : SameLoad(k)
  <2>1. UNCHANGED info
    BY <1>2 DEF SameMap
  <2> QED BY <1>2, <1>4, <1>5, <2>1 DEF GraphIInv, LoadType, SameLoad
<1>7. LoadOK(l)'
  <2>1. /\ sources' = sources /\ site' = site /\ state'[l] = "loading_root"
        /\ fetches'[l] = {Pending(root[l], TRUE)} /\ l \notin walker
    BY <1>2 DEF SameMap, GraphIInv, LoadType
  <2> QED BY <1>2, <1>3, <1>4, <2>1 DEF LoadOK, LoadOKOf, Ended
<1> QED BY <1>2, <1>4, <1>6, <1>7, CombinedSameMap

LEMMA NewLoadKeeps ==
  ASSUME RedirectsSettle, GraphIInv, NEW l \in Loads, walker = {},
         NEW how, NEW r \in site.entries, NewLoad(l, how, r)
  PROVE  GraphIInv'
<1> DEFINE ids == GetId(by_name, r.name, r.type)
<1>1. r \in Requests /\ site \in Sites
  BY SiteFacts DEF GraphIInv
<1>2. /\ state[l] = "none" /\ SameMap /\ UNCHANGED walkVars
      /\ state' = [state EXCEPT ![l] = "init"] /\ root' = [root EXCEPT ![l] = r]
      /\ root_module_id' = [root_module_id EXCEPT ![l] = ids]
      /\ UNCHANGED <<fetches, visited, visited_as_alias>>
  BY DEF NewLoad, SameMap, mapVars
<1>3. ids \subseteq DOMAIN info
  BY <1>1, RequestFacts, KnownIds DEF GraphIInv
<1> HIDE DEF ids
<1>4. WalkType' /\ walker' = {}
  BY <1>2 DEF WalkType, SameMap, GraphIInv, walkVars
<1>6. LoadType' /\ \A k \in Loads \ {l} : SameLoad(k)
  <2>1. UNCHANGED info
    BY <1>2 DEF SameMap
  <2> QED BY <1>1, <1>2, <1>3, <1>4, <2>1 DEF GraphIInv, LoadType, SameLoad
<1>7. LoadOK(l)'
  <2>1. /\ sources' = sources /\ site' = site /\ state'[l] = "init" /\ root'[l] = r
        /\ l \notin walker /\ LoadOK(l)
    BY <1>2 DEF SameMap, GraphIInv, LoadType
  <2> QED BY <1>1, <1>2, <1>4, <2>1 DEF LoadOK, LoadOKOf, Ended
<1> QED BY <1>2, <1>4, <1>6, <1>7, CombinedSameMap

LEMMA FetchStartsKeeps ==
  ASSUME GraphIInv, NEW l \in Loads, walker = {}, NEW p \in fetches[l], FetchStarts(l, p)
  PROVE  GraphIInv'
<1> DEFINE q == Pending(p.request, TRUE)
<1>1. p \in FetchType /\ p.request \in Requests /\ q \in FetchType
  BY DEF GraphIInv, LoadType, FetchType, Pending
<1>2. /\ Loading(l) /\ ~p.started /\ SameMap /\ UNCHANGED walkVars
      /\ fetches' = [fetches EXCEPT ![l] = (@ \ {p}) \cup {q}]
      /\ UNCHANGED <<root, state, root_module_id, visited, visited_as_alias>>
  BY DEF FetchStarts, SameMap, mapVars
<1>4. WalkType' /\ walker' = {}
  BY <1>2 DEF WalkType, SameMap, GraphIInv, walkVars
<1>5. state[l] = "loading_imports"
  <2>1. LoadOK(l)
    BY DEF GraphIInv
  <2>2. state[l] # "loading_root"
    BY <1>2, <2>1 DEF LoadOK, LoadOKOf, Pending
  <2> QED BY <1>2, <2>2 DEF Loading
<1> HIDE DEF q
<1>6. LoadType' /\ \A k \in Loads \ {l} : SameLoad(k)
  <2>1. UNCHANGED info
    BY <1>2 DEF SameMap
  <2> QED BY <1>1, <1>2, <1>4, <2>1 DEF GraphIInv, LoadType, SameLoad
<1>7. LoadOK(l)'
  <2>1. /\ sources' = sources /\ site' = site /\ l \notin walker /\ LoadOK(l)
        /\ q \in fetches'[l]
    BY <1>2 DEF SameMap, GraphIInv, LoadType
  <2> QED BY <1>2, <1>4, <1>5, <2>1 DEF LoadOK, LoadOKOf, Ended
<1> QED BY <1>2, <1>4, <1>6, <1>7, CombinedSameMap

(* A fetch that ends without a module is one of an import: the root is     *)
(* fetched from the start.                                                 *)
LEMMA FetchIsAliasKeeps ==
  ASSUME GraphIInv, NEW l \in Loads, walker = {}, NEW p \in fetches[l], FetchIsAlias(l, p)
  PROVE  GraphIInv' /\ state[l] = "loading_imports"
<1>2. /\ Loading(l) /\ ~p.started /\ SameMap /\ UNCHANGED walkVars
      /\ fetches' = [fetches EXCEPT ![l] = @ \ {p}]
      /\ state' = [state EXCEPT ![l] = IF fetches[l] = {p} THEN "done" ELSE @]
      /\ UNCHANGED <<root, root_module_id, visited, visited_as_alias>>
  BY DEF FetchIsAlias, SameMap, mapVars, DoneIfLast
<1>4. WalkType' /\ walker' = {}
  BY <1>2 DEF WalkType, SameMap, GraphIInv, walkVars
<1>5. state[l] = "loading_imports"
  <2>1. LoadOK(l)
    BY DEF GraphIInv
  <2>2. state[l] # "loading_root"
    BY <1>2, <2>1 DEF LoadOK, LoadOKOf, Pending
  <2> QED BY <1>2, <2>2 DEF Loading
<1>6. LoadType' /\ \A k \in Loads \ {l} : SameLoad(k)
  <2>1. UNCHANGED info
    BY <1>2 DEF SameMap
  <2> QED BY <1>2, <1>4, <2>1 DEF GraphIInv, LoadType, SameLoad
<1>7. LoadOK(l)'
  <2>1. /\ sources' = sources /\ site' = site /\ l \notin walker /\ LoadOK(l)
        /\ fetches'[l] = fetches[l] \ {p}
        /\ state'[l] = IF fetches[l] = {p} THEN "done" ELSE "loading_imports"
    BY <1>2, <1>5 DEF SameMap, GraphIInv, LoadType
  <2>2. CASE fetches[l] = {p}
    <3>1. state'[l] = "done" /\ fetches'[l] = {}
      BY <2>1, <2>2
    <3> QED BY <1>2, <1>4, <1>5, <2>1, <3>1 DEF LoadOK, LoadOKOf, Ended
  <2>3. CASE fetches[l] # {p}
    <3>1. state'[l] = "loading_imports" /\ fetches'[l] # {}
      BY <2>1, <2>3
    <3> QED BY <1>2, <1>4, <1>5, <2>1, <3>1 DEF LoadOK, LoadOKOf, Ended
  <2> QED BY <2>2, <2>3
<1> QED BY <1>2, <1>4, <1>5, <1>6, <1>7, CombinedSameMap

(* What is left of a load that has ended. *)
LEMMA EndsKeeps ==
  ASSUME GraphIInv, NEW l \in Loads, walker = {}, NEW how \in Ended, Ends(l, how),
         UNCHANGED walkVars, UNCHANGED info
  PROVE  LoadType' /\ WalkType' /\ LoadOK(l)' /\ \A k \in Loads \ {l} : SameLoad(k)
<1>1. WalkType' /\ walker' = {}
  BY DEF WalkType, GraphIInv, walkVars
<1>2. /\ state' = [state EXCEPT ![l] = how] /\ root' = [root EXCEPT ![l] = NoRoot]
      /\ root_module_id' = [root_module_id EXCEPT ![l] = {}]
      /\ fetches' = [fetches EXCEPT ![l] = {}] /\ visited' = [visited EXCEPT ![l] = {}]
      /\ visited_as_alias' = [visited_as_alias EXCEPT ![l] = {}]
  BY DEF Ends
<1>3. LoadType' /\ \A k \in Loads \ {l} : SameLoad(k)
  BY <1>1, <1>2 DEF GraphIInv, LoadType, SameLoad
<1>4. /\ state'[l] = how /\ root'[l] = NoRoot /\ fetches'[l] = {} /\ visited'[l] = {}
      /\ visited_as_alias'[l] = {}
  BY <1>2 DEF GraphIInv, LoadType
<1>5. LoadOK(l)'
  BY <1>1, <1>4 DEF LoadOK, LoadOKOf, Ended, NoRoot
<1> QED BY <1>1, <1>3, <1>5

LEMMA FetchFailsKeeps ==
  ASSUME GraphIInv, NEW l \in Loads, walker = {}, NEW p \in fetches[l], FetchFails(l, p)
  PROVE  GraphIInv'
<1>1. Ends(l, "failed") /\ UNCHANGED walkVars /\ UNCHANGED info /\ SameMap
  BY DEF FetchFails, mapVars, SameMap
<1>2. "failed" \in Ended
  BY DEF Ended
<1>3. LoadType' /\ WalkType' /\ LoadOK(l)' /\ \A k \in Loads \ {l} : SameLoad(k)
  BY <1>1, <1>2, EndsKeeps
<1> QED BY <1>1, <1>3, CombinedSameMap

LEMMA LoadFutureEndsKeeps ==
  ASSUME GraphIInv, NEW l \in Loads, walker = {}, LoadFutureEnds(l)
  PROVE  GraphIInv'
<1>1. PICK how \in Ended : Ends(l, how)
  BY DEF LoadFutureEnds, Ended
<1>2. UNCHANGED walkVars /\ UNCHANGED info /\ SameMap
  BY DEF LoadFutureEnds, mapVars, SameMap
<1>3. LoadType' /\ WalkType' /\ LoadOK(l)' /\ \A k \in Loads \ {l} : SameLoad(k)
  BY <1>1, <1>2, EndsKeeps
<1> QED BY <1>2, <1>3, CombinedSameMap

LEMMA AliasesAfterType ==
  ASSUME GraphIInv, NEW l \in Loads, NEW p \in fetches[l]
  PROVE  /\ AliasesAfter(l, p) \in [Loads -> SUBSET Names]
         /\ \A k \in Loads \ {l} : AliasesAfter(l, p)[k] = visited_as_alias[k]
         /\ AliasesAfter(l, p)[l] = IF Found(p.request) = p.request.name \/ state[l] = "loading_root"
                                    THEN visited_as_alias[l]
                                    ELSE visited_as_alias[l] \cup {Found(p.request)}
<1>1. p.request \in Requests /\ site \in Sites /\ visited_as_alias \in [Loads -> SUBSET Names]
  BY DEF GraphIInv, LoadType, FetchType
<1>2. Found(p.request) \in Names
  BY <1>1, AnswerFacts
<1> QED BY <1>1, <1>2 DEF AliasesAfter

LEMMA SourcesGrow ==
  ASSUME NEW r
  PROVE  /\ sources \subseteq WithSource(r)
         /\ LoadedType(r) = "wasm" => <<"requested", r.name, r.type>> \in WithSource(r)
BY DEF WithSource, SourceKeys

LEMMA RegisterKeeps ==
  ASSUME GraphIInv, NEW l \in Loads, walker = {}, NEW p \in fetches[l], Loading(l),
         p.request.phase = "evaluation", NEW id, id \in DOMAIN info',
         DOMAIN info \subseteq DOMAIN info', RegisterAndRecurse(l, p, id)
  PROVE  /\ LoadType' /\ WalkType' /\ LoadOK(l)' /\ \A k \in Loads \ {l} : SameLoad(k)
         /\ site' = site /\ sources \subseteq sources' /\ root[l].phase = "evaluation"
<1> DEFINE r == p.request
<1>1. /\ sources' = WithSource(r) /\ visited_as_alias' = AliasesAfter(l, p)
      /\ fetches' = [fetches EXCEPT ![l] = @ \ {p}]
      /\ root_module_id' = IF state[l] = "loading_root" THEN [root_module_id EXCEPT ![l] = {id}]
                           ELSE root_module_id
      /\ walker' = {l} /\ already_registered' = <<id>> /\ requests_left' = <<>>
      /\ visited' = [visited EXCEPT ![l] = @ \cup {Ref(r)}]
      /\ site' = site /\ root' = root /\ state' = state
  BY DEF RegisterAndRecurse, RecurseFrom
<1>2. r \in Requests /\ LoadOK(l) /\ LoadType
  BY DEF GraphIInv, LoadType, FetchType
<1>3. sources \subseteq sources'
  BY <1>1, SourcesGrow
<1>4. WalkType'
  <2>1. <<id>> \in Seq(DOMAIN info')
    OBVIOUS
  <2> QED BY <1>1, <2>1 DEF WalkType
<1>5. LoadType'
  <2>1. Ref(r) \in Names \X RequestedTypes
    BY <1>2, RequestFacts
  <2>2. visited_as_alias' \in [Loads -> SUBSET Names]
    BY <1>1, AliasesAfterType
  <2>3. root_module_id' \in [Loads -> SUBSET DOMAIN info']
    BY <1>1, <1>2 DEF LoadType
  <2> QED BY <1>1, <1>2, <2>1, <2>2, <2>3 DEF LoadType
<1>6. \A k \in Loads \ {l} : SameLoad(k)
  <2>1. \A k \in Loads \ {l} : visited_as_alias'[k] = visited_as_alias[k]
    BY <1>1, AliasesAfterType
  <2> QED BY <1>1, <1>2, <2>1 DEF LoadType, SameLoad
<1>7. root[l].phase = "evaluation" /\ root[l] \in site.entries
  <2>1. state[l] = "loading_root" => p = Pending(root[l], TRUE) /\ root[l] \in site.entries
    BY <1>2 DEF LoadOK, LoadOKOf, Ended
  <2>2. state[l] = "loading_imports" => root[l].phase # "source" /\ root[l] \in site.entries
    BY <1>2 DEF LoadOK, LoadOKOf, Ended
  <2>3. root[l] \in site.entries
    BY <2>1, <2>2 DEF Loading
  <2>4. root[l].phase \in {"evaluation", "source"}
    <3>1. root[l] \in Requests
      BY <2>3, SiteFacts DEF GraphIInv
    <3> QED BY <3>1, RequestFacts
  <2> QED BY <2>1, <2>2, <2>3, <2>4 DEF Loading, Pending
<1>8. root_module_id'[l] # {}
  <2>1. CASE state[l] = "loading_root"
    BY <1>1, <1>2, <2>1 DEF LoadType
  <2>2. CASE state[l] = "loading_imports"
    BY <1>1, <1>2, <1>7, <2>2 DEF LoadOK, LoadOKOf
  <2> QED BY <2>1, <2>2 DEF Loading
<1>9. LoadOK(l)'
  BY <1>1, <1>7, <1>8 DEF LoadOK, LoadOKOf, Loading, Ended
<1> QED BY <1>1, <1>3, <1>4, <1>5, <1>6, <1>7, <1>9

LEMMA ModuleFoundKeeps ==
  ASSUME RedirectsSettle, GraphIInv, NEW l \in Loads, walker = {}, NEW p \in fetches[l],
         ModuleFound(l, p)
  PROVE  GraphIInv'
<1> DEFINE r == p.request
<1>1. /\ Loading(l) /\ r.phase = "evaluation" /\ by_name' = WithAlias(r)
      /\ info' = info /\ main_module_id' = main_module_id
  BY DEF ModuleFound
<1>2. PICK id \in ExistingId(by_name', r) : RegisterAndRecurse(l, p, id)
  BY DEF ModuleFound
<1>3. r \in Requests /\ site \in Sites /\ MapOK(by_name, info)
  BY DEF GraphIInv, LoadType, FetchType
<1>4. MapOK(WithAlias(r), info)
  BY <1>3, AliasNoted
<1>5. id \in DOMAIN info
  <2>1. Found(r) \in Names /\ RequestedFrom(LoadedType(r)) \in RequestedTypes
    BY <1>3, AnswerFacts, RequestFacts
  <2>2. id \in GetId(WithAlias(r), Found(r), RequestedFrom(LoadedType(r)))
    BY <1>1, <1>2 DEF ExistingId
  <2> QED BY <1>3, <1>4, <2>1, <2>2, KnownIds
<1>6. /\ LoadType' /\ WalkType' /\ LoadOK(l)' /\ \A k \in Loads \ {l} : SameLoad(k)
      /\ site' = site /\ sources \subseteq sources'
  BY <1>1, <1>2, <1>5, RegisterKeeps
<1>7. MapOK(by_name, info)'
  BY <1>1, <1>4, <1>6 DEF MapOK, InfoOK, EntryOK, RequestsIn
<1>8. main_module_id' \in 0 .. Len(info')
  BY <1>1 DEF GraphIInv
<1> QED BY <1>6, <1>7, <1>8, Combined

(* The key of a module that new_module creates was free. *)
LEMMA ModuleIsNew ==
  ASSUME RedirectsSettle, site \in Sites, MapOK(by_name, info), NEW r \in Requests,
         ExistingId(WithAlias(r), r) = {}
  PROVE  WithAlias(r)[<<Found(r), r.type>>] = Absent
<1> DEFINE names == WithAlias(r)
           f == Found(r)
<1>1. /\ f \in Names /\ r.type \in RequestedTypes /\ RequestedFrom(LoadedType(r)) = r.type
      /\ site.found[f] = f
  BY RequestFacts, AnswerFacts, SiteFacts DEF Found, RedirectsSettle
<1>2. MapOK(names, info)
  BY AliasNoted
<1>3. IdOf(names, f, r.type) = {}
  <2>1. GetId(names, f, r.type) = {}
    BY <1>1 DEF ExistingId
  <2>2. Aliases(names)
    BY <1>2, MapIsAliases
  <2> HIDE DEF names, f
  <2>3. GetId(names, f, r.type) = IdOf(names, f, r.type)
    BY <1>1, <2>2, GetIdIsIdOf
  <2> QED BY <2>1, <2>3
<1>4. EntryOK(names, info, f, r.type)
  BY <1>1, <1>2 DEF MapOK
<1>5. names[<<f, r.type>>] = Absent \/ names[<<f, r.type>>].at # "mod"
  BY <1>1, <1>3 DEF IdOf
<1> QED BY <1>1, <1>4, <1>5, Shapes DEF EntryOK

LEMMA ModuleCreatedKeeps ==
  ASSUME RedirectsSettle, GraphIInv, NEW l \in Loads, walker = {}, NEW p \in fetches[l],
         ModuleCreated(l, p)
  PROVE  /\ GraphIInv' /\ Grows(by_name, by_name') /\ DOMAIN info' = DOMAIN info \cup {Len(info) + 1}
         /\ \A i \in DOMAIN info : info'[i] = info[i]
         /\ \E main : info'[Len(info) + 1] = NewInfo(p.request, main)
         /\ MapOK(WithAlias(p.request), info) /\ Grows(WithAlias(p.request), by_name')
         /\ by_name'[<<Found(p.request), p.request.type>>] = Mod(Len(info) + 1)
<1> DEFINE r == p.request
           id == Len(info) + 1
           main == IsMain(l) /\ LoadedType(r) = "js"
<1>1. r \in Requests /\ site \in Sites /\ MapOK(by_name, info) /\ info \in Seq(InfoType)
  BY DEF GraphIInv, LoadType, FetchType, MapOK
<1>2. /\ Loading(l) /\ r.phase = "evaluation" /\ ExistingId(WithAlias(r), r) = {}
      /\ by_name' = [WithAlias(r) EXCEPT ![<<Found(r), r.type>>] = Mod(id)]
      /\ info' = Append(info, NewInfo(r, main))
      /\ main_module_id' = IF main THEN id ELSE main_module_id
      /\ RegisterAndRecurse(l, p, id)
  <2>1. RequestedFrom(LoadedType(r)) = r.type
    BY <1>1, AnswerFacts
  <2> QED BY <2>1 DEF ModuleCreated, NewInfo
<1>3. main \in BOOLEAN
  OBVIOUS
<1> HIDE DEF main
<1>4. WithAlias(r)[<<Found(r), r.type>>] = Absent
  BY <1>1, <1>2, ModuleIsNew
<1>5. MapOK(WithAlias(r), info) /\ Grows(by_name, WithAlias(r))
  BY <1>1, AliasNoted
<1>6. /\ MapOK(by_name', info') /\ Grows(WithAlias(r), by_name')
      /\ by_name'[<<Found(r), r.type>>] = Mod(id)
  BY <1>1, <1>2, <1>3, <1>4, <1>5, ModuleEntered
<1>7. NewInfo(r, main) \in InfoType
  BY <1>1, <1>3, AnswerFacts DEF NewInfo, InfoType
<1>8. /\ DOMAIN info' = DOMAIN info \cup {id} /\ \A i \in DOMAIN info : info'[i] = info[i]
      /\ info'[id] = NewInfo(r, main) /\ Len(info') = Len(info) + 1 /\ Len(info) \in Nat
  BY <1>1, <1>2, <1>7, InfoAppended
<1>9. /\ LoadType' /\ WalkType' /\ LoadOK(l)' /\ \A k \in Loads \ {l} : SameLoad(k)
      /\ site' = site /\ sources \subseteq sources'
  BY <1>2, <1>8, RegisterKeeps
<1>10. MapOK(by_name, info)'
  BY <1>6, <1>9 DEF MapOK, InfoOK, EntryOK, RequestsIn
<1>11. main_module_id' \in 0 .. Len(info')
  BY <1>2, <1>8 DEF GraphIInv
<1>12. Grows(by_name, by_name')
  BY <1>5, <1>6 DEF Grows
<1>13. GraphIInv'
  BY <1>9, <1>10, <1>11, Combined
<1> QED BY <1>5, <1>6, <1>8, <1>12, <1>13

LEMMA SourceFetchedKeeps ==
  ASSUME RedirectsSettle, GraphIInv, NEW l \in Loads, walker = {}, NEW p \in fetches[l],
         SourceFetched(l, p)
  PROVE  GraphIInv'
<1> DEFINE r == p.request
<1>1. /\ Loading(l) /\ r.phase = "source" /\ LoadedType(r) = "wasm"
      /\ by_name' = WithAlias(r) /\ sources' = WithSource(r)
      /\ fetches' = [fetches EXCEPT ![l] = @ \ {p}]
      /\ state' = [state EXCEPT ![l] = IF fetches[l] = {p} THEN "done" ELSE @]
      /\ visited_as_alias' = AliasesAfter(l, p)
      /\ UNCHANGED <<site, info, main_module_id, root, root_module_id, visited>>
      /\ UNCHANGED walkVars
  BY DEF SourceFetched, DoneIfLast
<1>2. r \in Requests /\ site \in Sites /\ MapOK(by_name, info) /\ LoadOK(l) /\ LoadType
  BY DEF GraphIInv, LoadType, FetchType
<1>3. MapOK(by_name, info)'
  <2>1. MapOK(WithAlias(r), info)
    BY <1>2, AliasNoted
  <2> QED BY <1>1, <2>1 DEF MapOK, InfoOK, EntryOK, RequestsIn
<1>4. /\ sources \subseteq sources' /\ <<"requested", r.name, r.type>> \in sources'
      /\ main_module_id' \in 0 .. Len(info')
  BY <1>1, SourcesGrow DEF GraphIInv
<1>5. WalkType' /\ walker' = {}
  BY <1>1 DEF WalkType, GraphIInv, walkVars
<1>6. /\ visited_as_alias' \in [Loads -> SUBSET Names]
      /\ \A k \in Loads \ {l} : visited_as_alias'[k] = visited_as_alias[k]
  BY <1>1, AliasesAfterType
<1>7. LoadType' /\ \A k \in Loads \ {l} : SameLoad(k)
  BY <1>1, <1>2, <1>5, <1>6 DEF LoadType, SameLoad
<1>8. LoadOK(l)'
  <2>1. /\ fetches'[l] = fetches[l] \ {p}
        /\ state'[l] = IF fetches[l] = {p} THEN "done" ELSE state[l]
    BY <1>1, <1>2 DEF LoadType
  <2>2. site' = site /\ root'[l] = root[l] /\ root_module_id'[l] = root_module_id[l]
        /\ l \notin walker' /\ l \notin walker
    BY <1>1, <1>5
  <2>3. CASE state[l] = "loading_root"
    <3>1. p = Pending(root[l], TRUE) /\ fetches[l] = {p} /\ root[l] \in site.entries
      BY <1>2, <2>3 DEF LoadOK, LoadOKOf, Ended
    <3>2. r = root[l]
      BY <3>1 DEF Pending
    <3>3. state'[l] = "done" /\ fetches'[l] = {} /\ root'[l].phase = "source"
      BY <1>1, <2>1, <2>2, <3>1, <3>2
    <3>4. <<"requested", root'[l].name, root'[l].type>> \in sources'
      BY <1>4, <2>2, <3>2
    <3> HIDE DEF r
    <3> QED BY <2>2, <3>1, <3>3, <3>4 DEF LoadOK, LoadOKOf, Ended
  <2>4. CASE state[l] = "loading_imports"
    <3>1. root[l].phase # "source" /\ root[l] \in site.entries
          /\ (root[l].phase = "evaluation" => root_module_id[l] # {})
      BY <1>2, <2>4 DEF LoadOK, LoadOKOf, Ended
    <3>2. \/ state'[l] = "done" /\ fetches'[l] = {}
          \/ state'[l] = "loading_imports" /\ fetches'[l] # {}
      BY <2>1, <2>4
    <3> QED BY <2>2, <3>1, <3>2 DEF LoadOK, LoadOKOf, Ended
  <2> QED BY <1>1, <2>3, <2>4 DEF Loading
<1> QED BY <1>1, <1>3, <1>4, <1>5, <1>7, <1>8, Combined

LEMMA ModuleRefusedKeeps ==
  ASSUME RedirectsSettle, GraphIInv, NEW l \in Loads, walker = {}, NEW p \in fetches[l],
         ModuleRefused(l, p)
  PROVE  GraphIInv'
<1> DEFINE r == p.request
<1>1. /\ by_name' = WithAlias(r) /\ sources' \in {sources, WithSource(r)} /\ Ends(l, "failed")
      /\ UNCHANGED <<site, info, main_module_id>> /\ UNCHANGED walkVars
  BY DEF ModuleRefused
<1>2. r \in Requests /\ site \in Sites /\ MapOK(by_name, info)
  BY DEF GraphIInv, LoadType, FetchType
<1>3. MapOK(by_name, info)'
  <2>1. MapOK(WithAlias(r), info)
    BY <1>2, AliasNoted
  <2> QED BY <1>1, <2>1 DEF MapOK, InfoOK, EntryOK, RequestsIn
<1>4. sources \subseteq sources' /\ main_module_id' \in 0 .. Len(info')
  BY <1>1, SourcesGrow DEF GraphIInv
<1>5. LoadType' /\ WalkType' /\ LoadOK(l)' /\ \A k \in Loads \ {l} : SameLoad(k)
  <2>1. "failed" \in Ended
    BY DEF Ended
  <2> QED BY <1>1, <2>1, EndsKeeps
<1> QED BY <1>1, <1>3, <1>4, <1>5, Combined

(***************************************************************************)
(* The map stays consistent.                                               *)
(***************************************************************************)
LEMMA GraphStart ==
  ASSUME GraphInit
  PROVE  GraphIInv
<1>1. /\ site \in Sites /\ by_name = [k \in Names \X RequestedTypes |-> Absent] /\ info = <<>>
      /\ main_module_id = 0
  BY DEF GraphInit
<1>2. info \in Seq(InfoType) /\ DOMAIN info = {} /\ Len(info) = 0
  BY <1>1
<1>3. MapOK(by_name, info)
  <2>1. DOMAIN by_name = Names \X RequestedTypes
    BY <1>1
  <2>2. \A n \in Names, t \in RequestedTypes : by_name[<<n, t>>] = Absent
    BY <1>1
  <2> QED BY <1>2, <2>1, <2>2 DEF MapOK, EntryOK
<1>4. LoadType
  BY DEF GraphInit, LoadType, Ended
<1>5. WalkType
  <2>1. walker = {} /\ already_registered = <<>> /\ requests_left = <<>>
    BY DEF GraphInit
  <2>2. already_registered \in Seq(DOMAIN info) /\ requests_left \in Seq(Requests)
    BY <2>1
  <2> QED BY <2>1, <2>2 DEF WalkType
<1>6. ASSUME NEW l \in Loads PROVE LoadOK(l)
  <2>1. /\ state[l] = "none" /\ fetches[l] = {} /\ visited[l] = {} /\ visited_as_alias[l] = {}
        /\ root[l] = NoRoot /\ l \notin walker
    BY DEF GraphInit
  <2> QED BY <2>1 DEF LoadOK, LoadOKOf, Ended, NoRoot
<1>7. main_module_id \in 0 .. Len(info)
  BY <1>1, <1>2
<1> QED BY <1>1, <1>3, <1>4, <1>5, <1>6, <1>7 DEF GraphIInv

LEMMA GraphStutter ==
  ASSUME GraphIInv, UNCHANGED graphVars
  PROVE  GraphIInv'
<1>1. /\ SameMap /\ UNCHANGED <<root, state, root_module_id, fetches, visited, visited_as_alias>>
      /\ UNCHANGED <<walker, already_registered, requests_left>>
  BY DEF graphVars, mapVars, rmlVars, walkVars, SameMap
<1>2. UNCHANGED <<info, by_name, site, main_module_id, sources>>
  BY <1>1 DEF SameMap
<1>3. LoadType' /\ WalkType'
  BY <1>1, <1>2 DEF GraphIInv, LoadType, WalkType
<1>4. MapOK(by_name, info)' /\ main_module_id' \in 0 .. Len(info')
  BY <1>2 DEF GraphIInv, MapOK, InfoOK, EntryOK, RequestsIn
<1>5. ASSUME NEW k \in Loads PROVE LoadOK(k)'
  <2>1. SameLoad(k) /\ LoadOK(k)
    BY <1>1 DEF SameLoad, GraphIInv
  <2> QED BY <1>2, <2>1, OtherLoadStays
<1> QED BY <1>2, <1>3, <1>4, <1>5 DEF GraphIInv

LEMMA WalkStepKeeps ==
  ASSUME RedirectsSettle, GraphIInv, NEW l \in walker, WalkStep(l)
  PROVE  GraphIInv'
BY PopModuleKeeps, SkipRequestKeeps, WalkKnownKeeps, AddFetchKeeps, WalkEndsKeeps DEF WalkStep

LEMMA LoadStepKeeps ==
  ASSUME RedirectsSettle, GraphIInv, NEW l \in Loads, walker = {}, LoadStep(l)
  PROVE  GraphIInv'
<1>1. CASE RootIsKnown(l) \/ FetchRoot(l) \/ LoadFutureEnds(l)
  BY <1>1, RootIsKnownKeeps, FetchRootKeeps, LoadFutureEndsKeeps
<1>2. ASSUME NEW how, NEW r \in site.entries, NewLoad(l, how, r) PROVE GraphIInv'
  BY <1>2, NewLoadKeeps
<1>3. ASSUME NEW p \in fetches[l],
             \/ FetchStarts(l, p) \/ FetchIsAlias(l, p) \/ FetchFails(l, p)
             \/ SourceUnsupported(l, p) \/ SourceFetched(l, p)
             \/ ModuleFound(l, p) \/ ModuleCreated(l, p) \/ ModuleRefused(l, p)
      PROVE  GraphIInv'
  <2>1. SourceUnsupported(l, p) => FetchFails(l, p)
    BY DEF SourceUnsupported
  <2> QED BY <1>3, <2>1, FetchStartsKeeps, FetchIsAliasKeeps, FetchFailsKeeps, SourceFetchedKeeps,
             ModuleFoundKeeps, ModuleCreatedKeeps, ModuleRefusedKeeps
<1> QED BY <1>1, <1>2, <1>3 DEF LoadStep

LEMMA GraphStepKeeps ==
  ASSUME RedirectsSettle, GraphIInv, [GraphNext]_graphVars
  PROVE  GraphIInv'
<1>1. CASE UNCHANGED graphVars
  BY <1>1, GraphStutter
<1>2. CASE \E l \in walker : WalkStep(l)
  BY <1>2, WalkStepKeeps
<1>3. CASE walker = {} /\ \E l \in Loads : LoadStep(l)
  BY <1>3, LoadStepKeeps
<1> QED BY <1>1, <1>2, <1>3 DEF GraphNext, GraphQuiet

LEMMA InvariantMeansConsistent ==
  ASSUME GraphIInv
  PROVE  MapConsistent
<1>1. GraphTypeOK
  <2>1. ASSUME NEW k \in Names \X RequestedTypes
        PROVE  by_name[k] \in {Absent} \cup {Mod(i) : i \in DOMAIN info} \cup {Alias(n) : n \in Names}
    <3>1. PICK n \in Names, t \in RequestedTypes : k = <<n, t>>
      OBVIOUS
    <3>2. EntryOK(by_name, info, n, t) /\ site.found[n] \in Names
      BY SiteFacts DEF GraphIInv, MapOK
    <3> QED BY <3>1, <3>2 DEF EntryOK
  <2>2. ASSUME NEW l \in Loads
        PROVE  /\ root_module_id[l] \subseteq DOMAIN info
               /\ visited[l] \subseteq Names \X RequestedTypes /\ visited_as_alias[l] \subseteq Names
    BY DEF GraphIInv, LoadType
  <2> QED BY <2>1, <2>2 DEF GraphTypeOK, GraphIInv
<1>2. OneModulePerName
  <2>1. ASSUME NEW i \in DOMAIN info, NEW j \in DOMAIN info, info[i].name = info[j].name,
               RequestedFrom(info[i].type) = RequestedFrom(info[j].type)
        PROVE  i = j
    <3>1. InfoOK(by_name, info, i) /\ InfoOK(by_name, info, j)
      BY DEF GraphIInv, MapOK
    <3>2. Mod(i) = Mod(j)
      BY <2>1, <3>1 DEF InfoOK
    <3> QED BY <3>2, Shapes
  <2> QED BY <2>1 DEF OneModulePerName
<1>3. LoadsDoNotPanic
  <2>1. ASSUME walker = {}, NEW l \in Loads
        PROVE  /\ Loading(l) => fetches[l] # {}
               /\ state[l] = "done" =>
                    IF root[l].phase = "source"
                    THEN <<"requested", root[l].name, root[l].type>> \in sources
                    ELSE root_module_id[l] # {}
    <3>1. LoadOK(l) /\ l \notin walker /\ site \in Sites
      BY <2>1 DEF GraphIInv
    <3>2. Loading(l) => fetches[l] # {}
      BY <3>1 DEF LoadOK, LoadOKOf, Loading
    <3>3. CASE state[l] = "done"
      <4>1. root[l] \in site.entries
        BY <3>1, <3>3 DEF LoadOK, LoadOKOf, Ended
      <4>2. root[l].phase \in {"evaluation", "source"}
        BY <3>1, <4>1, SiteFacts, RequestFacts
      <4> QED BY <3>1, <3>2, <3>3, <4>2 DEF LoadOK, LoadOKOf
    <3> QED BY <3>2, <3>3
  <2> QED BY <2>1 DEF LoadsDoNotPanic
<1> QED BY <1>1, <1>2, <1>3 DEF MapConsistent

(* ModuleMap::new_module, RecursiveModuleLoad::register_and_recurse and    *)
(* poll_next: with any number of overlapping loads, names and redirects no *)
(* module is made twice and no load is led into a panic, as long as a      *)
(* module found under a name is found there when asked for by that name.   *)
THEOREM LoadsShareOneMap ==
  ASSUME RedirectsSettle
  PROVE  GraphSpec => []MapConsistent
<1>1. GraphInit => GraphIInv
  BY GraphStart
<1>2. GraphIInv /\ [GraphNext]_graphVars => GraphIInv'
  BY GraphStepKeeps
<1>3. GraphIInv => MapConsistent
  BY InvariantMeansConsistent
<1> QED BY <1>1, <1>2, <1>3, PTL DEF GraphSpec

(***************************************************************************)
(* The walk: what the map and the other loads do leaves it standing.       *)
(***************************************************************************)
MapGrows ==
  /\ site' = site /\ Grows(by_name, by_name') /\ sources \subseteq sources'
  /\ DOMAIN info \subseteq DOMAIN info' /\ \A i \in DOMAIN info : info'[i] = info[i]

WalkedGrows(k) == \A i \in DOMAIN info : Walked(k, i) => Walked(k, i)'

LEMMA SameMapGrows ==
  ASSUME SameMap
  PROVE  MapGrows
BY DEF SameMap, MapGrows, Grows

LEMMA SourceRefStays ==
  ASSUME site' = site, NEW n, NEW t
  PROVE  SourceRef(n, t)' <=> SourceRef(n, t)
BY DEF SourceRef, Imported

LEMMA NextMapOK ==
  ASSUME MapOK(by_name, info)', site' = site
  PROVE  MapOK(by_name', info')
<1>1. /\ DOMAIN by_name' = Names \X RequestedTypes /\ info' \in Seq(InfoType)
      /\ \A i \in DOMAIN info' : InfoOK(by_name, info, i)'
      /\ \A n \in Names, t \in RequestedTypes : EntryOK(by_name, info, n, t)'
  BY DEF MapOK
<1>2. ASSUME NEW i \in DOMAIN info' PROVE InfoOK(by_name', info', i)
  <2>1. InfoOK(by_name, info, i)'
    BY <1>1
  <2> QED BY <2>1 DEF InfoOK, RequestsIn
<1>3. ASSUME NEW n \in Names, NEW t \in RequestedTypes PROVE EntryOK(by_name', info', n, t)
  <2>1. EntryOK(by_name, info, n, t)'
    BY <1>1
  <2> QED BY <2>1 DEF EntryOK
<1> QED BY <1>1, <1>2, <1>3 DEF MapOK

LEMMA KnownCarried ==
  ASSUME RedirectsSettle, GraphIInv, GraphIInv', MapGrows,
         NEW n \in Names, NEW t \in RequestedTypes, GetId(by_name, n, t) # {}
  PROVE  GetId(by_name, n, t)' = GetId(by_name, n, t)
<1>1. site \in Sites /\ MapOK(by_name, info) /\ MapOK(by_name, info)' /\ site' = site
  BY DEF GraphIInv, MapGrows
<1>2. MapOK(by_name', info') /\ Grows(by_name, by_name')
  BY <1>1, NextMapOK DEF MapGrows
<1>3. GetId(by_name', n, t) = GetId(by_name, n, t)
  BY <1>1, <1>2, KnownStaysKnown
<1> QED BY <1>3 DEF GetId, Followed

LEMMA WalkedCarried ==
  ASSUME RedirectsSettle, GraphIInv, GraphIInv', MapGrows, NEW k \in Loads, WalkedGrows(k),
         NEW n \in Names, NEW t \in RequestedTypes, KnownAndWalked(k, n, t)
  PROVE  KnownAndWalked(k, n, t)'
<1>1. GetId(by_name, n, t) # {} /\ \A i \in GetId(by_name, n, t) : Walked(k, i)
  BY DEF KnownAndWalked
<1>2. GetId(by_name, n, t)' = GetId(by_name, n, t)
  BY <1>1, KnownCarried
<1>3. \A i \in GetId(by_name, n, t) : i \in DOMAIN info
  BY KnownIds DEF GraphIInv
<1>4. \A i \in GetId(by_name, n, t) : Walked(k, i)'
  BY <1>1, <1>3 DEF WalkedGrows
<1> QED BY <1>1, <1>2, <1>4 DEF KnownAndWalked

LEMMA VisitedCarried ==
  ASSUME RedirectsSettle, GraphIInv, GraphIInv', MapGrows, NEW k \in Loads, WalkedGrows(k),
         NEW ref \in visited[k], VisitedRefOK(k, ref),
         ToBeFetched(k, ref[1], ref[2]) => VisitedRefOK(k, ref)'
  PROVE  VisitedRefOK(k, ref)'
<1>1. ref[1] \in Names /\ ref[2] \in RequestedTypes
  BY DEF GraphIInv, LoadType
<1>2. CASE ToBeFetched(k, ref[1], ref[2])
  BY <1>2
<1>3. CASE ~ToBeFetched(k, ref[1], ref[2])
  <2>1. SourceRef(ref[1], ref[2])' <=> SourceRef(ref[1], ref[2])
    BY SourceRefStays DEF MapGrows
  <2>2. CASE SourceRef(ref[1], ref[2])
    <3>1. <<"requested", ref[1], ref[2]>> \in sources'
      BY <1>3, <2>2 DEF VisitedRefOK, MapGrows
    <3> QED BY <2>1, <2>2, <3>1 DEF VisitedRefOK
  <2>3. CASE ~SourceRef(ref[1], ref[2])
    <3>1. KnownAndWalked(k, ref[1], ref[2])
      BY <1>3, <2>3 DEF VisitedRefOK
    <3>2. KnownAndWalked(k, ref[1], ref[2])'
      BY <1>1, <3>1, WalkedCarried
    <3> QED BY <2>1, <2>3, <3>2 DEF VisitedRefOK
  <2> QED BY <2>2, <2>3
<1> QED BY <1>2, <1>3

LEMMA AliasCarried ==
  ASSUME RedirectsSettle, GraphIInv, GraphIInv', MapGrows, NEW k \in Loads, WalkedGrows(k),
         NEW m \in visited_as_alias[k], AliasOK(k, m)
  PROVE  AliasOK(k, m)'
<1>1. m \in Names /\ "none" \in RequestedTypes
  BY DEF GraphIInv, LoadType, RequestedTypes
<1>2. KnownAndWalked(k, m, "none")'
  BY <1>1, WalkedCarried DEF AliasOK
<1> QED BY <1>2 DEF AliasOK, MapGrows

(* A load that walks nothing has seen what it has considered. *)
LEMMA WalkedMeansSeen ==
  ASSUME NEW k, k \notin walker, NEW i
  PROVE  Walked(k, i) <=> \A r \in RequestsOf(i) : Seen(k, r)
BY DEF Walked, Considered

LEMMA WalkedMeansSeenNext ==
  ASSUME NEW k, k \notin walker', NEW i
  PROVE  Walked(k, i)' <=> \A r \in RequestsOf(i)' : Seen(k, r)'
BY DEF Walked, Considered

LEMMA SeenIsWalked ==
  ASSUME MapGrows, NEW k, k \notin walker, visited[k] \subseteq visited'[k],
         visited_as_alias[k] \subseteq visited_as_alias'[k]
  PROVE  WalkedGrows(k)
<1>1. SUFFICES ASSUME NEW i \in DOMAIN info, Walked(k, i) PROVE Walked(k, i)'
  BY DEF WalkedGrows
<1>2. \A r \in RequestsOf(i) : Seen(k, r)
  BY <1>1, WalkedMeansSeen
<1>3. RequestsOf(i)' = RequestsOf(i)
  BY DEF RequestsOf, MapGrows
<1>4. \A r \in RequestsOf(i) : Seen(k, r)'
  BY <1>2 DEF Seen
<1> QED BY <1>3, <1>4 DEF Walked, Considered

LEMMA OtherLoadWalks ==
  ASSUME RedirectsSettle, GraphIInv, GraphIInv', MapGrows, NEW k \in Loads, SameLoad(k),
         k \notin walker, LoadWalkOK(k)
  PROVE  LoadWalkOK(k)'
<1>1. /\ state'[k] = state[k] /\ root'[k] = root[k] /\ root_module_id'[k] = root_module_id[k]
      /\ fetches'[k] = fetches[k] /\ visited'[k] = visited[k]
      /\ visited_as_alias'[k] = visited_as_alias[k] /\ k \notin walker'
  BY DEF SameLoad
<1>2. WalkedGrows(k)
  BY <1>1, SeenIsWalked
<1>3. ASSUME NEW ref \in visited'[k] PROVE VisitedRefOK(k, ref)'
  <2>1. ref \in visited[k] /\ VisitedRefOK(k, ref)
    BY <1>1 DEF LoadWalkOK
  <2>2. ToBeFetched(k, ref[1], ref[2]) => VisitedRefOK(k, ref)'
    BY <1>1 DEF ToBeFetched, VisitedRefOK
  <2> QED BY <1>2, <2>1, <2>2, VisitedCarried
<1>4. ASSUME NEW m \in visited_as_alias'[k] PROVE AliasOK(k, m)'
  <2>1. m \in visited_as_alias[k] /\ AliasOK(k, m)
    BY <1>1 DEF LoadWalkOK
  <2> QED BY <1>2, <2>1, AliasCarried
<1>5. RootOK(k)'
  <2>1. RootOK(k)
    BY DEF LoadWalkOK
  <2>2. ASSUME state[k] = "init"
        PROVE  root_module_id[k] \subseteq GetId(by_name, root[k].name, root[k].type)'
    <3>1. root[k] \in Requests
      <4>1. root[k] \in site.entries
        BY <2>2 DEF GraphIInv, LoadOK, LoadOKOf, Ended
      <4> QED BY <4>1, SiteFacts DEF GraphIInv
    <3>2. root_module_id[k] \subseteq GetId(by_name, root[k].name, root[k].type)
      BY <2>1, <2>2 DEF RootOK
    <3>3. root[k].name \in Names /\ root[k].type \in RequestedTypes
      BY <3>1, RequestFacts
    <3>4. CASE GetId(by_name, root[k].name, root[k].type) = {}
      BY <3>2, <3>4
    <3>5. CASE GetId(by_name, root[k].name, root[k].type) # {}
      <4> DEFINE n == root[k].name
                 t == root[k].type
      <4>1. n \in Names /\ t \in RequestedTypes /\ GetId(by_name, n, t) # {} /\ n' = n /\ t' = t
        BY <1>1, <3>3, <3>5
      <4>2. GetId(by_name', n, t) = GetId(by_name, n, t)
        <5> HIDE DEF n, t
        <5>1. MapOK(by_name, info) /\ MapOK(by_name, info)' /\ site \in Sites /\ site' = site
              /\ Grows(by_name, by_name')
          BY DEF GraphIInv, MapGrows
        <5>2. MapOK(by_name', info')
          BY <5>1, NextMapOK
        <5> QED BY <4>1, <5>1, <5>2, KnownStaysKnown
      <4> QED BY <1>1, <3>2, <4>2
    <3> QED BY <3>4, <3>5
  <2>3. \A i \in root_module_id[k] : Walked(k, i) => Walked(k, i)'
    BY <1>2 DEF WalkedGrows, GraphIInv, LoadType
  <2> QED BY <1>1, <2>1, <2>2, <2>3 DEF RootOK
<1>6. FetchesOK(k)'
  BY <1>1 DEF FetchesOK, LoadWalkOK, Imported, MapGrows
<1> QED BY <1>3, <1>4, <1>5, <1>6 DEF LoadWalkOK

LEMMA InfoKindStays ==
  ASSUME MapGrows, NEW i \in DOMAIN info, InfoKind(i)
  PROVE  InfoKind(i)'
<1>1. /\ site' = site /\ info'[i] = info[i] /\ sources \subseteq sources'
  BY DEF MapGrows
<1>2. ~SourceRef(info[i].name, RequestedFrom(info[i].type))'
  BY <1>1 DEF InfoKind, SourceRef, Imported, RequestedFrom
<1> QED BY <1>1, <1>2 DEF InfoKind

LEMMA WalkCombined ==
  ASSUME RedirectsSettle, GraphIInv, GraphIInv', WalkIInv, MapGrows, NEW l \in Loads,
         walker \subseteq {l}, \A k \in Loads \ {l} : SameLoad(k), LoadWalkOK(l)', QueueOK',
         \A i \in DOMAIN info' \ DOMAIN info : InfoKind(i)'
  PROVE  WalkIInv'
<1>1. ASSUME NEW k \in Loads PROVE LoadWalkOK(k)'
  <2>1. CASE k = l
    BY <2>1
  <2>2. CASE k # l
    <3>1. SameLoad(k) /\ k \notin walker /\ LoadWalkOK(k)
      BY <2>2 DEF WalkIInv
    <3> QED BY <3>1, OtherLoadWalks
  <2> QED BY <2>1, <2>2
<1>2. ASSUME NEW i \in DOMAIN info' PROVE InfoKind(i)'
  <2>1. CASE i \in DOMAIN info
    BY <2>1, InfoKindStays DEF WalkIInv
  <2>2. CASE i \notin DOMAIN info
    BY <2>2
  <2> QED BY <2>1, <2>2
<1> QED BY <1>1, <1>2 DEF WalkIInv

LEMMA LoadWalkCarried ==
  ASSUME RedirectsSettle, GraphIInv, GraphIInv', MapGrows, NEW l \in Loads, WalkedGrows(l),
         LoadWalkOK(l), RootOK(l)', FetchesOK(l)',
         \A ref \in visited[l] : ToBeFetched(l, ref[1], ref[2]) => VisitedRefOK(l, ref)',
         \A ref \in visited'[l] \ visited[l] : VisitedRefOK(l, ref)',
         \A m \in visited_as_alias'[l] \ visited_as_alias[l] : AliasOK(l, m)'
  PROVE  LoadWalkOK(l)'
<1>1. ASSUME NEW ref \in visited'[l] PROVE VisitedRefOK(l, ref)'
  <2>1. CASE ref \in visited[l]
    <3>1. VisitedRefOK(l, ref) /\ (ToBeFetched(l, ref[1], ref[2]) => VisitedRefOK(l, ref)')
      BY <2>1 DEF LoadWalkOK
    <3> QED BY <2>1, <3>1, VisitedCarried
  <2> QED BY <2>1
<1>2. ASSUME NEW m \in visited_as_alias'[l] PROVE AliasOK(l, m)'
  <2>1. CASE m \in visited_as_alias[l]
    <3>1. AliasOK(l, m)
      BY <2>1 DEF LoadWalkOK
    <3> QED BY <2>1, <3>1, AliasCarried
  <2> QED BY <2>1
<1> QED BY <1>1, <1>2 DEF LoadWalkOK

LEMMA RootCarried ==
  ASSUME GraphIInv, SameMap, NEW l \in Loads, WalkedGrows(l), RootOK(l), root'[l] = root[l],
         root_module_id'[l] = root_module_id[l], state'[l] = state[l] \/ state'[l] # "init",
         l \in walker' \/ state'[l] \in {"loading_imports", "done"} =>
           l \in walker \/ state[l] \in {"loading_imports", "done"}
  PROVE  RootOK(l)'
<1>1. \A i \in root_module_id[l] : Walked(l, i) => Walked(l, i)'
  BY DEF WalkedGrows, GraphIInv, LoadType
<1>2. by_name' = by_name
  BY DEF SameMap
<1> QED BY <1>1, <1>2 DEF RootOK

(***************************************************************************)
(* What PlainSites gives.                                                  *)
(***************************************************************************)
LEMMA RedirectedImport ==
  ASSUME PlainSites, site \in Sites, NEW n \in Names, site.found[n] # n, NEW r \in Requests,
         Imported(site, r), r.name \in {n, site.found[n]}
  PROVE  r.type = "none" /\ r.phase = "evaluation"
BY DEF PlainSites

LEMMA RedirectsToJs ==
  ASSUME PlainSites, site \in Sites, NEW n \in Names, site.kind[site.found[n]] # "js"
  PROVE  site.found[n] = n
BY DEF PlainSites

LEMMA NoRedirectIsSource ==
  ASSUME PlainSites, site \in Sites, NEW n \in Names, site.found[n] # n, NEW m \in {n, site.found[n]},
         NEW t
  PROVE  ~SourceRef(m, t)
<1>1. ASSUME NEW r \in Requests, Imported(site, r), Ref(r) = <<m, t>> PROVE r.phase = "evaluation"
  <2>1. r.name = m
    BY <1>1 DEF Ref
  <2> QED BY <1>1, <2>1, RedirectedImport
<1> QED BY <1>1 DEF SourceRef

LEMMA NotSource ==
  ASSUME PlainSites, site \in Sites, NEW r \in Requests, Asked(site, r), r.phase = "evaluation"
  PROVE  ~SourceRef(r.name, r.type)
<1>1. \A q \in Requests : Asked(site, q) /\ Ref(r) = Ref(q) => r.phase = q.phase
  BY DEF PlainSites
<1>2. Ref(r) = <<r.name, r.type>>
  BY DEF Ref
<1> QED BY <1>1, <1>2 DEF SourceRef, Asked

LEMMA KnownNow ==
  ASSUME RedirectsSettle, GraphIInv, NEW n \in Names, NEW t \in RequestedTypes,
         NEW i \in GetId(by_name, n, t)
  PROVE  /\ i \in DOMAIN info /\ GetId(by_name, n, t) = {i}
         /\ info[i].name = site.found[n] /\ RequestedFrom(info[i].type) = t
<1>1. site \in Sites /\ MapOK(by_name, info)
  BY DEF GraphIInv
<1>2. StandsFor(by_name, info, n, t, i)
  BY <1>1, KnownIdAt
<1> QED BY <1>2 DEF StandsFor

LEMMA KnownNotSource ==
  ASSUME RedirectsSettle, PlainSites, GraphIInv, WalkIInv, NEW n \in Names,
         NEW t \in RequestedTypes, GetId(by_name, n, t) # {}
  PROVE  ~SourceRef(n, t)
<1>1. PICK i \in GetId(by_name, n, t) : TRUE
  OBVIOUS
<1>2. i \in DOMAIN info /\ info[i].name = site.found[n] /\ RequestedFrom(info[i].type) = t
  BY <1>1, KnownNow
<1>3. ~SourceRef(site.found[n], t)
  BY <1>2 DEF WalkIInv, InfoKind
<1>4. CASE site.found[n] = n
  BY <1>3, <1>4
<1>5. CASE site.found[n] # n
  BY <1>5, NoRedirectIsSource DEF GraphIInv
<1> QED BY <1>4, <1>5

(***************************************************************************)
(* The steps of the walk.                                                  *)
(***************************************************************************)
LEMMA Walking ==
  ASSUME GraphIInv, WalkIInv, NEW l \in walker
  PROVE  /\ l \in Loads /\ walker = {l} /\ site \in Sites /\ LoadWalkOK(l) /\ LoadOK(l)
         /\ already_registered \in Seq(DOMAIN info) /\ requests_left \in Seq(Requests)
         /\ \A i \in ToSet(already_registered) :
              info[i].type = "wasm" => <<info[i].name, "none">> \in visited[l]
         /\ \A r \in ToSet(requests_left) : Imported(site, r) \/ Ref(r) \in visited[l]
BY DEF GraphIInv, WalkType, WalkIInv, QueueOK

LEMMA PopModuleWalks ==
  ASSUME RedirectsSettle, GraphIInv, GraphIInv', WalkIInv, NEW l \in walker, PopModule(l)
  PROVE  WalkIInv'
<1> DEFINE h == Head(already_registered)
<1>1. /\ l \in Loads /\ walker = {l} /\ LoadWalkOK(l)
      /\ already_registered \in Seq(DOMAIN info)
      /\ \A i \in ToSet(already_registered) :
           info[i].type = "wasm" => <<info[i].name, "none">> \in visited[l]
  BY Walking
<1>2. /\ SameMap /\ UNCHANGED <<root, state, root_module_id, fetches, visited, visited_as_alias>>
      /\ walker' = walker /\ requests_left = <<>> /\ already_registered # <<>>
      /\ requests_left' = info[h].requests /\ already_registered' = Tail(already_registered)
  BY DEF PopModule, SameMap, mapVars, rmlVars
<1>3. /\ h \in DOMAIN info /\ h \in ToSet(already_registered)
      /\ \A x \in ToSet(already_registered) : x = h \/ x \in ToSet(Tail(already_registered))
      /\ \A x \in ToSet(Tail(already_registered)) : x \in ToSet(already_registered)
  BY <1>1, <1>2, HeadAndTail
<1> HIDE DEF h
<1>4. ToSet(requests_left) = {}
  BY <1>2 DEF ToSet
<1>5. WalkedGrows(l)
  <2>1. SUFFICES ASSUME NEW i \in DOMAIN info, Walked(l, i) PROVE Walked(l, i)'
    BY DEF WalkedGrows
  <2>2. RequestsOf(i)' = RequestsOf(i) /\ \A r : Seen(l, r)' <=> Seen(l, r)
    BY <1>2 DEF RequestsOf, Seen, SameMap
  <2>3. CASE i = h
    <3>1. RequestsOf(i) = ToSet(requests_left')
      BY <1>2, <2>3 DEF RequestsOf
    <3> QED BY <1>1, <1>2, <2>2, <3>1 DEF Walked, Considered
  <2>4. CASE i # h /\ i \in ToSet(already_registered)
    BY <1>1, <1>2, <1>3, <2>4 DEF Walked
  <2>5. CASE i \notin ToSet(already_registered)
    <3>1. \A r \in RequestsOf(i) : Seen(l, r)
      BY <1>4, <2>1, <2>5 DEF Walked, Considered
    <3> QED BY <2>2, <3>1 DEF Walked, Considered
  <2> QED BY <2>3, <2>4, <2>5
<1>6. MapGrows
  BY <1>2, SameMapGrows
<1>7. RootOK(l)' /\ FetchesOK(l)'
  <2>1. RootOK(l)'
    BY <1>1, <1>2, <1>5, RootCarried DEF LoadWalkOK
  <2>2. FetchesOK(l)'
    BY <1>1, <1>2 DEF FetchesOK, LoadWalkOK, Imported, SameMap
  <2> QED BY <2>1, <2>2
<1>8. LoadWalkOK(l)'
  <2>1. \A ref \in visited[l] : ToBeFetched(l, ref[1], ref[2]) => VisitedRefOK(l, ref)'
    BY <1>2 DEF ToBeFetched, VisitedRefOK
  <2>2. visited'[l] = visited[l] /\ visited_as_alias'[l] = visited_as_alias[l]
    BY <1>2
  <2> QED BY <1>1, <1>5, <1>6, <1>7, <2>1, <2>2, LoadWalkCarried
<1>9. ASSUME NEW r \in ToSet(info[h].requests) PROVE Imported(site, r) \/ Ref(r) \in visited[l]
  <2>1. /\ info[h].name \in Names /\ info[h].type \in Kinds /\ site \in Sites
        /\ info[h].requests = RequestsIn(info[h].name, info[h].type)
    BY <1>3, InfoFacts DEF GraphIInv, InfoOK
  <2>2. site.imports[info[h].name] \in Seq(Requests)
    BY <2>1, SiteFacts
  <2>3. CASE info[h].type = "data"
    BY <1>9, <2>1, <2>3 DEF RequestsIn, ToSet
  <2>4. CASE info[h].type = "js"
    BY <1>9, <2>1, <2>4 DEF RequestsIn, Imported
  <2>5. CASE info[h].type = "wasm"
    <3> DEFINE own == [name |-> info[h].name, type |-> "none", phase |-> "source"]
    <3>1. info[h].requests = <<own>> \o site.imports[info[h].name]
      BY <2>1, <2>5 DEF RequestsIn
    <3>2. r = own \/ r \in ToSet(site.imports[info[h].name])
      <4> HIDE DEF own
      <4>1. PICK i \in DOMAIN (<<own>> \o site.imports[info[h].name]) :
                r = (<<own>> \o site.imports[info[h].name])[i]
        BY <1>9, <3>1 DEF ToSet
      <4>2. i \in 1 .. 1 + Len(site.imports[info[h].name])
        BY <2>2, <4>1
      <4>3. CASE i = 1
        BY <2>2, <4>1, <4>3
      <4>4. CASE i # 1
        <5>1. i - 1 \in DOMAIN site.imports[info[h].name] /\ r = site.imports[info[h].name][i - 1]
          BY <2>2, <4>1, <4>2, <4>4
        <5> QED BY <5>1 DEF ToSet
      <4> QED BY <4>3, <4>4
    <3>3. Ref(own) \in visited[l]
      BY <1>1, <1>3, <2>5 DEF Ref
    <3> QED BY <2>1, <3>2, <3>3 DEF Imported
  <2> QED BY <2>1, <2>3, <2>4, <2>5 DEF Kinds
<1>10. QueueOK'
  <2>1. info' = info /\ site' = site /\ visited' = visited
    BY <1>2 DEF SameMap
  <2>2. \A i \in ToSet(already_registered') :
          info[i].type = "wasm" => <<info[i].name, "none">> \in visited[l]
    BY <1>1, <1>2, <1>3
  <2>3. \A r \in ToSet(requests_left') : Imported(site, r) \/ Ref(r) \in visited[l]
    BY <1>2, <1>9
  <2> QED BY <1>1, <1>2, <2>1, <2>2, <2>3 DEF QueueOK, Imported, Ref
<1>11. \A k \in Loads \ {l} : SameLoad(k)
  BY <1>2 DEF SameLoad
<1>12. DOMAIN info' \ DOMAIN info = {}
  BY <1>2 DEF SameMap
<1> QED BY <1>1, <1>6, <1>8, <1>10, <1>11, <1>12, WalkCombined

(* One request of the module at hand has been dealt with. *)
LEMMA RequestDealtWith ==
  ASSUME SameMap, NEW l \in walker, walker' = walker, requests_left \in Seq(Requests),
         requests_left # <<>>, requests_left' = Tail(requests_left),
         visited[l] \subseteq visited'[l], visited_as_alias'[l] = visited_as_alias[l],
         NEW h, h = Head(requests_left), Seen(l, h)',
         \A i \in ToSet(already_registered) : i \in ToSet(already_registered')
  PROVE  /\ WalkedGrows(l)
         /\ \A r \in ToSet(requests_left') : r \in ToSet(requests_left)
<1>1. /\ \A x \in ToSet(requests_left) : x = h \/ x \in ToSet(Tail(requests_left))
      /\ \A x \in ToSet(Tail(requests_left)) : x \in ToSet(requests_left)
  BY HeadAndTail
<1>2. \A r : Seen(l, r) => Seen(l, r)'
  BY DEF Seen, Ref
<1>4. \A r : Considered(l, r) => Considered(l, r)'
  BY <1>1, <1>2 DEF Considered
<1>5. \A i \in DOMAIN info : RequestsOf(i)' = RequestsOf(i)
  BY DEF RequestsOf, SameMap
<1>6. WalkedGrows(l)
  BY <1>4, <1>5 DEF WalkedGrows, Walked
<1> QED BY <1>1, <1>6

LEMMA SkipRequestWalks ==
  ASSUME RedirectsSettle, GraphIInv, GraphIInv', WalkIInv, NEW l \in walker, SkipRequest(l)
  PROVE  WalkIInv'
<1>1. /\ l \in Loads /\ walker = {l} /\ LoadWalkOK(l) /\ requests_left \in Seq(Requests)
      /\ \A i \in ToSet(already_registered) :
           info[i].type = "wasm" => <<info[i].name, "none">> \in visited[l]
      /\ \A r \in ToSet(requests_left) : Imported(site, r) \/ Ref(r) \in visited[l]
  BY Walking
<1>2. /\ SameMap /\ UNCHANGED <<root, state, root_module_id, fetches, visited, visited_as_alias>>
      /\ walker' = walker /\ requests_left # <<>> /\ Seen(l, Head(requests_left))
      /\ requests_left' = Tail(requests_left) /\ already_registered' = already_registered
  BY DEF SkipRequest, SameMap, mapVars, rmlVars
<1>3. PICK h : h = Head(requests_left)
  OBVIOUS
<1>4. Seen(l, h)'
  BY <1>2, <1>3 DEF Seen
<1>5. WalkedGrows(l) /\ \A r \in ToSet(requests_left') : r \in ToSet(requests_left)
  BY <1>1, <1>2, <1>3, <1>4, RequestDealtWith
<1>6. MapGrows
  BY <1>2, SameMapGrows
<1>7. RootOK(l)' /\ FetchesOK(l)'
  <2>1. RootOK(l)'
    BY <1>1, <1>2, <1>5, RootCarried DEF LoadWalkOK
  <2>2. FetchesOK(l)'
    BY <1>1, <1>2 DEF FetchesOK, LoadWalkOK, Imported, SameMap
  <2> QED BY <2>1, <2>2
<1>8. LoadWalkOK(l)'
  <2>1. \A ref \in visited[l] : ToBeFetched(l, ref[1], ref[2]) => VisitedRefOK(l, ref)'
    BY <1>2 DEF ToBeFetched, VisitedRefOK
  <2>2. visited'[l] = visited[l] /\ visited_as_alias'[l] = visited_as_alias[l]
    BY <1>2
  <2> QED BY <1>1, <1>5, <1>6, <1>7, <2>1, <2>2, LoadWalkCarried
<1>10. QueueOK'
  <2>1. info' = info /\ site' = site /\ visited' = visited
    BY <1>2 DEF SameMap
  <2> QED BY <1>1, <1>2, <1>5, <2>1 DEF QueueOK, Imported, Ref
<1>11. \A k \in Loads \ {l} : SameLoad(k)
  BY <1>2 DEF SameLoad
<1>12. DOMAIN info' \ DOMAIN info = {}
  BY <1>2 DEF SameMap
<1> QED BY <1>1, <1>6, <1>8, <1>10, <1>11, <1>12, WalkCombined

LEMMA AppendedSet ==
  ASSUME NEW S, NEW s \in Seq(S), NEW x \in S
  PROVE  /\ x \in ToSet(Append(s, x)) /\ \A y \in ToSet(s) : y \in ToSet(Append(s, x))
         /\ \A y \in ToSet(Append(s, x)) : y = x \/ y \in ToSet(s)
<1>1. /\ DOMAIN Append(s, x) = DOMAIN s \cup {Len(s) + 1}
      /\ \A i \in DOMAIN s : Append(s, x)[i] = s[i]
      /\ Append(s, x)[Len(s) + 1] = x
  BY InfoAppended
<1> QED BY <1>1 DEF ToSet

(* The map has the module: the load walks on from it. *)
LEMMA WalkKnownWalks ==
  ASSUME RedirectsSettle, PlainSites, GraphIInv, GraphIInv', WalkIInv, NEW l \in walker, WalkKnown(l)
  PROVE  WalkIInv'
<1>1. /\ l \in Loads /\ walker = {l} /\ LoadWalkOK(l) /\ requests_left \in Seq(Requests)
      /\ already_registered \in Seq(DOMAIN info) /\ site \in Sites
      /\ \A i \in ToSet(already_registered) :
           info[i].type = "wasm" => <<info[i].name, "none">> \in visited[l]
      /\ \A r \in ToSet(requests_left) : Imported(site, r) \/ Ref(r) \in visited[l]
  BY Walking
<1>2. PICK h : h = Head(requests_left)
  OBVIOUS
<1>3. /\ SameMap /\ UNCHANGED <<root, state, root_module_id, fetches, visited_as_alias>>
      /\ walker' = walker /\ requests_left # <<>> /\ requests_left' = Tail(requests_left)
      /\ ~Seen(l, h) /\ KnownId(by_name, h) # {}
      /\ already_registered' = Queued(KnownId(by_name, h))
      /\ visited' = [visited EXCEPT ![l] = @ \cup {Ref(h)}]
  BY <1>2 DEF WalkKnown, SameMap, mapVars
<1>4. h \in Requests /\ h \in ToSet(requests_left)
  BY <1>1, <1>2, <1>3, HeadAndTail
<1>5. h.name \in Names /\ h.type \in RequestedTypes /\ Ref(h) = <<h.name, h.type>>
  BY <1>4, RequestFacts
<1>6. PICK i \in GetId(by_name, h.name, h.type) : TRUE
  BY <1>3 DEF KnownId
<1>7. /\ i \in DOMAIN info /\ GetId(by_name, h.name, h.type) = {i}
      /\ info[i].name = site.found[h.name] /\ RequestedFrom(info[i].type) = h.type
  BY <1>5, <1>6, KnownNow
<1>8. already_registered' = Append(already_registered, i)
  <2>1. KnownId(by_name, h) = {i}
    BY <1>7 DEF KnownId
  <2>2. (CHOOSE id \in {i} : TRUE) = i
    OBVIOUS
  <2> QED BY <1>3, <2>1, <2>2 DEF Queued
<1>9. /\ i \in ToSet(already_registered')
      /\ \A y \in ToSet(already_registered) : y \in ToSet(already_registered')
      /\ \A y \in ToSet(already_registered') : y = i \/ y \in ToSet(already_registered)
  BY <1>1, <1>7, <1>8, AppendedSet
<1>10. visited'[l] = visited[l] \cup {Ref(h)} /\ visited_as_alias'[l] = visited_as_alias[l]
  BY <1>1, <1>3 DEF GraphIInv, LoadType
<1>11. Seen(l, h)'
  BY <1>10 DEF Seen, Ref
<1>12. WalkedGrows(l) /\ \A r \in ToSet(requests_left') : r \in ToSet(requests_left)
  BY <1>1, <1>2, <1>3, <1>9, <1>10, <1>11, RequestDealtWith
<1>13. MapGrows
  BY <1>3, SameMapGrows
<1>14. RootOK(l)' /\ FetchesOK(l)'
  <2>1. RootOK(l)'
    BY <1>1, <1>3, <1>12, RootCarried DEF LoadWalkOK
  <2>2. FetchesOK(l)'
    BY <1>1, <1>3 DEF FetchesOK, LoadWalkOK, Imported, SameMap
  <2> QED BY <2>1, <2>2
<1>15. VisitedRefOK(l, Ref(h))'
  <2>1. ~SourceRef(h.name, h.type)
    BY <1>5, <1>6, KnownNotSource
  <2>2. ~SourceRef(h.name, h.type)'
    BY <2>1, SourceRefStays, <1>13 DEF MapGrows
  <2>3. Walked(l, i)'
    BY <1>1, <1>3, <1>9 DEF Walked
  <2>4. GetId(by_name, h.name, h.type)' = {i}
    BY <1>3, <1>7 DEF SameMap
  <2>5. KnownAndWalked(l, h.name, h.type)'
    BY <2>3, <2>4 DEF KnownAndWalked
  <2>6. Ref(h)[1] = h.name /\ Ref(h)[2] = h.type
    BY <1>5
  <2> QED BY <2>2, <2>5, <2>6 DEF VisitedRefOK
<1>16. LoadWalkOK(l)'
  <2>1. \A ref \in visited[l] : ToBeFetched(l, ref[1], ref[2]) => VisitedRefOK(l, ref)'
    BY <1>3 DEF ToBeFetched, VisitedRefOK
  <2>2. \A ref \in visited'[l] \ visited[l] : VisitedRefOK(l, ref)'
    BY <1>10, <1>15
  <2> QED BY <1>1, <1>10, <1>12, <1>13, <1>14, <2>1, <2>2, LoadWalkCarried
<1>17. QueueOK'
  <2>1. info' = info /\ site' = site
    BY <1>3 DEF SameMap
  <2>2. ASSUME info[i].type = "wasm" PROVE <<info[i].name, "none">> \in visited'[l]
    <3>1. InfoKind(i)
      BY <1>7 DEF WalkIInv
    <3>2. h.name = info[i].name
      BY <1>5, <1>7, <2>2, <3>1 DEF InfoKind
    <3>3. h.type = "none"
      BY <1>7, <2>2 DEF RequestedFrom
    <3> QED BY <1>5, <1>10, <3>2, <3>3
  <2>3. \A y \in ToSet(already_registered') :
          info[y].type = "wasm" => <<info[y].name, "none">> \in visited'[l]
    BY <1>1, <1>9, <1>10, <2>2
  <2>4. \A r \in ToSet(requests_left') : Imported(site, r) \/ Ref(r) \in visited'[l]
    BY <1>1, <1>10, <1>12
  <2> QED BY <1>1, <1>3, <2>1, <2>3, <2>4 DEF QueueOK, Imported, Ref
<1>18. \A k \in Loads \ {l} : SameLoad(k)
  BY <1>1, <1>3 DEF SameLoad, GraphIInv, LoadType
<1>19. DOMAIN info' \ DOMAIN info = {}
  BY <1>3 DEF SameMap
<1> QED BY <1>1, <1>13, <1>16, <1>17, <1>18, <1>19, WalkCombined

(* The map does not have it: it is fetched. *)
LEMMA AddFetchWalks ==
  ASSUME RedirectsSettle, GraphIInv, GraphIInv', WalkIInv, NEW l \in walker, AddFetch(l)
  PROVE  WalkIInv'
<1>1. /\ l \in Loads /\ walker = {l} /\ LoadWalkOK(l) /\ requests_left \in Seq(Requests)
      /\ \A i \in ToSet(already_registered) :
           info[i].type = "wasm" => <<info[i].name, "none">> \in visited[l]
      /\ \A r \in ToSet(requests_left) : Imported(site, r) \/ Ref(r) \in visited[l]
  BY Walking
<1>2. PICK h : h = Head(requests_left)
  OBVIOUS
<1>3. /\ SameMap /\ UNCHANGED <<root, state, root_module_id, visited_as_alias>>
      /\ walker' = walker /\ requests_left # <<>> /\ requests_left' = Tail(requests_left)
      /\ already_registered' = already_registered /\ ~Seen(l, h)
      /\ fetches' = [fetches EXCEPT ![l] = @ \cup {Pending(h, FALSE)}]
      /\ visited' = [visited EXCEPT ![l] = @ \cup {Ref(h)}]
  BY <1>2 DEF AddFetch, SameMap, mapVars
<1>4. h \in Requests /\ h \in ToSet(requests_left)
  BY <1>1, <1>2, <1>3, HeadAndTail
<1>5. Ref(h) = <<h.name, h.type>> /\ Imported(site, h)
  BY <1>1, <1>3, <1>4, RequestFacts DEF Seen
<1>6. /\ visited'[l] = visited[l] \cup {Ref(h)} /\ visited_as_alias'[l] = visited_as_alias[l]
      /\ fetches'[l] = fetches[l] \cup {Pending(h, FALSE)} /\ Pending(h, FALSE).request = h
  BY <1>1, <1>3 DEF GraphIInv, LoadType, Pending
<1>7. Seen(l, h)'
  BY <1>6 DEF Seen, Ref
<1>8. WalkedGrows(l) /\ \A r \in ToSet(requests_left') : r \in ToSet(requests_left)
  BY <1>1, <1>2, <1>3, <1>6, <1>7, RequestDealtWith
<1>9. MapGrows
  BY <1>3, SameMapGrows
<1>10. RootOK(l)' /\ FetchesOK(l)'
  <2>1. RootOK(l)'
    BY <1>1, <1>3, <1>8, RootCarried DEF LoadWalkOK
  <2>2. \A p \in fetches'[l] : Imported(site, p.request)
    BY <1>1, <1>5, <1>6 DEF FetchesOK, LoadWalkOK
  <2>3. FetchesOK(l)'
    BY <1>3, <2>2 DEF FetchesOK, Imported, SameMap
  <2> QED BY <2>1, <2>3
<1>11. VisitedRefOK(l, Ref(h))'
  <2>1. Pending(h, FALSE) \in fetches'[l] /\ Ref(Pending(h, FALSE).request) = <<h.name, h.type>>
    BY <1>5, <1>6
  <2>2. PICK p : p = Pending(h, FALSE)
    OBVIOUS
  <2>3. ToBeFetched(l, h.name, h.type)'
    BY <2>1, <2>2 DEF ToBeFetched, Ref
  <2>4. Ref(h)[1] = h.name /\ Ref(h)[2] = h.type
    BY <1>5
  <2> QED BY <2>3, <2>4 DEF VisitedRefOK
<1>12. LoadWalkOK(l)'
  <2>1. \A ref \in visited[l] : ToBeFetched(l, ref[1], ref[2]) => VisitedRefOK(l, ref)'
    BY <1>6 DEF ToBeFetched, VisitedRefOK
  <2>2. \A ref \in visited'[l] \ visited[l] : VisitedRefOK(l, ref)'
    BY <1>6, <1>11
  <2> QED BY <1>1, <1>6, <1>8, <1>9, <1>10, <2>1, <2>2, LoadWalkCarried
<1>13. QueueOK'
  <2>1. info' = info /\ site' = site
    BY <1>3 DEF SameMap
  <2>2. \A r \in ToSet(requests_left') : Imported(site, r) \/ Ref(r) \in visited'[l]
    BY <1>1, <1>6, <1>8
  <2> QED BY <1>1, <1>3, <1>6, <2>1, <2>2 DEF QueueOK, Imported, Ref
<1>14. \A k \in Loads \ {l} : SameLoad(k)
  BY <1>1, <1>3 DEF SameLoad, GraphIInv, LoadType
<1>15. DOMAIN info' \ DOMAIN info = {}
  BY <1>3 DEF SameMap
<1> QED BY <1>1, <1>9, <1>12, <1>13, <1>14, <1>15, WalkCombined

(* The walk is over: what the load has considered it has seen. *)
LEMMA WalkEndsWalks ==
  ASSUME RedirectsSettle, GraphIInv, GraphIInv', WalkIInv, NEW l \in walker, WalkEnds(l)
  PROVE  WalkIInv'
<1>1. l \in Loads /\ walker = {l} /\ LoadWalkOK(l)
  BY Walking
<1>2. /\ SameMap /\ UNCHANGED <<root, root_module_id, fetches, visited, visited_as_alias>>
      /\ walker' = {} /\ requests_left = <<>> /\ already_registered = <<>>
      /\ state' = [state EXCEPT ![l] = StateAfter(l)]
  BY DEF WalkEnds, SameMap, mapVars
<1>3. state'[l] \in {"done", "loading_imports"}
  BY <1>1, <1>2 DEF GraphIInv, LoadType, StateAfter
<1>4. WalkedGrows(l)
  <2>1. SUFFICES ASSUME NEW i \in DOMAIN info, Walked(l, i) PROVE Walked(l, i)'
    BY DEF WalkedGrows
  <2>2. ToSet(requests_left) = {} /\ ToSet(already_registered) = {}
    BY <1>2 DEF ToSet
  <2>3. \A r \in RequestsOf(i) : Seen(l, r)
    BY <2>1, <2>2 DEF Walked, Considered
  <2>4. RequestsOf(i)' = RequestsOf(i) /\ \A r : Seen(l, r)' <=> Seen(l, r)
    BY <1>2 DEF RequestsOf, Seen, SameMap
  <2> QED BY <2>3, <2>4 DEF Walked, Considered
<1>5. MapGrows
  BY <1>2, SameMapGrows
<1>6. RootOK(l)' /\ FetchesOK(l)'
  <2>1. RootOK(l)'
    BY <1>1, <1>2, <1>3, <1>4, RootCarried DEF LoadWalkOK
  <2>2. FetchesOK(l)'
    BY <1>1, <1>2 DEF FetchesOK, LoadWalkOK, Imported, SameMap
  <2> QED BY <2>1, <2>2
<1>7. LoadWalkOK(l)'
  <2>1. \A ref \in visited[l] : ToBeFetched(l, ref[1], ref[2]) => VisitedRefOK(l, ref)'
    BY <1>2 DEF ToBeFetched, VisitedRefOK
  <2>2. visited'[l] = visited[l] /\ visited_as_alias'[l] = visited_as_alias[l]
    BY <1>2
  <2> QED BY <1>1, <1>4, <1>5, <1>6, <2>1, <2>2, LoadWalkCarried
<1>8. QueueOK'
  BY <1>2 DEF QueueOK
<1>9. \A k \in Loads \ {l} : SameLoad(k)
  BY <1>1, <1>2 DEF SameLoad, GraphIInv, LoadType
<1>10. DOMAIN info' \ DOMAIN info = {}
  BY <1>2 DEF SameMap
<1> QED BY <1>1, <1>5, <1>7, <1>8, <1>9, <1>10, WalkCombined

(***************************************************************************)
(* The steps of a load outside the walk.                                   *)
(***************************************************************************)
LEMMA NoQueue ==
  ASSUME walker' = {}
  PROVE  QueueOK'
BY DEF QueueOK

(* A load that has visited nothing yet, or is dropped. *)
LEMMA FreshLoadWalks ==
  ASSUME RedirectsSettle, GraphIInv, GraphIInv', WalkIInv, MapGrows, NEW l \in Loads,
         walker = {}, walker' = {}, DOMAIN info' = DOMAIN info, \A k \in Loads \ {l} : SameLoad(k),
         visited'[l] = {}, visited_as_alias'[l] = {}, state'[l] \notin {"loading_imports", "done"},
         state'[l] = "loading_root" \/ fetches'[l] = {},
         state'[l] = "init" => root_module_id'[l] \subseteq GetId(by_name, root[l].name, root[l].type)'
  PROVE  WalkIInv'
<1>1. RootOK(l)'
  BY DEF RootOK
<1>2. FetchesOK(l)'
  BY DEF FetchesOK
<1>3. LoadWalkOK(l)'
  BY <1>1, <1>2 DEF LoadWalkOK
<1>4. QueueOK'
  BY NoQueue
<1> QED BY <1>3, <1>4, WalkCombined

LEMMA EndsWalks ==
  ASSUME RedirectsSettle, GraphIInv, GraphIInv', WalkIInv, MapGrows, NEW l \in Loads,
         walker = {}, UNCHANGED walkVars, UNCHANGED info, NEW how \in Ended, Ends(l, how)
  PROVE  WalkIInv'
<1>1. \A k \in Loads \ {l} : SameLoad(k)
  BY EndsKeeps
<1>2. /\ state'[l] = how /\ fetches'[l] = {} /\ visited'[l] = {} /\ visited_as_alias'[l] = {}
      /\ walker' = {}
  BY DEF Ends, GraphIInv, LoadType, walkVars
<1>3. state'[l] \notin {"loading_imports", "done", "init"}
  BY <1>2 DEF Ended
<1> QED BY <1>1, <1>2, <1>3, FreshLoadWalks

LEMMA FetchFailsWalks ==
  ASSUME RedirectsSettle, GraphIInv, GraphIInv', WalkIInv, NEW l \in Loads, walker = {},
         NEW p \in fetches[l], FetchFails(l, p)
  PROVE  WalkIInv'
<1>1. Ends(l, "failed") /\ UNCHANGED walkVars /\ UNCHANGED info /\ SameMap
  BY DEF FetchFails, mapVars, SameMap
<1>2. "failed" \in Ended /\ MapGrows
  BY <1>1, SameMapGrows DEF Ended
<1> QED BY <1>1, <1>2, EndsWalks

LEMMA LoadFutureEndsWalks ==
  ASSUME RedirectsSettle, GraphIInv, GraphIInv', WalkIInv, NEW l \in Loads, walker = {},
         LoadFutureEnds(l)
  PROVE  WalkIInv'
<1>1. PICK how \in Ended : Ends(l, how)
  BY DEF LoadFutureEnds, Ended
<1>2. UNCHANGED walkVars /\ UNCHANGED info /\ SameMap
  BY DEF LoadFutureEnds, mapVars, SameMap
<1>3. MapGrows
  BY <1>2, SameMapGrows
<1> QED BY <1>1, <1>2, <1>3, EndsWalks

LEMMA ModuleRefusedWalks ==
  ASSUME RedirectsSettle, GraphIInv, GraphIInv', WalkIInv, NEW l \in Loads, walker = {},
         NEW p \in fetches[l], ModuleRefused(l, p)
  PROVE  WalkIInv'
<1> DEFINE r == p.request
<1>1. /\ by_name' = WithAlias(r) /\ sources' \in {sources, WithSource(r)} /\ Ends(l, "failed")
      /\ UNCHANGED <<site, info, main_module_id>> /\ UNCHANGED walkVars
  BY DEF ModuleRefused
<1>2. r \in Requests /\ site \in Sites /\ MapOK(by_name, info)
  BY DEF GraphIInv, LoadType, FetchType
<1>3. Grows(by_name, by_name') /\ sources \subseteq sources'
  BY <1>1, <1>2, AliasNoted, SourcesGrow
<1>4. MapGrows /\ "failed" \in Ended
  BY <1>1, <1>3 DEF MapGrows, Ended
<1> QED BY <1>1, <1>4, EndsWalks

LEMMA NewLoadWalks ==
  ASSUME RedirectsSettle, GraphIInv, GraphIInv', WalkIInv, NEW l \in Loads, walker = {},
         NEW how, NEW r \in site.entries, NewLoad(l, how, r)
  PROVE  WalkIInv'
<1>1. /\ state[l] = "none" /\ SameMap /\ walker' = {}
      /\ state' = [state EXCEPT ![l] = "init"] /\ root' = [root EXCEPT ![l] = r]
      /\ root_module_id' = [root_module_id EXCEPT ![l] = GetId(by_name, r.name, r.type)]
      /\ UNCHANGED <<fetches, visited, visited_as_alias>>
  BY DEF NewLoad, SameMap, mapVars, walkVars
<1>2. fetches[l] = {} /\ visited[l] = {} /\ visited_as_alias[l] = {}
  BY <1>1 DEF GraphIInv, LoadOK, LoadOKOf, Ended
<1>3. /\ state'[l] = "init" /\ root'[l] = r /\ root_module_id'[l] = GetId(by_name, r.name, r.type)
      /\ \A k \in Loads \ {l} : SameLoad(k)
  BY <1>1 DEF GraphIInv, LoadType, SameLoad
<1>4. root_module_id'[l] \subseteq GetId(by_name, root[l].name, root[l].type)'
  BY <1>1, <1>3 DEF SameMap
<1>5. MapGrows /\ DOMAIN info' = DOMAIN info
  BY <1>1, SameMapGrows DEF SameMap
<1> QED BY <1>1, <1>2, <1>3, <1>4, <1>5, FreshLoadWalks

LEMMA FetchRootWalks ==
  ASSUME RedirectsSettle, GraphIInv, GraphIInv', WalkIInv, NEW l \in Loads, walker = {}, FetchRoot(l)
  PROVE  WalkIInv'
<1>1. /\ state[l] = "init" /\ SameMap /\ walker' = {}
      /\ state' = [state EXCEPT ![l] = "loading_root"]
      /\ fetches' = [fetches EXCEPT ![l] = {Pending(root[l], TRUE)}]
      /\ UNCHANGED <<root, root_module_id, visited, visited_as_alias>>
  BY DEF FetchRoot, SameMap, mapVars, walkVars
<1>2. visited[l] = {} /\ visited_as_alias[l] = {}
  BY <1>1 DEF GraphIInv, LoadOK, LoadOKOf, Ended
<1>3. state'[l] = "loading_root" /\ \A k \in Loads \ {l} : SameLoad(k)
  BY <1>1 DEF GraphIInv, LoadType, SameLoad
<1>5. MapGrows /\ DOMAIN info' = DOMAIN info
  BY <1>1, SameMapGrows DEF SameMap
<1> QED BY <1>1, <1>2, <1>3, <1>5, FreshLoadWalks

LEMMA FetchStartsWalks ==
  ASSUME RedirectsSettle, GraphIInv, GraphIInv', WalkIInv, NEW l \in Loads, walker = {},
         NEW p \in fetches[l], FetchStarts(l, p)
  PROVE  WalkIInv'
<1>1. /\ SameMap /\ walker' = {} /\ Loading(l) /\ ~p.started
      /\ fetches' = [fetches EXCEPT ![l] = (@ \ {p}) \cup {Pending(p.request, TRUE)}]
      /\ UNCHANGED <<root, state, root_module_id, visited, visited_as_alias>>
  BY DEF FetchStarts, SameMap, mapVars, walkVars
<1>2. MapGrows /\ DOMAIN info' = DOMAIN info /\ LoadWalkOK(l) /\ LoadOK(l)
  BY <1>1, SameMapGrows DEF SameMap, WalkIInv, GraphIInv
<1>3. /\ fetches'[l] = (fetches[l] \ {p}) \cup {Pending(p.request, TRUE)}
      /\ Pending(p.request, TRUE).request = p.request /\ \A k \in Loads \ {l} : SameLoad(k)
  BY <1>1 DEF GraphIInv, LoadType, SameLoad, Pending
<1>4. WalkedGrows(l)
  BY <1>1, <1>2, SeenIsWalked
<1>5. RootOK(l)'
  BY <1>1, <1>2, <1>4, RootCarried DEF LoadWalkOK
<1>6. FetchesOK(l)'
  <2>1. state[l] # "loading_root"
    BY <1>1, <1>2 DEF LoadOK, LoadOKOf, Pending
  <2>2. \A q \in fetches[l] : Imported(site, q.request)
    BY <1>2, <2>1 DEF LoadWalkOK, FetchesOK
  <2>3. \A q \in fetches'[l] : Imported(site, q.request)
    BY <1>3, <2>2
  <2> QED BY <1>1, <2>3 DEF FetchesOK, Imported, SameMap
<1>7. ASSUME NEW ref \in visited[l], ToBeFetched(l, ref[1], ref[2]) PROVE VisitedRefOK(l, ref)'
  <2>1. PICK q \in fetches[l] : Ref(q.request) = <<ref[1], ref[2]>>
    BY <1>7 DEF ToBeFetched
  <2>2. \E q2 \in fetches'[l] : Ref(q2.request) = <<ref[1], ref[2]>>
    BY <1>3, <2>1
  <2>3. ToBeFetched(l, ref[1], ref[2])'
    BY <2>2 DEF ToBeFetched, Ref
  <2> QED BY <2>3 DEF VisitedRefOK
<1>8. visited'[l] = visited[l] /\ visited_as_alias'[l] = visited_as_alias[l]
  BY <1>1
<1>9. LoadWalkOK(l)'
  BY <1>2, <1>4, <1>5, <1>6, <1>7, <1>8, LoadWalkCarried
<1>10. QueueOK'
  BY <1>1, NoQueue
<1> QED BY <1>2, <1>3, <1>9, <1>10, WalkCombined

(* A fetch that is dropped answered: what is left of it is in the map. *)
LEMMA FetchAnswered ==
  ASSUME GraphIInv, NEW l \in Loads, NEW p \in fetches[l], fetches'[l] = fetches[l] \ {p},
         NEW ref \in visited[l], ToBeFetched(l, ref[1], ref[2]),
         ref = Ref(p.request) => VisitedRefOK(l, ref)'
  PROVE  VisitedRefOK(l, ref)'
<1>1. PICK q \in fetches[l] : Ref(q.request) = <<ref[1], ref[2]>>
  BY DEF ToBeFetched
<1>2. ref = <<ref[1], ref[2]>>
  BY DEF GraphIInv, LoadType
<1>3. CASE q = p
  BY <1>1, <1>2, <1>3
<1>4. CASE q # p
  <2>1. ToBeFetched(l, ref[1], ref[2])'
    BY <1>1, <1>4 DEF ToBeFetched, Ref
  <2> QED BY <2>1 DEF VisitedRefOK
<1> QED BY <1>3, <1>4

LEMMA FetchIsAliasWalks ==
  ASSUME RedirectsSettle, PlainSites, GraphIInv, GraphIInv', WalkIInv, NEW l \in Loads, walker = {},
         NEW p \in fetches[l], FetchIsAlias(l, p)
  PROVE  WalkIInv'
<1> DEFINE r == p.request
<1>1. /\ SameMap /\ walker' = {} /\ fetches' = [fetches EXCEPT ![l] = @ \ {p}]
      /\ state' = [state EXCEPT ![l] = IF fetches[l] = {p} THEN "done" ELSE @]
      /\ UNCHANGED <<root, root_module_id, visited, visited_as_alias>>
      /\ r.name \in visited_as_alias[l]
  BY DEF FetchIsAlias, SameMap, mapVars, walkVars, DoneIfLast
<1>2. /\ MapGrows /\ DOMAIN info' = DOMAIN info /\ LoadWalkOK(l) /\ site \in Sites
      /\ state[l] = "loading_imports" /\ r \in Requests
  <2>1. state[l] = "loading_imports"
    BY FetchIsAliasKeeps
  <2>2. r \in Requests
    BY DEF GraphIInv, LoadType, FetchType
  <2> QED BY <1>1, <2>1, <2>2, SameMapGrows DEF SameMap, WalkIInv, GraphIInv
<1>3. /\ fetches'[l] = fetches[l] \ {p} /\ state'[l] \in {"done", "loading_imports"}
      /\ \A k \in Loads \ {l} : SameLoad(k)
  BY <1>1, <1>2 DEF GraphIInv, LoadType, SameLoad
<1>4. WalkedGrows(l)
  BY <1>1, <1>2, SeenIsWalked
<1>5. RootOK(l)'
  BY <1>1, <1>2, <1>3, <1>4, RootCarried DEF LoadWalkOK
<1>6. \A q \in fetches[l] : Imported(site, q.request)
  BY <1>2 DEF LoadWalkOK, FetchesOK
<1>7. FetchesOK(l)'
  BY <1>1, <1>3, <1>6 DEF FetchesOK, Imported, SameMap
<1>8. /\ r.type = "none" /\ ~SourceRef(r.name, "none") /\ KnownAndWalked(l, r.name, "none")
      /\ r.name \in Names
  <2>1. AliasOK(l, r.name) /\ Imported(site, r)
    BY <1>1, <1>2, <1>6 DEF LoadWalkOK
  <2>2. PICK n \in Names : n # r.name /\ site.found[n] = r.name
    BY <2>1 DEF AliasOK
  <2>3. r.type = "none"
    BY <1>2, <2>1, <2>2, RedirectedImport
  <2>4. ~SourceRef(r.name, "none")
    BY <1>2, <2>2, NoRedirectIsSource
  <2> QED BY <1>2, <2>1, <2>3, <2>4, RequestFacts DEF AliasOK
<1>9. VisitedRefOK(l, <<r.name, "none">>)'
  <2>1. "none" \in RequestedTypes
    BY DEF RequestedTypes
  <2>2. PICK n \in Names : n = r.name
    BY <1>8
  <2>3. KnownAndWalked(l, n, "none")'
    BY <1>2, <1>4, <1>8, <2>1, <2>2, WalkedCarried
  <2>4. ~SourceRef(n, "none")'
    BY <1>2, <1>8, <2>2, SourceRefStays DEF MapGrows
  <2>5. VisitedRefOK(l, <<n, "none">>)'
    BY <2>3, <2>4 DEF VisitedRefOK
  <2> QED BY <2>2, <2>5
<1>10. ASSUME NEW ref \in visited[l], ToBeFetched(l, ref[1], ref[2]) PROVE VisitedRefOK(l, ref)'
  <2>1. Ref(r) = <<r.name, "none">>
    BY <1>8 DEF Ref
  <2>2. ref = Ref(p.request) => VisitedRefOK(l, ref)'
    BY <1>9, <2>1
  <2> QED BY <1>3, <1>10, <2>2, FetchAnswered
<1>11. visited'[l] = visited[l] /\ visited_as_alias'[l] = visited_as_alias[l]
  BY <1>1
<1>12. LoadWalkOK(l)'
  BY <1>2, <1>4, <1>5, <1>7, <1>10, <1>11, LoadWalkCarried
<1>13. QueueOK'
  BY <1>1, NoQueue
<1> QED BY <1>2, <1>3, <1>12, <1>13, WalkCombined

(* A source of an import: nothing redirects there, and no module is made. *)
LEMMA SourceFetchedWalks ==
  ASSUME RedirectsSettle, PlainSites, GraphIInv, GraphIInv', WalkIInv, NEW l \in Loads, walker = {},
         NEW p \in fetches[l], SourceFetched(l, p)
  PROVE  WalkIInv'
<1> DEFINE r == p.request
<1>1. /\ Loading(l) /\ r.phase = "source" /\ LoadedType(r) = "wasm"
      /\ by_name' = WithAlias(r) /\ sources' = WithSource(r)
      /\ fetches' = [fetches EXCEPT ![l] = @ \ {p}]
      /\ state' = [state EXCEPT ![l] = IF fetches[l] = {p} THEN "done" ELSE @]
      /\ visited_as_alias' = AliasesAfter(l, p)
      /\ UNCHANGED <<site, info, root, root_module_id, visited>> /\ walker' = {}
  BY DEF SourceFetched, DoneIfLast, walkVars
<1>2. /\ r \in Requests /\ site \in Sites /\ MapOK(by_name, info) /\ LoadOK(l) /\ LoadWalkOK(l)
      /\ LoadType
  BY DEF GraphIInv, LoadType, FetchType, WalkIInv
<1>3. MapGrows /\ DOMAIN info' = DOMAIN info
  <2>1. Grows(by_name, by_name') /\ sources \subseteq sources'
    BY <1>1, <1>2, AliasNoted, SourcesGrow
  <2> QED BY <1>1, <2>1 DEF MapGrows
<1>4. /\ visited_as_alias'[l] = IF Found(r) = r.name \/ state[l] = "loading_root"
                                THEN visited_as_alias[l] ELSE visited_as_alias[l] \cup {Found(r)}
      /\ \A k \in Loads \ {l} : visited_as_alias'[k] = visited_as_alias[k]
  BY <1>1, AliasesAfterType
<1>5. /\ fetches'[l] = fetches[l] \ {p} /\ visited'[l] = visited[l] /\ root'[l] = root[l]
      /\ root_module_id'[l] = root_module_id[l]
      /\ state'[l] = IF fetches[l] = {p} THEN "done" ELSE state[l]
      /\ \A k \in Loads \ {l} : SameLoad(k)
  BY <1>1, <1>2, <1>4 DEF LoadType, SameLoad
<1>6. QueueOK'
  BY <1>1, NoQueue
<1>7. CASE state[l] = "loading_root"
  <2>1. /\ p = Pending(root[l], TRUE) /\ fetches[l] = {p} /\ visited[l] = {}
        /\ visited_as_alias[l] = {}
    BY <1>2, <1>7 DEF LoadOK, LoadOKOf
  <2>2. root[l].phase = "source"
    BY <1>1, <2>1 DEF Pending
  <2>3. visited'[l] = {} /\ visited_as_alias'[l] = {} /\ state'[l] = "done" /\ fetches'[l] = {}
    BY <1>4, <1>5, <1>7, <2>1
  <2>4. RootOK(l)' /\ FetchesOK(l)'
    BY <1>5, <2>2, <2>3 DEF RootOK, FetchesOK
  <2>5. LoadWalkOK(l)'
    BY <2>3, <2>4 DEF LoadWalkOK
  <2> QED BY <1>3, <1>5, <1>6, <2>5, WalkCombined
<1>8. CASE state[l] = "loading_imports"
  <2>1. \A q \in fetches[l] : Imported(site, q.request)
    BY <1>2, <1>8 DEF LoadWalkOK, FetchesOK
  <2>2. Imported(site, r) /\ r.name \in Names /\ Ref(r) = <<r.name, r.type>>
    BY <1>2, <2>1, RequestFacts
  <2>3. Found(r) = r.name
    BY <1>1, <1>2, <2>2, RedirectedImport DEF Found
  <2>4. visited_as_alias'[l] = visited_as_alias[l]
    BY <1>4, <2>3
  <2>5. WalkedGrows(l)
    BY <1>3, <1>5, <2>4, SeenIsWalked
  <2>6. state'[l] \in {"done", "loading_imports"}
    BY <1>5, <1>8
  <2>7. RootOK(l)'
    <3>1. \A i \in root_module_id[l] : Walked(l, i) => Walked(l, i)'
      BY <1>2, <2>5 DEF WalkedGrows, LoadType
    <3> QED BY <1>2, <1>5, <1>8, <2>6, <3>1 DEF RootOK, LoadWalkOK
  <2>8. FetchesOK(l)'
    BY <1>1, <1>5, <2>1 DEF FetchesOK, Imported
  <2>9. VisitedRefOK(l, Ref(r))'
    <3>1. SourceRef(r.name, r.type)
      BY <1>1, <1>2, <2>2 DEF SourceRef
    <3>2. SourceRef(r.name, r.type)'
      BY <1>1, <3>1, SourceRefStays
    <3>3. <<"requested", r.name, r.type>> \in sources'
      BY <1>1, SourcesGrow
    <3>4. VisitedRefOK(l, <<r.name, r.type>>)'
      BY <3>2, <3>3 DEF VisitedRefOK
    <3> QED BY <2>2, <3>4 DEF Ref
  <2>10. ASSUME NEW ref \in visited[l], ToBeFetched(l, ref[1], ref[2]) PROVE VisitedRefOK(l, ref)'
    <3>1. ref = Ref(p.request) => VisitedRefOK(l, ref)'
      BY <2>9
    <3> QED BY <1>5, <2>10, <3>1, FetchAnswered
  <2>11. LoadWalkOK(l)'
    BY <1>2, <1>3, <1>5, <2>4, <2>5, <2>7, <2>8, <2>10, LoadWalkCarried
  <2> QED BY <1>3, <1>5, <1>6, <2>11, WalkCombined
<1> QED BY <1>1, <1>7, <1>8 DEF Loading

(* The walk starts from a root that the map has. *)
LEMMA RootIsKnownWalks ==
  ASSUME RedirectsSettle, PlainSites, GraphIInv, GraphIInv', WalkIInv, NEW l \in Loads, walker = {},
         RootIsKnown(l)
  PROVE  WalkIInv'
<1>1. PICK id \in root_module_id[l] : RecurseFrom(l, id, root[l])
  BY DEF RootIsKnown
<1>2. PICK r : r = root[l]
  OBVIOUS
<1>3. /\ state[l] = "init" /\ r.phase = "evaluation" /\ SameMap
      /\ walker' = {l} /\ already_registered' = <<id>> /\ requests_left' = <<>>
      /\ visited' = [visited EXCEPT ![l] = @ \cup {Ref(r)}]
      /\ UNCHANGED <<root, state, root_module_id, fetches, visited_as_alias>>
  BY <1>1, <1>2 DEF RootIsKnown, RecurseFrom, SameMap, mapVars
<1>4. /\ LoadOK(l) /\ LoadWalkOK(l) /\ site \in Sites /\ r \in site.entries
      /\ fetches[l] = {} /\ visited[l] = {} /\ visited_as_alias[l] = {}
  BY <1>2, <1>3 DEF GraphIInv, WalkIInv, LoadOK, LoadOKOf, Ended
<1>5. r \in Requests /\ r.name \in Names /\ r.type \in RequestedTypes /\ Ref(r) = <<r.name, r.type>>
  BY <1>4, SiteFacts, RequestFacts
<1>6. root_module_id[l] \subseteq GetId(by_name, r.name, r.type)
  BY <1>2, <1>3, <1>4 DEF LoadWalkOK, RootOK
<1>7. /\ id \in DOMAIN info /\ GetId(by_name, r.name, r.type) = {id}
      /\ info[id].name = site.found[r.name] /\ RequestedFrom(info[id].type) = r.type
  BY <1>1, <1>5, <1>6, KnownNow
<1>8. visited'[l] = {<<r.name, r.type>>} /\ \A k \in Loads \ {l} : SameLoad(k)
  BY <1>3, <1>4, <1>5 DEF GraphIInv, LoadType, SameLoad
<1>9. Walked(l, id)'
  <2>1. id \in ToSet(<<id>>)
    BY DEF ToSet
  <2> QED BY <1>3, <2>1 DEF Walked
<1>10. VisitedRefOK(l, <<r.name, r.type>>)'
  <2>1. ~SourceRef(r.name, r.type)
    BY <1>5, <1>7, KnownNotSource
  <2>2. ~SourceRef(r.name, r.type)'
    BY <1>3, <2>1, SourceRefStays DEF SameMap
  <2>3. GetId(by_name, r.name, r.type)' = {id}
    BY <1>3, <1>7 DEF SameMap
  <2>4. KnownAndWalked(l, r.name, r.type)'
    BY <1>9, <2>3 DEF KnownAndWalked
  <2> QED BY <2>2, <2>4 DEF VisitedRefOK
<1>11. RootOK(l)'
  <2>1. root_module_id'[l] = {id} /\ state'[l] = "init" /\ root'[l] = r /\ by_name' = by_name
    BY <1>1, <1>2, <1>3, <1>6, <1>7 DEF SameMap
  <2> QED BY <1>6, <1>7, <1>9, <2>1 DEF RootOK
<1>12. FetchesOK(l)'
  BY <1>3, <1>4 DEF FetchesOK
<1>13. LoadWalkOK(l)'
  BY <1>3, <1>4, <1>8, <1>10, <1>11, <1>12 DEF LoadWalkOK
<1>14. QueueOK'
  <2>1. ToSet(already_registered') = {id} /\ ToSet(requests_left') = {}
    BY <1>3 DEF ToSet
  <2>2. ASSUME info[id].type = "wasm" PROVE <<info[id].name, "none">> \in visited'[l]
    <3>1. InfoKind(id)
      BY <1>7 DEF WalkIInv
    <3>2. r.name = info[id].name
      BY <1>5, <1>7, <2>2, <3>1 DEF InfoKind
    <3>3. r.type = "none"
      BY <1>7, <2>2 DEF RequestedFrom
    <3> QED BY <1>8, <3>2, <3>3
  <2> QED BY <1>3, <2>1, <2>2 DEF QueueOK, SameMap
<1>15. MapGrows /\ DOMAIN info' = DOMAIN info
  BY <1>3, SameMapGrows DEF SameMap
<1> QED BY <1>8, <1>13, <1>14, <1>15, WalkCombined

LEMMA LedTo ==
  ASSUME RedirectsSettle, site \in Sites, NEW names, NEW infos, MapOK(names, infos),
         NEW n \in Names, NEW t \in RequestedTypes, NEW id,
         names[<<site.found[n], t>>] = Mod(id), names[<<n, t>>] # Absent
  PROVE  GetId(names, n, t) = {id}
<1>1. GetId(names, n, t) = IdOf(names, n, t)
  BY MapIsAliases, GetIdIsIdOf
<1>2. names[<<site.found[n], t>>].at = "mod" /\ names[<<site.found[n], t>>].id = id
  BY Shapes
<1> QED BY <1>1, <1>2 DEF IdOf

(* A fetch was answered with a module, from which the load walks on. *)
LEMMA RegisterWalks ==
  ASSUME RedirectsSettle, PlainSites, GraphIInv, GraphIInv', WalkIInv, MapGrows,
         NEW l \in Loads, walker = {}, NEW p \in fetches[l], Loading(l),
         p.request.phase = "evaluation", NEW id, id \in DOMAIN info', RegisterAndRecurse(l, p, id),
         by_name'[<<Found(p.request), p.request.type>>] = Mod(id),
         by_name'[<<p.request.name, p.request.type>>] # Absent,
         info'[id].type = "wasm" => <<info'[id].name, "none">> = Ref(p.request),
         \A i \in DOMAIN info' \ DOMAIN info : InfoKind(i)'
  PROVE  WalkIInv'
<1> DEFINE r == p.request
<1>1. /\ visited_as_alias' = AliasesAfter(l, p) /\ fetches' = [fetches EXCEPT ![l] = @ \ {p}]
      /\ root_module_id' = IF state[l] = "loading_root" THEN [root_module_id EXCEPT ![l] = {id}]
                           ELSE root_module_id
      /\ walker' = {l} /\ already_registered' = <<id>> /\ requests_left' = <<>>
      /\ visited' = [visited EXCEPT ![l] = @ \cup {Ref(r)}]
      /\ site' = site /\ root' = root /\ state' = state
  BY DEF RegisterAndRecurse, RecurseFrom
<1>2. r \in Requests /\ site \in Sites /\ LoadOK(l) /\ LoadWalkOK(l) /\ LoadType
  BY DEF GraphIInv, LoadType, FetchType, WalkIInv
<1>3. /\ r.name \in Names /\ r.type \in RequestedTypes /\ Ref(r) = <<r.name, r.type>>
      /\ Found(r) \in Names /\ Found(r) = site.found[r.name] /\ site.found[Found(r)] = Found(r)
  BY <1>2, RequestFacts, AnswerFacts, SiteFacts DEF Found, RedirectsSettle
<1>4. \A k \in Loads \ {l} : SameLoad(k)
  BY RegisterKeeps DEF MapGrows
<1>5. state[l] = "loading_imports" => \A q \in fetches[l] : Imported(site, q.request)
  BY <1>2 DEF LoadWalkOK, FetchesOK
<1>6. state[l] = "loading_root" => p = Pending(root[l], TRUE) /\ fetches[l] = {p}
                                   /\ root[l] \in site.entries
  BY <1>2 DEF LoadOK, LoadOKOf, Ended
<1>7. ~SourceRef(r.name, r.type)
  <2>1. Asked(site, r)
    BY <1>5, <1>6 DEF Asked, Loading, Pending
  <2> QED BY <1>2, <2>1, NotSource
<1>8. /\ visited'[l] = visited[l] \cup {Ref(r)} /\ fetches'[l] = fetches[l] \ {p}
      /\ visited_as_alias'[l] = IF Found(r) = r.name \/ state[l] = "loading_root"
                                THEN visited_as_alias[l] ELSE visited_as_alias[l] \cup {Found(r)}
  BY <1>1, <1>2, AliasesAfterType DEF LoadType
<1>9. WalkedGrows(l)
  BY <1>8, SeenIsWalked
<1>10. Walked(l, id)'
  <2>1. id \in ToSet(<<id>>)
    BY DEF ToSet
  <2> QED BY <1>1, <2>1 DEF Walked
<1>11. GetId(by_name', r.name, r.type) = {id} /\ GetId(by_name', Found(r), r.type) = {id}
  <2>1. MapOK(by_name', info')
    BY <1>1, NextMapOK DEF GraphIInv
  <2>2. GetId(by_name', r.name, r.type) = {id}
    BY <1>2, <1>3, <2>1, LedTo
  <2>3. by_name'[<<Found(r), r.type>>] # Absent
    BY Shapes
  <2>4. PICK n \in Names : n = Found(r)
    BY <1>3
  <2>5. /\ by_name'[<<site.found[n], r.type>>] = Mod(id) /\ by_name'[<<n, r.type>>] # Absent
    BY <1>3, <2>3, <2>4
  <2>6. GetId(by_name', n, r.type) = {id}
    BY <1>2, <1>3, <2>1, <2>5, LedTo
  <2> QED BY <2>2, <2>4, <2>6
<1>12. VisitedRefOK(l, Ref(r))'
  <2>1. ~SourceRef(r.name, r.type)'
    BY <1>1, <1>7, SourceRefStays
  <2>2. KnownAndWalked(l, r.name, r.type)'
    BY <1>10, <1>11 DEF KnownAndWalked
  <2>3. VisitedRefOK(l, <<r.name, r.type>>)'
    BY <2>1, <2>2 DEF VisitedRefOK
  <2> QED BY <1>3, <2>3 DEF Ref
<1>13. ASSUME NEW ref \in visited[l], ToBeFetched(l, ref[1], ref[2]) PROVE VisitedRefOK(l, ref)'
  <2>1. ref = Ref(p.request) => VisitedRefOK(l, ref)'
    BY <1>12
  <2> QED BY <1>8, <1>13, <2>1, FetchAnswered
<1>14. ASSUME NEW m \in visited_as_alias'[l] \ visited_as_alias[l] PROVE AliasOK(l, m)'
  <2>1. m = Found(r) /\ Found(r) # r.name /\ state[l] # "loading_root"
    BY <1>8, <1>14
  <2>2. Imported(site, r)
    BY <1>5, <2>1 DEF Loading
  <2>3. r.type = "none"
    BY <1>2, <1>3, <2>1, <2>2, RedirectedImport
  <2>4. GetId(by_name', m, "none") = {id}
    BY <1>11, <2>1, <2>3
  <2>5. KnownAndWalked(l, m, "none")'
    BY <1>10, <2>4 DEF KnownAndWalked
  <2>6. \E n \in Names : n # m /\ site'.found[n] = m
    BY <1>1, <1>3, <2>1
  <2> QED BY <2>5, <2>6 DEF AliasOK
<1>15. RootOK(l)'
  <2>1. state'[l] = state[l] /\ state[l] # "init"
    BY <1>1 DEF Loading
  <2>2. CASE state[l] = "loading_root"
    <3>1. root_module_id'[l] = {id}
      BY <1>1, <1>2, <2>2 DEF LoadType
    <3> QED BY <1>10, <2>1, <3>1 DEF RootOK
  <2>3. CASE state[l] = "loading_imports"
    <3>1. root_module_id'[l] = root_module_id[l] /\ root'[l] = root[l]
      BY <1>1, <2>3
    <3>2. \A i \in root_module_id[l] : Walked(l, i) => Walked(l, i)'
      BY <1>2, <1>9 DEF WalkedGrows, LoadType
    <3> QED BY <1>2, <2>1, <2>3, <3>1, <3>2 DEF RootOK, LoadWalkOK
  <2> QED BY <2>2, <2>3 DEF Loading
<1>16. FetchesOK(l)'
  <2>1. \A q \in fetches'[l] : Imported(site, q.request)
    BY <1>5, <1>6, <1>8 DEF Loading
  <2> QED BY <1>1, <2>1 DEF FetchesOK, Imported
<1>17. LoadWalkOK(l)'
  <2>1. \A ref \in visited'[l] \ visited[l] : VisitedRefOK(l, ref)'
    BY <1>8, <1>12
  <2> QED BY <1>2, <1>9, <1>13, <1>14, <1>15, <1>16, <2>1, LoadWalkCarried
<1>18. QueueOK'
  <2>1. ToSet(already_registered') = {id} /\ ToSet(requests_left') = {}
    BY <1>1 DEF ToSet
  <2>2. info'[id].type = "wasm" => <<info'[id].name, "none">> \in visited'[l]
    BY <1>8
  <2> QED BY <1>1, <2>1, <2>2 DEF QueueOK
<1> QED BY <1>4, <1>17, <1>18, WalkCombined

LEMMA ModuleFoundWalks ==
  ASSUME RedirectsSettle, PlainSites, GraphIInv, GraphIInv', WalkIInv, NEW l \in Loads, walker = {},
         NEW p \in fetches[l], ModuleFound(l, p)
  PROVE  WalkIInv'
<1> DEFINE r == p.request
<1>1. /\ Loading(l) /\ r.phase = "evaluation" /\ by_name' = WithAlias(r) /\ info' = info
  BY DEF ModuleFound
<1>2. PICK id \in ExistingId(by_name', r) : RegisterAndRecurse(l, p, id)
  BY DEF ModuleFound
<1>3. r \in Requests /\ site \in Sites /\ MapOK(by_name, info)
  BY DEF GraphIInv, LoadType, FetchType
<1>4. /\ MapOK(by_name', info) /\ Grows(by_name, by_name')
      /\ Found(r) # r.name => by_name'[<<r.name, r.type>>] = Alias(Found(r))
  BY <1>1, <1>3, AliasNoted
<1>5. site' = site /\ sources \subseteq sources'
  BY <1>2, SourcesGrow DEF RegisterAndRecurse
<1>6. MapGrows
  BY <1>1, <1>4, <1>5 DEF MapGrows
<1>7. /\ r.name \in Names /\ r.type \in RequestedTypes /\ Found(r) \in Names
      /\ RequestedFrom(LoadedType(r)) = r.type /\ Found(r) = site.found[r.name]
      /\ site.found[Found(r)] = Found(r) /\ Ref(r) = <<r.name, r.type>>
  BY <1>3, RequestFacts, AnswerFacts, SiteFacts DEF Found, RedirectsSettle
<1>8. PICK n \in Names, t \in RequestedTypes : n = Found(r) /\ t = r.type
  BY <1>7
<1>9. StandsFor(by_name', info, n, t, id)
  <2>1. id \in GetId(by_name', n, t)
    BY <1>2, <1>7, <1>8 DEF ExistingId
  <2> QED BY <1>3, <1>4, <2>1, KnownIdAt
<1>10. /\ id \in DOMAIN info /\ info[id].name = Found(r) /\ RequestedFrom(info[id].type) = r.type
       /\ by_name'[<<Found(r), r.type>>] = Mod(id)
  BY <1>7, <1>8, <1>9 DEF StandsFor
<1>11. by_name'[<<r.name, r.type>>] # Absent
  BY <1>4, <1>10, Shapes
<1>12. info[id].type = "wasm" => <<info[id].name, "none">> = Ref(r)
  BY <1>7, <1>10 DEF WalkIInv, InfoKind, RequestedFrom
<1>13. DOMAIN info' \ DOMAIN info = {}
  BY <1>1
<1> QED BY <1>1, <1>2, <1>6, <1>10, <1>11, <1>12, <1>13, RegisterWalks

LEMMA ModuleCreatedWalks ==
  ASSUME RedirectsSettle, PlainSites, GraphIInv, GraphIInv', WalkIInv, NEW l \in Loads, walker = {},
         NEW p \in fetches[l], ModuleCreated(l, p)
  PROVE  WalkIInv'
<1> DEFINE r == p.request
           id == Len(info) + 1
<1>1. /\ Loading(l) /\ r.phase = "evaluation" /\ RegisterAndRecurse(l, p, id)
  BY DEF ModuleCreated
<1>2. r \in Requests /\ site \in Sites /\ MapOK(by_name, info)
  BY DEF GraphIInv, LoadType, FetchType
<1>3. /\ Grows(by_name, by_name') /\ DOMAIN info' = DOMAIN info \cup {id}
      /\ \A i \in DOMAIN info : info'[i] = info[i]
      /\ \E main : info'[id] = NewInfo(r, main)
      /\ Grows(WithAlias(r), by_name') /\ by_name'[<<Found(r), r.type>>] = Mod(id)
  BY ModuleCreatedKeeps
<1>4. info'[id].name = Found(r) /\ info'[id].type = LoadedType(r)
  BY <1>3 DEF NewInfo
<1>5. site' = site /\ sources \subseteq sources' /\ sources' = WithSource(r)
  BY <1>1, SourcesGrow DEF RegisterAndRecurse
<1> HIDE DEF id
<1>6. MapGrows
  BY <1>3, <1>5 DEF MapGrows
<1>7. /\ r.name \in Names /\ r.type \in RequestedTypes /\ Found(r) \in Names
      /\ RequestedFrom(LoadedType(r)) = r.type /\ Found(r) = site.found[r.name]
      /\ site.found[Found(r)] = Found(r) /\ Ref(r) = <<r.name, r.type>>
      /\ LoadedType(r) = "wasm" => r.type = "none" /\ site.kind[Found(r)] = "wasm"
  BY <1>2, RequestFacts, AnswerFacts, SiteFacts DEF Found, RedirectsSettle
<1>8. by_name'[<<r.name, r.type>>] # Absent
  <2>1. CASE Found(r) = r.name
    BY <1>3, <2>1, Shapes
  <2>2. CASE Found(r) # r.name
    <3>1. WithAlias(r)[<<r.name, r.type>>] = Alias(Found(r))
      BY <1>2, <2>2, AliasNoted
    <3>2. by_name'[<<r.name, r.type>>] = Alias(Found(r))
      BY <1>3, <1>7, <3>1, Shapes DEF Grows
    <3> QED BY <3>2, Shapes
  <2> QED BY <2>1, <2>2
<1>9. LoadedType(r) = "wasm" => r.name = Found(r) /\ \A n \in Names : site.found[n] = Found(r) => n = Found(r)
  BY <1>2, <1>7, RedirectsToJs
<1>10. info'[id].type = "wasm" => <<info'[id].name, "none">> = Ref(r)
  BY <1>4, <1>7, <1>9
<1>11. ~SourceRef(Found(r), r.type)
  <2>1. CASE Found(r) # r.name
    BY <1>2, <1>7, <2>1, NoRedirectIsSource
  <2>2. CASE Found(r) = r.name
    <3>1. Asked(site, r)
      <4>1. LoadOK(l) /\ LoadWalkOK(l)
        BY DEF GraphIInv, WalkIInv
      <4>2. state[l] = "loading_imports" => Imported(site, r)
        BY <4>1 DEF LoadWalkOK, FetchesOK
      <4>3. state[l] = "loading_root" => p = Pending(root[l], TRUE) /\ root[l] \in site.entries
        BY <4>1 DEF LoadOK, LoadOKOf, Ended
      <4> QED BY <1>1, <4>2, <4>3 DEF Asked, Loading, Pending
    <3>2. ~SourceRef(r.name, r.type)
      BY <1>1, <1>2, <3>1, NotSource
    <3> QED BY <2>2, <3>2
  <2> QED BY <2>1, <2>2
<1>12. ASSUME NEW i \in DOMAIN info' \ DOMAIN info PROVE InfoKind(i)'
  <2>1. i = id
    BY <1>3
  <2>2. PICK n \in Names, t \in RequestedTypes : n = Found(r) /\ t = r.type
    BY <1>7
  <2>3. ~SourceRef(n, t)'
    BY <1>5, <1>11, <2>2, SourceRefStays
  <2>4. info'[i].name = n /\ RequestedFrom(info'[i].type) = t /\ info'[i].type = LoadedType(r)
    BY <1>4, <1>7, <2>1, <2>2
  <2>5. ~SourceRef(info[i].name, RequestedFrom(info[i].type))'
    BY <2>3, <2>4 DEF SourceRef, RequestedFrom
  <2>6. info'[i].type = "wasm" => <<"requested", info'[i].name, "none">> \in sources'
    BY <1>5, <1>7, <1>9, <2>2, <2>4, SourcesGrow
  <2>7. info'[i].type = "wasm" => \A k \in Names : site'.found[k] = info'[i].name => k = info'[i].name
    BY <1>5, <1>9, <2>2, <2>4
  <2> QED BY <2>5, <2>6, <2>7 DEF InfoKind
<1>13. id \in DOMAIN info'
  BY <1>3
<1> QED BY <1>1, <1>3, <1>6, <1>8, <1>10, <1>12, <1>13, RegisterWalks

(***************************************************************************)
(* A load that is done has the whole graph.                                *)
(***************************************************************************)
LEMMA WalkStart ==
  ASSUME GraphInit
  PROVE  WalkIInv
<1>1. DOMAIN info = {} /\ walker = {}
  BY DEF GraphInit
<1>2. ASSUME NEW l \in Loads PROVE LoadWalkOK(l)
  <2>1. visited[l] = {} /\ visited_as_alias[l] = {} /\ fetches[l] = {} /\ state[l] = "none"
    BY DEF GraphInit
  <2> QED BY <1>1, <2>1 DEF LoadWalkOK, RootOK, FetchesOK
<1> QED BY <1>1, <1>2 DEF WalkIInv, QueueOK

LEMMA WalkStutter ==
  ASSUME WalkIInv, UNCHANGED graphVars
  PROVE  WalkIInv'
<1>1. /\ UNCHANGED <<site, by_name, info, sources>>
      /\ UNCHANGED <<root, state, root_module_id, fetches, visited, visited_as_alias>>
      /\ UNCHANGED <<walker, already_registered, requests_left>>
  BY DEF graphVars, mapVars, rmlVars, walkVars
<1>2. \A n, t : SourceRef(n, t)' <=> SourceRef(n, t)
  BY <1>1 DEF SourceRef, Imported
<1>3. \A l, i : Walked(l, i)' <=> Walked(l, i)
  BY <1>1 DEF Walked, Considered, Seen, RequestsOf
<1>4. \A l, n, t : KnownAndWalked(l, n, t)' <=> KnownAndWalked(l, n, t)
  <2>1. ASSUME NEW l, NEW n, NEW t PROVE KnownAndWalked(l, n, t)' <=> KnownAndWalked(l, n, t)
    <3>1. GetId(by_name, n, t)' = GetId(by_name, n, t)
      BY <1>1
    <3> QED BY <1>3, <3>1 DEF KnownAndWalked
  <2> QED BY <2>1
<1>5. \A l, n, t : ToBeFetched(l, n, t)' <=> ToBeFetched(l, n, t)
  BY <1>1 DEF ToBeFetched
<1>6. ASSUME NEW l \in Loads PROVE LoadWalkOK(l)'
  <2>1. LoadWalkOK(l)
    BY DEF WalkIInv
  <2>2. \A ref \in visited'[l] : VisitedRefOK(l, ref)'
    BY <1>1, <1>2, <1>4, <1>5, <2>1 DEF LoadWalkOK, VisitedRefOK
  <2>3. \A m \in visited_as_alias'[l] : AliasOK(l, m)'
    BY <1>1, <1>4, <2>1 DEF LoadWalkOK, AliasOK
  <2>4. RootOK(l)'
    BY <1>1, <1>3, <2>1 DEF LoadWalkOK, RootOK
  <2>5. FetchesOK(l)'
    BY <1>1, <2>1 DEF LoadWalkOK, FetchesOK, Imported
  <2> QED BY <2>2, <2>3, <2>4, <2>5 DEF LoadWalkOK
<1>7. \A i \in DOMAIN info' : InfoKind(i)'
  BY <1>1 DEF WalkIInv, InfoKind, SourceRef, Imported
<1>8. QueueOK'
  BY <1>1 DEF WalkIInv, QueueOK, Imported
<1> QED BY <1>6, <1>7, <1>8 DEF WalkIInv

LEMMA GraphStepWalks ==
  ASSUME RedirectsSettle, PlainSites, GraphIInv, GraphIInv', WalkIInv, [GraphNext]_graphVars
  PROVE  WalkIInv'
<1>1. CASE UNCHANGED graphVars
  BY <1>1, WalkStutter
<1>2. ASSUME NEW l \in walker, WalkStep(l) PROVE WalkIInv'
  BY <1>2, PopModuleWalks, SkipRequestWalks, WalkKnownWalks, AddFetchWalks, WalkEndsWalks
     DEF WalkStep
<1>3. ASSUME walker = {}, NEW l \in Loads, LoadStep(l) PROVE WalkIInv'
  <2>1. CASE RootIsKnown(l) \/ FetchRoot(l) \/ LoadFutureEnds(l)
    BY <1>3, <2>1, RootIsKnownWalks, FetchRootWalks, LoadFutureEndsWalks
  <2>2. ASSUME NEW how, NEW r \in site.entries, NewLoad(l, how, r) PROVE WalkIInv'
    BY <1>3, <2>2, NewLoadWalks
  <2>3. ASSUME NEW p \in fetches[l],
               \/ FetchStarts(l, p) \/ FetchIsAlias(l, p) \/ FetchFails(l, p)
               \/ SourceUnsupported(l, p) \/ SourceFetched(l, p)
               \/ ModuleFound(l, p) \/ ModuleCreated(l, p) \/ ModuleRefused(l, p)
        PROVE  WalkIInv'
    <3>1. SourceUnsupported(l, p) => FetchFails(l, p)
      BY DEF SourceUnsupported
    <3> QED BY <1>3, <2>3, <3>1, FetchStartsWalks, FetchIsAliasWalks, FetchFailsWalks,
               SourceFetchedWalks, ModuleFoundWalks, ModuleCreatedWalks, ModuleRefusedWalks
  <2> QED BY <1>3, <2>1, <2>2, <2>3 DEF LoadStep
<1> QED BY <1>1, <1>2, <1>3 DEF GraphNext, GraphQuiet

(* A request is answered: of the source phase from the sources, else from  *)
(* the map, with a module that the load has walked.                        *)
LEMMA SeenIsAnswered ==
  ASSUME RedirectsSettle, PlainSites, GraphIInv, WalkIInv, NEW l \in Loads, state[l] = "done",
         NEW r \in Requests, Imported(site, r), Seen(l, r)
  PROVE  IF r.phase = "source" THEN <<"requested", r.name, r.type>> \in sources
         ELSE KnownAndWalked(l, r.name, r.type)
<1>1. LoadOK(l) /\ LoadWalkOK(l) /\ site \in Sites
  BY DEF GraphIInv, WalkIInv
<1>2. fetches[l] = {}
  BY <1>1 DEF LoadOK, LoadOKOf
<1>3. r.phase \in {"evaluation", "source"} /\ Ref(r) = <<r.name, r.type>>
  BY RequestFacts
<1>4. CASE Ref(r) \in visited[l]
  <2>1. VisitedRefOK(l, <<r.name, r.type>>)
    BY <1>1, <1>3, <1>4 DEF LoadWalkOK
  <2>2. ~ToBeFetched(l, r.name, r.type)
    BY <1>2 DEF ToBeFetched
  <2>3. IF SourceRef(r.name, r.type) THEN <<"requested", r.name, r.type>> \in sources
        ELSE KnownAndWalked(l, r.name, r.type)
    BY <2>1, <2>2 DEF VisitedRefOK
  <2>4. CASE r.phase = "source"
    <3>1. SourceRef(r.name, r.type)
      BY <1>3, <2>4 DEF SourceRef
    <3> QED BY <2>3, <2>4, <3>1
  <2>5. CASE r.phase = "evaluation"
    <3>1. ~SourceRef(r.name, r.type)
      BY <1>1, <2>5, NotSource DEF Asked
    <3> QED BY <2>3, <2>5, <3>1
  <2> QED BY <1>3, <2>4, <2>5
<1>5. CASE r.name \in visited_as_alias[l]
  <2>1. AliasOK(l, r.name)
    BY <1>1, <1>5 DEF LoadWalkOK
  <2>2. PICK n \in Names : n # r.name /\ site.found[n] = r.name
    BY <2>1 DEF AliasOK
  <2>3. r.type = "none" /\ r.phase = "evaluation"
    BY <1>1, <2>2, RedirectedImport
  <2> QED BY <2>1, <2>3 DEF AliasOK
<1> QED BY <1>4, <1>5 DEF Seen

(* The requests of a module are imports, but for the one a Wasm module     *)
(* makes of its own source, which is there.                                *)
LEMMA RequestsAreImports ==
  ASSUME GraphIInv, WalkIInv, NEW i \in DOMAIN info, NEW r \in RequestsOf(i)
  PROVE  /\ r \in Requests
         /\ \/ Imported(site, r)
            \/ r.phase = "source" /\ <<"requested", r.name, r.type>> \in sources
<1>1. /\ info[i].name \in Names /\ info[i].type \in Kinds /\ site \in Sites
      /\ info[i].requests \in Seq(Requests)
      /\ info[i].requests = RequestsIn(info[i].name, info[i].type)
  BY InfoFacts DEF GraphIInv, InfoOK
<1>2. r \in ToSet(info[i].requests) /\ r \in Requests
  BY <1>1 DEF RequestsOf, ToSet
<1>3. site.imports[info[i].name] \in Seq(Requests)
  BY <1>1, SiteFacts
<1>4. CASE info[i].type = "data"
  BY <1>1, <1>2, <1>4 DEF RequestsIn, ToSet
<1>5. CASE info[i].type = "js"
  BY <1>1, <1>2, <1>5 DEF RequestsIn, Imported
<1>6. CASE info[i].type = "wasm"
  <2> DEFINE own == [name |-> info[i].name, type |-> "none", phase |-> "source"]
             imports == site.imports[info[i].name]
  <2>1. info[i].requests = <<own>> \o imports
    BY <1>1, <1>6 DEF RequestsIn
  <2>2. own.phase = "source" /\ <<"requested", own.name, own.type>> \in sources
    BY <1>6 DEF WalkIInv, InfoKind
  <2> HIDE DEF own
  <2>3. PICK j \in DOMAIN (<<own>> \o imports) : r = (<<own>> \o imports)[j]
    BY <1>2, <2>1 DEF ToSet
  <2>4. j \in 1 .. 1 + Len(imports)
    BY <1>3, <2>3
  <2>5. CASE j = 1
    <3>1. r = own
      BY <1>3, <2>3, <2>5
    <3> QED BY <1>2, <2>2, <3>1
  <2>6. CASE j # 1
    <3>1. j - 1 \in DOMAIN imports /\ r = imports[j - 1]
      BY <1>3, <2>3, <2>4, <2>6
    <3>2. r \in ToSet(imports)
      BY <3>1 DEF ToSet
    <3> QED BY <1>1, <1>2, <3>2 DEF Imported
  <2> QED BY <2>5, <2>6
<1> QED BY <1>1, <1>4, <1>5, <1>6 DEF Kinds

LEMMA InvariantMeansWholeGraph ==
  ASSUME RedirectsSettle, PlainSites, GraphIInv, WalkIInv
  PROVE  DoneMeansWholeGraph
<1>1. SUFFICES ASSUME NEW l \in Loads, state[l] = "done", root[l].phase = "evaluation",
                      NEW id \in root_module_id[l]
               PROVE  Links(id)
  BY DEF DoneMeansWholeGraph
<1>2. LoadOK(l) /\ LoadWalkOK(l) /\ l \notin walker /\ id \in DOMAIN info
  BY <1>1 DEF GraphIInv, WalkIInv, LoadOK, LoadOKOf, LoadType
<1> DEFINE C == {i \in DOMAIN info : \A r \in RequestsOf(i) : Seen(l, r)}
<1>3. id \in C
  <2>1. Walked(l, id)
    BY <1>1, <1>2 DEF LoadWalkOK, RootOK
  <2> QED BY <1>2, <2>1, WalkedMeansSeen
<1>4. ASSUME NEW i \in C, NEW r \in RequestsOf(i) 
      PROVE  Resolves(r) /\ (r.phase = "evaluation" => KnownId(by_name, r) \subseteq C)
  <2>1. /\ r \in Requests /\ Seen(l, r)
        /\ \/ Imported(site, r)
           \/ r.phase = "source" /\ <<"requested", r.name, r.type>> \in sources
    BY <1>4, RequestsAreImports
  <2>2. /\ r.name \in Names /\ r.type \in RequestedTypes
        /\ r.phase \in {"evaluation", "source"}
    BY <2>1, RequestFacts
  <2>3. CASE r.phase = "source"
    <3>1. <<"requested", r.name, r.type>> \in sources
      BY <1>1, <2>1, <2>3, SeenIsAnswered
    <3> QED BY <2>3, <3>1 DEF Resolves
  <2>4. CASE r.phase = "evaluation"
    <3>1. KnownAndWalked(l, r.name, r.type)
      <4>1. Imported(site, r)
        BY <2>1, <2>4
      <4> QED BY <1>1, <2>1, <2>4, <4>1, SeenIsAnswered
    <3>2. ASSUME NEW j \in GetId(by_name, r.name, r.type) PROVE j \in C
      <4>1. Walked(l, j)
        BY <3>1 DEF KnownAndWalked
      <4>2. j \in DOMAIN info
        BY <2>2, KnownNow
      <4> QED BY <1>2, <4>1, <4>2, WalkedMeansSeen
    <3> QED BY <2>4, <3>1, <3>2 DEF Resolves, KnownId, KnownAndWalked
  <2> QED BY <2>2, <2>3, <2>4
<1>5. Graph(id) \subseteq C
  <2>1. C \in SUBSET DOMAIN info
    OBVIOUS
  <2> HIDE DEF C
  <2>2. \A j \in C : \A r \in RequestsOf(j) : r.phase = "evaluation" => KnownId(by_name, r) \subseteq C
    BY <1>4
  <2> QED BY <1>3, <2>1, <2>2 DEF Graph
<1> QED BY <1>4, <1>5 DEF Links

(* register_and_recurse_inner: whatever loads overlap, and whatever they   *)
(* register meanwhile, V8 gets an answer for every import of a graph whose *)
(* load is Done.  The hypotheses on the loader are what the code relies    *)
(* on: where one redirect is also imported with a type or for its source   *)
(* it does not hold.                                                       *)
THEOREM DoneLoadsHaveTheirGraph ==
  ASSUME RedirectsSettle, PlainSites
  PROVE  GraphSpec => []DoneMeansWholeGraph
<1>1. GraphInit => GraphIInv /\ WalkIInv
  BY GraphStart, WalkStart
<1>2. GraphIInv /\ WalkIInv /\ [GraphNext]_graphVars => GraphIInv' /\ WalkIInv'
  BY GraphStepKeeps, GraphStepWalks
<1>3. GraphIInv /\ WalkIInv => DoneMeansWholeGraph
  BY InvariantMeansWholeGraph
<1> QED BY <1>1, <1>2, <1>3, PTL DEF GraphSpec

(***************************************************************************)
(* Startup.  The table of a runtime that starts from a snapshot begins     *)
(* with the entries of the table the snapshot was taken with that its heap *)
(* can refer to.                                                           *)
(***************************************************************************)

NameFields == {"ops", "refs", "js", "esm", "lazy"}
FieldOf(exts, field) == [i \in DOMAIN exts |-> SuDecl[exts[i]][field]]

LEMMA FieldTypes ==
  ASSUME NEW exts \in Seq(DOMAIN SuDecl)
  PROVE  /\ FieldOf(exts, "objects") \in Seq(Seq(SuClasses))
         /\ \A field \in NameFields : FieldOf(exts, field) \in Seq(Seq(SuNames))
<1>1. exts \in [1 .. Len(exts) -> DOMAIN SuDecl] /\ Len(exts) \in Nat
  OBVIOUS
<1>2. FieldOf(exts, "objects") \in [1 .. Len(exts) -> Seq(SuClasses)]
  BY <1>1, StartupAssumption DEF FieldOf
<1>3. ASSUME NEW field \in NameFields PROVE FieldOf(exts, field) \in [1 .. Len(exts) -> Seq(SuNames)]
  BY <1>1, StartupAssumption DEF FieldOf, NameFields
<1> QED BY <1>1, <1>2, <1>3

LEMMA CollectTypes ==
  ASSUME NEW exts \in Seq(DOMAIN SuDecl)
  PROVE  /\ Collect(exts, "objects") \in Seq(SuClasses)
         /\ \A field \in NameFields : Collect(exts, field) \in Seq(SuNames)
<1>1. \A field : Collect(exts, field) = FlattenSeq(FieldOf(exts, field))
  BY DEF Collect, FieldOf
<1> QED BY <1>1, FieldTypes, FlattenType

(* A sequence is its beginning followed by its rest. *)
LEMMA SplitSeq ==
  ASSUME NEW S, NEW a \in Seq(S), NEW b \in Seq(S), NEW c \in Seq(S), Len(c) = Len(a) + Len(b),
         \A i \in 1 .. Len(a) : a[i] = c[i], \A i \in 1 .. Len(b) : b[i] = c[Len(a) + i]
  PROVE  c = a \o b
<1>1. PICK n \in Nat, l \in Nat : n <= l /\ Len(a) = n /\ Len(b) = l - n /\ Len(c) = l
  OBVIOUS
<1>2. PICK d : d = a \o b
  OBVIOUS
<1>3. d \in Seq(S) /\ Len(d) = l
  BY <1>1, <1>2
<1>4. \A i \in 1 .. n : d[i] = a[i]
  BY <1>1, <1>2
<1>5. ASSUME NEW i \in n + 1 .. l PROVE d[i] = c[i]
  <2>1. i - n \in 1 .. l - n /\ i = n + (i - n)
    OBVIOUS
  <2>2. d[i] = b[i - n]
    BY <1>1, <1>2
  <2> QED BY <1>1, <2>1, <2>2
<1>6. \A i \in 1 .. l : d[i] = c[i]
  <2> TAKE i \in 1 .. l
  <2>1. i \in 1 .. n \/ i \in n + 1 .. l
    OBVIOUS
  <2> QED BY <1>1, <1>4, <1>5, <2>1
<1>7. d \in [1 .. l -> S] /\ c \in [1 .. l -> S]
  BY <1>1, <1>3
<1>8. d = c
  BY <1>6, <1>7
<1> QED BY <1>2, <1>8

(* What the first extensions declare comes before what the others do. *)
LEMMA CollectPrefix ==
  ASSUME NEW exts \in Seq(DOMAIN SuDecl), NEW n \in 0 .. Len(exts)
  PROVE  LET a == SubSeq(exts, 1, n) b == SubSeq(exts, n + 1, Len(exts)) IN
         /\ a \in Seq(DOMAIN SuDecl) /\ b \in Seq(DOMAIN SuDecl)
         /\ Collect(exts, "objects") = Collect(a, "objects") \o Collect(b, "objects")
         /\ \A field \in NameFields : Collect(exts, field) = Collect(a, field) \o Collect(b, field)
<1>0. PICK a, b : a = SubSeq(exts, 1, n) /\ b = SubSeq(exts, n + 1, Len(exts))
  OBVIOUS
<1>1. /\ a \in Seq(DOMAIN SuDecl) /\ b \in Seq(DOMAIN SuDecl) /\ Len(a) = n /\ Len(b) = Len(exts) - n
      /\ \A i \in 1 .. n : a[i] = exts[i]
      /\ \A i \in 1 .. Len(exts) - n : b[i] = exts[n + i]
  BY <1>0
<1>2. \A field : Collect(exts, field) = FlattenSeq(FieldOf(exts, field))
                 /\ Collect(a, field) = FlattenSeq(FieldOf(a, field))
                 /\ Collect(b, field) = FlattenSeq(FieldOf(b, field))
  BY DEF Collect, FieldOf
<1>3. ASSUME NEW field
      PROVE  LET fa == FieldOf(a, field) fb == FieldOf(b, field) fe == FieldOf(exts, field)
             IN /\ DOMAIN fa = 1 .. n /\ DOMAIN fb = 1 .. Len(exts) - n /\ DOMAIN fe = 1 .. Len(exts)
                /\ \A i \in 1 .. n : fa[i] = fe[i]
                /\ \A i \in 1 .. Len(exts) - n : fb[i] = fe[n + i]
  BY <1>1 DEF FieldOf
<1>4. ASSUME NEW S, NEW field, FieldOf(a, field) \in Seq(Seq(S)), FieldOf(b, field) \in Seq(Seq(S)),
             FieldOf(exts, field) \in Seq(Seq(S))
      PROVE  Collect(exts, field) = Collect(a, field) \o Collect(b, field)
  <2>1. PICK fa, fb, fe : fa = FieldOf(a, field) /\ fb = FieldOf(b, field) /\ fe = FieldOf(exts, field)
    OBVIOUS
  <2>2. /\ DOMAIN fa = 1 .. n /\ DOMAIN fb = 1 .. Len(exts) - n /\ DOMAIN fe = 1 .. Len(exts)
        /\ \A i \in 1 .. n : fa[i] = fe[i]
        /\ \A i \in 1 .. Len(exts) - n : fb[i] = fe[n + i]
    BY <1>3, <2>1
  <2>3. fa \in Seq(Seq(S)) /\ fb \in Seq(Seq(S)) /\ fe \in Seq(Seq(S))
    BY <1>4, <2>1
  <2>4. fe = fa \o fb
    <3>1. Len(fa) = n /\ Len(fb) = Len(exts) - n /\ Len(fe) = Len(exts)
      BY <2>2, <2>3
    <3>2. Len(fe) = Len(fa) + Len(fb)
      BY <3>1
    <3>3. (\A i \in 1 .. Len(fa) : fa[i] = fe[i]) /\ \A i \in 1 .. Len(fb) : fb[i] = fe[Len(fa) + i]
      BY <2>2, <3>1
    <3> QED BY <2>3, <3>2, <3>3, SplitSeq
  <2>5. FlattenSeq(fa \o fb) = FlattenSeq(fa) \o FlattenSeq(fb)
    BY <2>3, FlattenConcat
  <2>6. FlattenSeq(fe) = FlattenSeq(fa) \o FlattenSeq(fb)
    BY <2>4, <2>5
  <2> QED BY <1>2, <2>1, <2>6
<1>5. Collect(exts, "objects") = Collect(a, "objects") \o Collect(b, "objects")
  BY <1>1, <1>4, FieldTypes
<1>6. ASSUME NEW field \in NameFields PROVE Collect(exts, field) = Collect(a, field) \o Collect(b, field)
  BY <1>1, <1>4, FieldTypes
<1> QED BY <1>0, <1>1, <1>5, <1>6

(* The contexts of the classes' constructors and methods. *)
ClassCtxs(objects) == FlattenSeq([i \in DOMAIN objects |-> ObjectCtxs(objects[i])])

LEMMA CtxTypes ==
  ASSUME NEW exts \in Seq(DOMAIN SuDecl)
  PROVE  /\ create_op_ctxs(exts) = ClassCtxs(Collect(exts, "objects")) \o SuCoreOps \o Collect(exts, "ops")
         /\ ClassCtxs(Collect(exts, "objects")) \in Seq(SuNames)
         /\ SuCoreOps \in Seq(SuNames) /\ Collect(exts, "ops") \in Seq(SuNames)
         /\ create_op_ctxs(exts) \in Seq(SuNames)
<1> DEFINE objects == Collect(exts, "objects")
           ctxs == [i \in DOMAIN objects |-> ObjectCtxs(objects[i])]
<1>1. objects \in Seq(SuClasses) /\ Collect(exts, "ops") \in Seq(SuNames)
  BY CollectTypes DEF NameFields
<1>2. \A o \in SuClasses : ObjectCtxs(o) \in Seq(SuNames)
  <2> SUFFICES ASSUME NEW o \in SuClasses PROVE ObjectCtxs(o) \in Seq(SuNames)
    OBVIOUS
  <2>1. o.type \in SuNames /\ o.methods \in Seq(SuNames)
    BY DEF SuClasses
  <2>2. <<o.type>> \in Seq(SuNames) /\ <<>> \in Seq(SuNames)
    BY <2>1
  <2>3. (IF o.constructor THEN <<o.type>> ELSE <<>>) \in Seq(SuNames)
    BY <2>2
  <2> QED BY <2>1, <2>3 DEF ObjectCtxs
<1> HIDE DEF objects
<1>3. ctxs \in Seq(Seq(SuNames))
  <2>1. Len(objects) \in Nat /\ DOMAIN objects = 1 .. Len(objects) /\ \A i \in DOMAIN objects : objects[i] \in SuClasses
    BY <1>1
  <2> QED BY <1>2, <2>1
<1>4. ClassCtxs(objects) \in Seq(SuNames)
  BY <1>3, FlattenType DEF ClassCtxs
<1>5. create_op_ctxs(exts) = ClassCtxs(objects) \o SuCoreOps \o Collect(exts, "ops")
  BY DEF create_op_ctxs, ClassCtxs, objects
<1>6. SuCoreOps \in Seq(SuNames)
  BY StartupAssumption
<1>7. create_op_ctxs(exts) \in Seq(SuNames)
  BY <1>1, <1>4, <1>5, <1>6
<1> QED BY <1>1, <1>4, <1>5, <1>6, <1>7 DEF objects

-----------------------------------------------------------------------------
(* The tables of external references.                                      *)

OpsAndSources == {SuOp(n) : n \in SuNames} \cup {SuSource(n) : n \in SuNames}
Entities == OpsAndSources \cup {SuFn(n) : n \in SuNames} \cup {SuFn("bindings"), SuFn("callsite_fns")}
AsFns(names) == As(SuFn, names)
AsOps(names) == As(SuOp, names)
AsSources(names) == As(SuSource, names)

(* The part of a table that the heap of a snapshot refers to. *)
Stored(exts, strings) ==
  <<SuFn("bindings")>> \o AsFns(Collect(exts, "refs")) \o AsOps(create_op_ctxs(exts)) \o AsSources(strings)

LEMMA AsTypes ==
  ASSUME NEW s \in Seq(SuNames)
  PROVE  /\ AsFns(s) \in Seq(Entities) /\ AsOps(s) \in Seq(Entities) /\ AsSources(s) \in Seq(Entities)
         /\ Len(AsOps(s)) = Len(s) /\ Len(AsSources(s)) = Len(s)
         /\ \A i \in 1 .. Len(s) : AsOps(s)[i] = SuOp(s[i]) /\ AsSources(s)[i] = SuSource(s[i])
         /\ \A n \in ToSet(s) : SuOp(n) \in ToSet(AsOps(s)) /\ SuSource(n) \in ToSet(AsSources(s))
<1>1. Len(s) \in Nat /\ DOMAIN s = 1 .. Len(s) /\ \A i \in 1 .. Len(s) : s[i] \in SuNames
  OBVIOUS
<1>2. \A n \in SuNames : SuFn(n) \in Entities /\ SuOp(n) \in Entities /\ SuSource(n) \in Entities
  BY DEF Entities, OpsAndSources
<1>3. /\ AsFns(s) = [i \in 1 .. Len(s) |-> SuFn(s[i])]
      /\ AsOps(s) = [i \in 1 .. Len(s) |-> SuOp(s[i])]
      /\ AsSources(s) = [i \in 1 .. Len(s) |-> SuSource(s[i])]
  BY <1>1 DEF AsFns, AsOps, AsSources, As
<1>4. AsFns(s) \in Seq(Entities) /\ AsOps(s) \in Seq(Entities) /\ AsSources(s) \in Seq(Entities)
  BY <1>1, <1>2, <1>3
<1>5. Len(AsOps(s)) = Len(s) /\ Len(AsSources(s)) = Len(s)
  BY <1>1, <1>3
<1>6. \A i \in 1 .. Len(s) : AsOps(s)[i] = SuOp(s[i]) /\ AsSources(s)[i] = SuSource(s[i])
  BY <1>3
<1>7. \A n \in ToSet(s) : SuOp(n) \in ToSet(AsOps(s)) /\ SuSource(n) \in ToSet(AsSources(s))
  BY <1>1, <1>3 DEF ToSet
<1> QED BY <1>4, <1>5, <1>6, <1>7

(* Converting the names of two sequences one after the other. *)
LEMMA AsConcat ==
  ASSUME NEW s \in Seq(SuNames), NEW t \in Seq(SuNames)
  PROVE  AsOps(s \o t) = AsOps(s) \o AsOps(t)
<1>1. PICK u : u = s \o t
  OBVIOUS
<1>2. /\ u \in Seq(SuNames) /\ Len(u) = Len(s) + Len(t)
      /\ \A i \in 1 .. Len(s) : u[i] = s[i]
      /\ \A i \in 1 .. Len(t) : u[Len(s) + i] = t[i]
  BY <1>1
<1>3. PICK a, b, c : a = AsOps(s) /\ b = AsOps(t) /\ c = AsOps(u)
  OBVIOUS
<1>4. a \in Seq(Entities) /\ b \in Seq(Entities) /\ c \in Seq(Entities) /\ Len(c) = Len(a) + Len(b)
  BY <1>2, <1>3, AsTypes
<1>5. \A i \in 1 .. Len(a) : a[i] = c[i]
  <2> TAKE i \in 1 .. Len(a)
  <2>1. Len(a) = Len(s) /\ i \in 1 .. Len(s)
    BY <1>3, AsTypes
  <2>2. i \in 1 .. Len(u)
    BY <1>2, <2>1
  <2>3. a[i] = SuOp(s[i]) /\ c[i] = SuOp(u[i])
    BY <1>2, <1>3, <2>1, <2>2, AsTypes
  <2> QED BY <1>2, <2>1, <2>3
<1>6. \A i \in 1 .. Len(b) : b[i] = c[Len(a) + i]
  <2> TAKE i \in 1 .. Len(b)
  <2>1. Len(a) = Len(s) /\ Len(b) = Len(t) /\ Len(s) \in Nat /\ Len(t) \in Nat
    BY <1>2, <1>3, AsTypes
  <2>2. i \in 1 .. Len(t) /\ Len(s) + i \in 1 .. Len(u)
    BY <1>2, <2>1
  <2>3. b[i] = SuOp(t[i]) /\ c[Len(s) + i] = SuOp(u[Len(s) + i])
    BY <1>2, <1>3, <2>2, AsTypes
  <2> QED BY <1>2, <2>1, <2>2, <2>3
<1>7. c = a \o b
  BY <1>4, <1>5, <1>6, SplitSeq
<1> QED BY <1>1, <1>3, <1>7

(* An entity of the table has a last place in it. *)
LEMMA IndexOfPlace ==
  ASSUME NEW S, NEW table \in Seq(S), NEW e \in ToSet(table)
  PROVE  IndexOf(table, e) \in DOMAIN table /\ table[IndexOf(table, e)] = e
<1>1. PICK l \in Nat : l = Len(table) /\ DOMAIN table = 1 .. l
  OBVIOUS
<1> DEFINE T == {x \in 0 .. l : l - x \in DOMAIN table /\ table[l - x] = e}
<1>2. PICK j \in 1 .. l : table[j] = e
  BY <1>1 DEF ToSet
<1>3. l - j \in T
  <2>1. l - j \in 0 .. l /\ l - (l - j) = j
    OBVIOUS
  <2> QED BY <1>1, <1>2, <2>1
<1> HIDE DEF T
<1>4. T \subseteq Nat /\ T # {}
  <2>1. T # {}
    BY <1>3
  <2>2. T \subseteq Nat
    BY DEF T
  <2> QED BY <2>1, <2>2
<1>5. PICK x \in T : \A y \in T : x <= y
  BY <1>4, LeastNumber
<1>6. PICK i \in DOMAIN table : i = l - x /\ table[i] = e
  BY <1>1, <1>5 DEF T
<1>7. ASSUME NEW k \in i + 1 .. Len(table), table[k] = e PROVE FALSE
  <2>1. l - k \in 0 .. l /\ l - (l - k) = k /\ k \in DOMAIN table /\ l - k < x /\ x \in Nat
    BY <1>1, <1>4, <1>6, <1>7
  <2>2. l - k \in T
    BY <1>7, <2>1 DEF T
  <2> QED BY <1>5, <2>1, <2>2
<1>8. table[i] = e /\ \A k \in i + 1 .. Len(table) : table[k] # e
  BY <1>6, <1>7
<1> QED BY <1>8 DEF IndexOf

LEMMA PartsOfConcat ==
  ASSUME NEW S, NEW a \in Seq(S), NEW b \in Seq(S), NEW s, s = a \o b
  PROVE  /\ SubSeq(s, 1, Len(a)) = a /\ SubSeq(s, Len(a) + 1, Len(s)) = b
         /\ s \in Seq(S) /\ Len(a) \in 0 .. Len(s)
<1>1. s \in Seq(S) /\ Len(s) = Len(a) + Len(b) /\ Len(a) \in Nat /\ Len(b) \in Nat
  OBVIOUS
<1>2. (\A i \in 1 .. Len(a) : s[i] = a[i]) /\ \A i \in 1 .. Len(b) : s[Len(a) + i] = b[i]
  OBVIOUS
<1>3. PICK x, y : x = SubSeq(s, 1, Len(a)) /\ y = SubSeq(s, Len(a) + 1, Len(s))
  OBVIOUS
<1>4. /\ x \in Seq(S) /\ y \in Seq(S) /\ Len(x) = Len(a) /\ Len(y) = Len(b)
      /\ \A i \in 1 .. Len(a) : x[i] = s[i]
      /\ \A i \in 1 .. Len(b) : y[i] = s[Len(a) + i]
  BY <1>1, <1>3
<1>5. x = a
  BY <1>2, <1>4, SeqEqual
<1>6. y = b
  BY <1>2, <1>4, SeqEqual
<1> QED BY <1>1, <1>3, <1>5, <1>6

(* A table: the functions, the ops and sources of the snapshot, the others.*)
Table(refs, c1, x1, c2, x2) ==
  <<SuFn("bindings")>> \o AsFns(refs) \o AsOps(c1) \o AsSources(x1) \o AsOps(c2) \o AsSources(x2)
    \o <<SuFn("callsite_fns")>>

LEMMA TableMade ==
  ASSUME NEW refs, NEW c1 \in Seq(SuNames), NEW c2 \in Seq(SuNames), NEW x1 \in Seq(SuNames),
         NEW x2 \in Seq(SuNames)
  PROVE  create_external_references(c1 \o c2, refs, x1 \o x2, Len(c1), Len(x1)) = Table(refs, c1, x1, c2, x2)
<1>0. PICK ctxs, names, k, l : ctxs = c1 \o c2 /\ names = x1 \o x2 /\ k = Len(c1) /\ l = Len(x1)
  OBVIOUS
<1>1. SubSeq(ctxs, 1, k) = c1 /\ SubSeq(ctxs, k + 1, Len(ctxs)) = c2
  BY <1>0, PartsOfConcat
<1>2. SubSeq(names, 1, l) = x1 /\ SubSeq(names, l + 1, Len(names)) = x2
  BY <1>0, PartsOfConcat
<1>3. create_external_references(ctxs, refs, names, k, l)
        = <<SuFn("bindings")>> \o AsFns(refs) \o AsOps(SubSeq(ctxs, 1, k)) \o AsSources(SubSeq(names, 1, l))
            \o AsOps(SubSeq(ctxs, k + 1, Len(ctxs))) \o AsSources(SubSeq(names, l + 1, Len(names)))
            \o <<SuFn("callsite_fns")>>
  BY DEF create_external_references, AsFns, AsOps, AsSources
<1> QED BY <1>0, <1>1, <1>2, <1>3 DEF Table

LEMMA ToSetOfParts ==
  ASSUME NEW S, NEW a \in Seq(S), NEW b \in Seq(S), NEW c \in Seq(S), NEW d \in Seq(S),
         NEW e \in Seq(S), NEW f \in Seq(S), NEW g \in Seq(S)
  PROVE  LET t == a \o b \o c \o d \o e \o f \o g IN
         t \in Seq(S) /\ ToSet(c) \cup ToSet(d) \cup ToSet(e) \cup ToSet(f) \subseteq ToSet(t)
<1>1. PICK t2 : t2 = a \o b /\ t2 \in Seq(S)
  BY ConcatProperties
<1>2. PICK t3 : t3 = t2 \o c /\ t3 \in Seq(S)
  BY <1>1, ConcatProperties
<1>3. PICK t4 : t4 = t3 \o d /\ t4 \in Seq(S)
  BY <1>2, ConcatProperties
<1>4. PICK t5 : t5 = t4 \o e /\ t5 \in Seq(S)
  BY <1>3, ConcatProperties
<1>5. PICK t6 : t6 = t5 \o f /\ t6 \in Seq(S)
  BY <1>4, ConcatProperties
<1> DEFINE t == a \o b \o c \o d \o e \o f \o g
<1> HIDE DEF t
<1>6. t = t6 \o g
  BY <1>1, <1>2, <1>3, <1>4, <1>5 DEF t
<1>7. ToSet(c) \subseteq ToSet(t3)
  BY <1>2, ToSetConcat
<1>8. ToSet(t3) \cup ToSet(d) \subseteq ToSet(t4)
  BY <1>3, ToSetConcat
<1>9. ToSet(t4) \cup ToSet(e) \subseteq ToSet(t5)
  BY <1>4, ToSetConcat
<1>10. ToSet(t5) \cup ToSet(f) \subseteq ToSet(t6)
  BY <1>5, ToSetConcat
<1>11. ToSet(t6) \subseteq ToSet(t) /\ t \in Seq(S)
  <2>1. ToSet(t6 \o g) = ToSet(t6) \cup ToSet(g) /\ t6 \o g \in Seq(S)
    BY <1>5, ToSetConcat, ConcatProperties
  <2> QED BY <1>6, <2>1
<1>12. t \in Seq(S) /\ ToSet(c) \cup ToSet(d) \cup ToSet(e) \cup ToSet(f) \subseteq ToSet(t)
  BY <1>7, <1>8, <1>9, <1>10, <1>11
<1> QED BY <1>12 DEF t

LEMMA EndTypes == <<SuFn("bindings")>> \in Seq(Entities) /\ <<SuFn("callsite_fns")>> \in Seq(Entities)
<1>1. SuFn("bindings") \in Entities /\ SuFn("callsite_fns") \in Entities
  BY DEF Entities
<1> QED BY <1>1

(* A table has every op and every source it is made for. *)
LEMMA TableHolds ==
  ASSUME NEW refs \in Seq(SuNames), NEW c1 \in Seq(SuNames), NEW c2 \in Seq(SuNames),
         NEW x1 \in Seq(SuNames), NEW x2 \in Seq(SuNames)
  PROVE  LET t == Table(refs, c1, x1, c2, x2) IN
         /\ t \in Seq(Entities)
         /\ \A n \in ToSet(c1 \o c2) : SuOp(n) \in ToSet(t)
         /\ \A n \in ToSet(x1 \o x2) : SuSource(n) \in ToSet(t)
<1>0. PICK t : t = Table(refs, c1, x1, c2, x2)
  OBVIOUS
<1>1. PICK b, r, o1, s1, o2, s2, c :
        /\ b = <<SuFn("bindings")>> /\ r = AsFns(refs) /\ c = <<SuFn("callsite_fns")>>
        /\ o1 = AsOps(c1) /\ o2 = AsOps(c2) /\ s1 = AsSources(x1) /\ s2 = AsSources(x2)
  OBVIOUS
<1>2. /\ b \in Seq(Entities) /\ r \in Seq(Entities) /\ o1 \in Seq(Entities) /\ s1 \in Seq(Entities)
      /\ o2 \in Seq(Entities) /\ s2 \in Seq(Entities) /\ c \in Seq(Entities)
  BY <1>1, AsTypes, EndTypes
<1>3. t = b \o r \o o1 \o s1 \o o2 \o s2 \o c
  BY <1>0, <1>1 DEF Table
<1>4. t \in Seq(Entities) /\ ToSet(o1) \cup ToSet(s1) \cup ToSet(o2) \cup ToSet(s2) \subseteq ToSet(t)
  <2>1. LET u == b \o r \o o1 \o s1 \o o2 \o s2 \o c IN
        u \in Seq(Entities) /\ ToSet(o1) \cup ToSet(s1) \cup ToSet(o2) \cup ToSet(s2) \subseteq ToSet(u)
    BY <1>2, ToSetOfParts, Zenon
  <2> QED BY <1>3, <2>1, Zenon
<1>5. ToSet(c1 \o c2) = ToSet(c1) \cup ToSet(c2) /\ ToSet(x1 \o x2) = ToSet(x1) \cup ToSet(x2)
  BY ToSetConcat
<1>6. \A n \in ToSet(c1) : SuOp(n) \in ToSet(AsOps(c1))
  BY AsTypes
<1>7. \A n \in ToSet(c2) : SuOp(n) \in ToSet(AsOps(c2))
  BY AsTypes
<1>8. \A n \in ToSet(x1) : SuSource(n) \in ToSet(AsSources(x1))
  BY AsTypes
<1>9. \A n \in ToSet(x2) : SuSource(n) \in ToSet(AsSources(x2))
  BY AsTypes
<1>10. \A n \in ToSet(c1 \o c2) : SuOp(n) \in ToSet(t)
  BY <1>1, <1>4, <1>5, <1>6, <1>7
<1>11. \A n \in ToSet(x1 \o x2) : SuSource(n) \in ToSet(t)
  BY <1>1, <1>4, <1>5, <1>8, <1>9
<1> QED BY <1>0, <1>4, <1>10, <1>11

(* It begins with what is stored. *)
LEMMA TableBegins ==
  ASSUME NEW exts \in Seq(DOMAIN SuDecl), NEW c2 \in Seq(SuNames), NEW x1 \in Seq(SuNames),
         NEW x2 \in Seq(SuNames)
  PROVE  LET t == Table(Collect(exts, "refs"), create_op_ctxs(exts), x1, c2, x2)
             p == Stored(exts, x1)
         IN p \in Seq(Entities) /\ Len(p) <= Len(t) /\ \A i \in 1 .. Len(p) : t[i] = p[i]
<1>0. PICK refs, c1, t : refs = Collect(exts, "refs") /\ c1 = create_op_ctxs(exts) /\ t = Table(refs, c1, x1, c2, x2)
  OBVIOUS
<1>01. refs \in Seq(SuNames) /\ c1 \in Seq(SuNames)
  BY <1>0, CollectTypes, CtxTypes DEF NameFields
<1>1. PICK b, r, o1, s1, o2, s2, c :
        /\ b = <<SuFn("bindings")>> /\ r = AsFns(refs) /\ c = <<SuFn("callsite_fns")>>
        /\ o1 = AsOps(c1) /\ o2 = AsOps(c2) /\ s1 = AsSources(x1) /\ s2 = AsSources(x2)
  OBVIOUS
<1>2. /\ b \in Seq(Entities) /\ r \in Seq(Entities) /\ o1 \in Seq(Entities) /\ s1 \in Seq(Entities)
      /\ o2 \in Seq(Entities) /\ s2 \in Seq(Entities) /\ c \in Seq(Entities)
  BY <1>01, <1>1, AsTypes, EndTypes
<1>3. PICK p : p = b \o r \o o1 \o s1
  OBVIOUS
<1>4. p = Stored(exts, x1)
  BY <1>0, <1>1, <1>3 DEF Stored
<1>5. t = p \o o2 \o s2 \o c
  BY <1>0, <1>1, <1>3 DEF Table
<1>6. p \in Seq(Entities)
  BY <1>2, <1>3
<1>7. Len(p) <= Len(t) /\ \A i \in 1 .. Len(p) : t[i] = p[i]
  <2>1. PICK q : q = p \o o2 /\ q \in Seq(Entities)
    BY <1>2, <1>6, ConcatProperties
  <2>2. PICK u : u = q \o s2 /\ u \in Seq(Entities)
    BY <1>2, <2>1, ConcatProperties
  <2>3. t = u \o c
    BY <1>5, <2>1, <2>2
  <2>4. Len(p) \in Nat /\ Len(o2) \in Nat /\ Len(s2) \in Nat /\ Len(c) \in Nat
    BY <1>2, <1>6
  <2>5. Len(q) = Len(p) + Len(o2) /\ \A i \in 1 .. Len(p) : q[i] = p[i]
    BY <1>2, <1>6, <2>1
  <2>6. Len(u) = Len(q) + Len(s2) /\ \A i \in 1 .. Len(q) : u[i] = q[i]
    BY <1>2, <2>1, <2>2
  <2>7. Len(t) = Len(u) + Len(c) /\ \A i \in 1 .. Len(u) : t[i] = u[i]
    BY <1>2, <2>2, <2>3
  <2>8. Len(p) <= Len(q) /\ Len(q) <= Len(u) /\ Len(u) <= Len(t)
    BY <2>4, <2>5, <2>6, <2>7
  <2>9. Len(q) \in Nat /\ Len(u) \in Nat /\ Len(t) \in Nat
    BY <2>4, <2>5, <2>6, <2>7
  <2>10. ASSUME NEW i \in 1 .. Len(p) PROVE i \in 1 .. Len(q) /\ i \in 1 .. Len(u)
    BY <2>4, <2>8, <2>9
  <2>11. \A i \in 1 .. Len(p) : t[i] = p[i]
    BY <2>5, <2>6, <2>7, <2>10
  <2> QED BY <2>4, <2>8, <2>9, <2>11
<1> QED BY <1>0, <1>4, <1>6, <1>7

(* With no sources in the snapshot it is what the next one stores, and the *)
(* last function.                                                          *)
LEMMA TableStored ==
  ASSUME NEW exts \in Seq(DOMAIN SuDecl), NEW c1 \in Seq(SuNames), NEW c2 \in Seq(SuNames),
         NEW x2 \in Seq(SuNames), c1 \o c2 = create_op_ctxs(exts)
  PROVE  Table(Collect(exts, "refs"), c1, <<>>, c2, x2) = Stored(exts, x2) \o <<SuFn("callsite_fns")>>
<1>0. PICK refs, t : refs = Collect(exts, "refs") /\ t = Table(refs, c1, <<>>, c2, x2)
  OBVIOUS
<1>01. refs \in Seq(SuNames)
  BY <1>0, CollectTypes DEF NameFields
<1>1. PICK b, r, o1, s1, o2, s2, c :
        /\ b = <<SuFn("bindings")>> /\ r = AsFns(refs) /\ c = <<SuFn("callsite_fns")>>
        /\ o1 = AsOps(c1) /\ o2 = AsOps(c2) /\ s1 = AsSources(<<>>) /\ s2 = AsSources(x2)
  OBVIOUS
<1>2. /\ b \in Seq(Entities) /\ r \in Seq(Entities) /\ o1 \in Seq(Entities)
      /\ o2 \in Seq(Entities) /\ s2 \in Seq(Entities) /\ c \in Seq(Entities)
  BY <1>01, <1>1, AsTypes, EndTypes
<1>3. s1 = <<>>
  BY <1>1 DEF AsSources, As
<1>4. PICK p : p = b \o r /\ p \in Seq(Entities)
  BY <1>2, ConcatProperties
<1>5. t = p \o o1 \o s1 \o o2 \o s2 \o c
  BY <1>0, <1>1, <1>4 DEF Table
<1>6. p \o o1 \o s1 = p \o o1
  BY <1>2, <1>3, <1>4
<1>7. AsOps(create_op_ctxs(exts)) = o1 \o o2
  BY <1>1, AsConcat
<1>8. Stored(exts, x2) = p \o (o1 \o o2) \o s2
  BY <1>0, <1>1, <1>4, <1>7 DEF Stored
<1>9. (p \o o1) \o o2 = p \o (o1 \o o2)
  <2>1. p \in Seq(Entities) /\ o1 \in Seq(Entities) /\ o2 \in Seq(Entities)
    BY <1>2, <1>4
  <2> QED BY <2>1, ConcatAssociative, SMT
<1> QED BY <1>0, <1>1, <1>5, <1>6, <1>8, <1>9

-----------------------------------------------------------------------------
(* The inductive invariant.                                                *)

(* The references of a heap mean what the table says. *)
HeapFits(heap, table) ==
  \A ref \in heap : ref[1] \in OpsAndSources /\ ref[2] \in 1 .. Len(table) /\ table[ref[2]] = ref[1]

(* A snapshot's heap fits the part of the table that is rebuilt. *)
BlobFits ==
  /\ suBlob.exts \in Seq(DOMAIN SuDecl) /\ suBlob.external_strings \in Seq(SuNames)
  /\ suBlob.op_count = Len(create_op_ctxs(suBlob.exts))
  /\ suBlob.source_count = Len(suBlob.external_strings)
  /\ HeapFits(suBlob.heap, Stored(suBlob.exts, suBlob.external_strings))

PlanFollows ==
  /\ suPlan \in Seq(SuRuntimes) /\ PlanExtends(suPlan)
  /\ FromSnapshot =>
       \A k \in DOMAIN suPlan : /\ Extends(suPlan[k], suBlob.exts)
                                /\ suPlan[k].will_snapshot => suBlob.external_strings = <<>>

(* What a runtime has from its start to its end: its table has all it may  *)
(* refer to, and is the one the next process rebuilds.                     *)
TableFits(r) ==
  /\ suPlan # <<>> /\ r.exts = SuOptions.exts /\ r.ctxs = create_op_ctxs(r.exts)
  /\ r.original_sources \in Seq(SuNames) /\ (NoFiles(SuOptions) => r.original_sources = <<>>)
  /\ r.table \in Seq(Entities)
  /\ \A n \in ToSet(r.ctxs) : SuOp(n) \in ToSet(r.table)
  /\ \A n \in ToSet(r.original_sources) : SuSource(n) \in ToSet(r.table)
  /\ SuOptions.will_snapshot => r.table = Stored(r.exts, r.original_sources) \o <<SuFn("callsite_fns")>>

RtFields == {"exts", "ctxs", "sources", "original_sources", "table", "heap", "ran", "core_ops", "ops_module",
             "templates", "modules", "lazy_esm_sources", "loader", "initialised"}

(* The files it has yet to load are among its sources. *)
FilesKnown(r) ==
  /\ DOMAIN r = RtFields /\ DOMAIN r.sources = {"js", "esm", "lazy_esm", "esm_entry_points"}
  /\ r.sources.js \in Seq(ToSet(r.original_sources))
  /\ r.sources.esm \in Seq(ToSet(r.original_sources))
  /\ r.sources.lazy_esm \in Seq(ToSet(r.original_sources))
  /\ r.loader \subseteq ToSet(r.original_sources)
  /\ r.lazy_esm_sources \subseteq ToSet(r.original_sources)

Live == suPc \notin {"start", "failed", "panic"}

StartupIInv ==
  /\ PlanFollows /\ (suBlob = NoBlob \/ (suBlob.taken = TRUE /\ BlobFits))
  /\ suPc # "start" => suPlan # <<>>
  /\ Live => TableFits(suRt) /\ FilesKnown(suRt) /\ HeapFits(suRt.heap, suRt.table)

LEMMA AddedFits ==
  ASSUME NEW r, r.table \in Seq(Entities), NEW h, HeapFits(h, r.table), NEW es,
         es \subseteq OpsAndSources, es \subseteq ToSet(r.table)
  PROVE  HeapFits(h \cup InHeap(r, es), r.table)
<1>1. ASSUME NEW ref \in InHeap(r, es)
      PROVE  ref[1] \in OpsAndSources /\ ref[2] \in 1 .. Len(r.table) /\ r.table[ref[2]] = ref[1]
  <2>1. PICK e \in es : ref = <<e, IndexOf(r.table, e)>>
    BY <1>1 DEF InHeap
  <2>2. IndexOf(r.table, e) \in DOMAIN r.table /\ r.table[IndexOf(r.table, e)] = e
    BY IndexOfPlace
  <2>3. DOMAIN r.table = 1 .. Len(r.table)
    OBVIOUS
  <2>4. ref[1] = e /\ ref[2] = IndexOf(r.table, e)
    BY <2>1
  <2> QED BY <2>2, <2>3, <2>4
<1> QED BY <1>1 DEF HeapFits

LEMMA InOwnSet ==
  ASSUME NEW S, NEW s \in Seq(S), NEW T, ToSet(s) \subseteq T
  PROVE  s \in Seq(T)
<1>1. Len(s) \in Nat /\ DOMAIN s = 1 .. Len(s) /\ s = [i \in 1 .. Len(s) |-> s[i]]
  OBVIOUS
<1>2. \A i \in 1 .. Len(s) : s[i] \in T
  BY <1>1 DEF ToSet
<1> QED BY <1>1, <1>2

(* The sources that are loaded, of which there are none without files. *)
LEMMA LoadedFiles ==
  ASSUME NEW o \in SuRuntimes, FromSnapshot => BlobFits /\ Extends(o, suBlob.exts),
         NEW s, s = LoadedSources(o.exts, o.warmup)
  PROVE  /\ s.js \in Seq(SuNames) /\ s.esm \in Seq(SuNames) /\ s.lazy_esm \in Seq(SuNames)
         /\ DOMAIN s = {"js", "esm", "lazy_esm", "esm_entry_points"}
         /\ NoFiles(o) => AllSources(s) = <<>>
<1>1. PICK exts, warm : exts = o.exts /\ warm = o.warmup /\ exts \in Seq(DOMAIN SuDecl)
  BY DEF SuRuntimes
<1>2. PICK files : files = IF warm THEN <<>> ELSE exts
  OBVIOUS
<1>3. files \in Seq(DOMAIN SuDecl)
  <2>1. files = <<>> \/ files = exts
    BY <1>2
  <2>2. exts \in Seq(DOMAIN SuDecl)
    BY <1>1
  <2>3. <<>> \in Seq(DOMAIN SuDecl)
    OBVIOUS
  <2> QED BY <2>1, <2>2, <2>3
<1>4. PICK new : new = NewExtensions(files)
  OBVIOUS
<1>5. new \in Seq(DOMAIN SuDecl)
  <2>1. CASE FromSnapshot
    <3>1. Len(suBlob.exts) \in Nat
      BY <2>1 DEF BlobFits
    <3> QED BY <1>3, <1>4, <2>1, <3>1 DEF NewExtensions
  <2>2. CASE ~FromSnapshot
    BY <1>3, <1>4, <2>2 DEF NewExtensions
  <2> QED BY <2>1, <2>2
<1>6. /\ s.js = Collect(new, "js") /\ s.esm = Collect(new, "esm") /\ s.lazy_esm = Collect(files, "lazy")
      /\ DOMAIN s = {"js", "esm", "lazy_esm", "esm_entry_points"}
  <2>1. s = [js |-> Collect(new, "js"), esm |-> Collect(new, "esm"), lazy_esm |-> Collect(files, "lazy"),
             esm_entry_points |-> Entries(new)]
    BY <1>1, <1>2, <1>4 DEF LoadedSources
  <2> QED BY <2>1
<1>7. /\ Collect(new, "js") \in Seq(SuNames) /\ Collect(new, "esm") \in Seq(SuNames)
      /\ Collect(files, "lazy") \in Seq(SuNames) /\ Collect(files, "js") \in Seq(SuNames)
      /\ Collect(files, "esm") \in Seq(SuNames)
  BY <1>3, <1>5, CollectTypes DEF NameFields
<1>8. ASSUME NoFiles(o) PROVE AllSources(s) = <<>>
  <2>1. Collect(<<>>, "js") = <<>> /\ Collect(<<>>, "esm") = <<>> /\ Collect(<<>>, "lazy") = <<>>
    BY FlattenEmpty DEF Collect
  <2>2. Collect(files, "js") = <<>> /\ Collect(files, "esm") = <<>> /\ Collect(files, "lazy") = <<>>
    <3>1. CASE warm
      BY <1>2, <2>1, <3>1
    <3>2. CASE ~warm
      <4>1. files = exts
        BY <1>2, <3>2
      <4>2. Collect(files, "js") \o Collect(files, "esm") \o Collect(files, "lazy") = <<>>
        BY <1>1, <1>8, <3>2, <4>1 DEF NoFiles
      <4> QED BY <1>7, <4>2
    <3> QED BY <3>1, <3>2
  <2>3. Collect(new, "js") = <<>> /\ Collect(new, "esm") = <<>>
    <3>1. CASE ~FromSnapshot
      BY <1>4, <2>2, <3>1 DEF NewExtensions
    <3>2. CASE FromSnapshot /\ warm
      <4>1. Len(suBlob.exts) \in Nat /\ new = SubSeq(<<>>, Len(suBlob.exts) + 1, 0)
        BY <1>2, <1>4, <3>2 DEF NewExtensions, BlobFits
      <4>2. new = <<>>
        BY <4>1, <1>5
      <4> QED BY <2>1, <4>2
    <3>3. CASE FromSnapshot /\ ~warm
      <4>1. files = exts
        BY <1>2, <3>3
      <4>2. PICK m : m = Len(suBlob.exts) /\ m \in 0 .. Len(exts)
        BY <1>1, <3>3 DEF BlobFits, Extends
      <4>3. PICK old : old = SubSeq(exts, 1, m)
        OBVIOUS
      <4>4. new = SubSeq(exts, m + 1, Len(exts))
        BY <1>4, <3>3, <4>1, <4>2 DEF NewExtensions
      <4>5. /\ old \in Seq(DOMAIN SuDecl)
            /\ \A field \in NameFields : Collect(exts, field) = Collect(old, field) \o Collect(new, field)
        <5>1. exts \in Seq(DOMAIN SuDecl) /\ m \in 0 .. Len(exts)
          BY <1>1, <4>2
        <5>2. /\ SubSeq(exts, 1, m) \in Seq(DOMAIN SuDecl)
              /\ \A field \in NameFields : Collect(exts, field)
                   = Collect(SubSeq(exts, 1, m), field) \o Collect(SubSeq(exts, m + 1, Len(exts)), field)
          BY <5>1, CollectPrefix
        <5> QED BY <4>3, <4>4, <5>2
      <4>6. Collect(old, "js") \in Seq(SuNames) /\ Collect(old, "esm") \in Seq(SuNames)
        BY <4>5, CollectTypes DEF NameFields
      <4>7. Collect(old, "js") \o Collect(new, "js") = <<>> /\ Collect(old, "esm") \o Collect(new, "esm") = <<>>
        BY <2>2, <4>1, <4>5 DEF NameFields
      <4> QED BY <1>7, <4>6, <4>7
    <3> QED BY <3>1, <3>2, <3>3
  <2>4. AllSources(s) = <<>> \o <<>> \o <<>>
    BY <1>6, <2>2, <2>3 DEF AllSources
  <2> QED BY <2>4
<1> QED BY <1>6, <1>7, <1>8

(* What starts from a snapshot has its references, and its contexts before *)
(* those of the ops that were added.                                       *)
LEMMA SnapshotContinued ==
  ASSUME FromSnapshot, BlobFits, NEW exts \in Seq(DOMAIN SuDecl), NEW o, o.exts = exts,
         Extends(o, suBlob.exts), ~SnapshotMismatch(exts)
  PROVE  /\ Collect(exts, "refs") = Collect(suBlob.exts, "refs")
         /\ \E more \in Seq(SuNames) : create_op_ctxs(exts) = create_op_ctxs(suBlob.exts) \o more
<1>1. PICK old : old = suBlob.exts /\ old \in Seq(DOMAIN SuDecl)
  BY DEF BlobFits
<1>2. PICK m : m = Len(old) /\ m \in 0 .. Len(exts)
  BY <1>1 DEF Extends
<1>3. \A i \in 1 .. m : exts[i] = old[i]
  <2>1. DOMAIN exts = 1 .. Len(exts) /\ DOMAIN old = 1 .. m /\ m <= Len(exts) /\ Len(exts) \in Nat
    BY <1>1, <1>2
  <2>2. \A i \in DOMAIN exts \cap DOMAIN old : exts[i] = old[i]
    BY <1>1 DEF SnapshotMismatch
  <2>3. \A i \in 1 .. m : i \in DOMAIN exts \cap DOMAIN old
    BY <1>2, <2>1
  <2> QED BY <2>2, <2>3
<1>4. SubSeq(exts, 1, m) = old
  <2>1. PICK x : x = SubSeq(exts, 1, m)
    OBVIOUS
  <2>2. x \in Seq(DOMAIN SuDecl) /\ Len(x) = Len(old) /\ \A i \in 1 .. Len(x) : x[i] = old[i]
    BY <1>2, <1>3, <2>1
  <2> QED BY <1>1, <2>1, <2>2, SeqEqual
<1>5. PICK new : new = SubSeq(exts, m + 1, Len(exts))
  OBVIOUS
<1>6. /\ new \in Seq(DOMAIN SuDecl)
      /\ Collect(exts, "objects") = Collect(old, "objects") \o Collect(new, "objects")
      /\ \A field \in NameFields : Collect(exts, field) = Collect(old, field) \o Collect(new, field)
  <2>1. LET a == SubSeq(exts, 1, m) b == SubSeq(exts, m + 1, Len(exts)) IN
         /\ b \in Seq(DOMAIN SuDecl)
         /\ Collect(exts, "objects") = Collect(a, "objects") \o Collect(b, "objects")
         /\ \A field \in NameFields : Collect(exts, field) = Collect(a, field) \o Collect(b, field)
    BY <1>2, CollectPrefix
  <2> QED BY <1>4, <1>5, <2>1
<1>7. Collect(new, "objects") = <<>> /\ Collect(new, "refs") = <<>>
  BY <1>1, <1>2, <1>5 DEF Extends
<1>8. Collect(exts, "objects") = Collect(old, "objects") /\ Collect(exts, "refs") = Collect(old, "refs")
  <2>1. Collect(old, "objects") \in Seq(SuClasses) /\ Collect(old, "refs") \in Seq(SuNames)
    BY <1>1, CollectTypes DEF NameFields
  <2>2. Collect(old, "objects") \o <<>> = Collect(old, "objects") /\ Collect(old, "refs") \o <<>> = Collect(old, "refs")
    BY <2>1
  <2> QED BY <1>6, <1>7, <2>2 DEF NameFields
<1>9. create_op_ctxs(exts) = create_op_ctxs(old) \o Collect(new, "ops") /\ Collect(new, "ops") \in Seq(SuNames)
  <2>1. PICK h, c, p, q : /\ h = ClassCtxs(Collect(old, "objects")) /\ c = SuCoreOps
                          /\ p = Collect(old, "ops") /\ q = Collect(new, "ops")
    OBVIOUS
  <2>2. h \in Seq(SuNames) /\ c \in Seq(SuNames) /\ p \in Seq(SuNames)
    BY <1>1, <2>1, CtxTypes
  <2>3. q \in Seq(SuNames)
    BY <1>6, <2>1, CtxTypes
  <2>4. create_op_ctxs(old) = h \o c \o p
    BY <1>1, <2>1, CtxTypes
  <2>5. create_op_ctxs(exts) = h \o c \o Collect(exts, "ops")
    BY <1>8, <2>1, CtxTypes
  <2>6. Collect(exts, "ops") = p \o q
    BY <1>6, <2>1 DEF NameFields
  <2>7. PICK hc : hc = h \o c /\ hc \in Seq(SuNames)
    BY <2>2, ConcatProperties
  <2>8. (hc \o p) \o q = hc \o (p \o q)
    BY <2>2, <2>3, <2>7, ConcatAssociative
  <2> QED BY <2>1, <2>3, <2>4, <2>5, <2>6, <2>7, <2>8
<1> QED BY <1>1, <1>8, <1>9

(* The runtime as it is created. *)
LEMMA CreatedTable ==
  ASSUME StartupIInv, suPlan # <<>>, NEW o, o = SuOptions, ~SnapshotMismatch(o.exts),
         NEW s, s = LoadedSources(o.exts, o.warmup),
         NEW strings, strings = externalize_sources(Restored("external_strings", <<>>), AllSources(s)),
         NEW ctxs, ctxs = create_op_ctxs(o.exts),
         NEW t, t = create_external_references(ctxs, Collect(o.exts, "refs"), strings, Restored("op_count", 0),
                                               Restored("source_count", 0))
  PROVE  /\ AllSources(s) \in Seq(SuNames) /\ t \in Seq(Entities)
         /\ NoFiles(o) => AllSources(s) = <<>>
         /\ s.js \in Seq(ToSet(AllSources(s))) /\ s.esm \in Seq(ToSet(AllSources(s)))
         /\ s.lazy_esm \in Seq(ToSet(AllSources(s)))
         /\ DOMAIN s = {"js", "esm", "lazy_esm", "esm_entry_points"}
         /\ \A n \in ToSet(ctxs) : SuOp(n) \in ToSet(t)
         /\ \A n \in ToSet(AllSources(s)) : SuSource(n) \in ToSet(t)
         /\ o.will_snapshot => t = Stored(o.exts, AllSources(s)) \o <<SuFn("callsite_fns")>>
         /\ HeapFits(Restored("heap", {}), t)
<1>1. o \in SuRuntimes /\ (FromSnapshot => Extends(o, suBlob.exts) /\ (o.will_snapshot => suBlob.external_strings = <<>>))
  BY DEF StartupIInv, PlanFollows, SuOptions
<1>2. FromSnapshot => BlobFits
  BY DEF StartupIInv, FromSnapshot, NoBlob
<1>3. PICK exts : exts = o.exts /\ exts \in Seq(DOMAIN SuDecl)
  BY <1>1 DEF SuRuntimes
<1>4. PICK all, refs : all = AllSources(s) /\ refs = Collect(exts, "refs")
  OBVIOUS
<1>5. /\ s.js \in Seq(SuNames) /\ s.esm \in Seq(SuNames) /\ s.lazy_esm \in Seq(SuNames)
      /\ DOMAIN s = {"js", "esm", "lazy_esm", "esm_entry_points"}
      /\ NoFiles(o) => all = <<>>
  BY <1>1, <1>2, <1>4, LoadedFiles
<1>6. all \in Seq(SuNames) /\ ToSet(s.js) \subseteq ToSet(all) /\ ToSet(s.esm) \subseteq ToSet(all)
      /\ ToSet(s.lazy_esm) \subseteq ToSet(all)
  <2>1. PICK j, e, l : j = s.js /\ e = s.esm /\ l = s.lazy_esm
    OBVIOUS
  <2>2. j \in Seq(SuNames) /\ e \in Seq(SuNames) /\ l \in Seq(SuNames)
    BY <1>5, <2>1
  <2>3. PICK je : je = j \o e
    OBVIOUS
  <2>4. je \in Seq(SuNames) /\ ToSet(je) = ToSet(j) \cup ToSet(e)
    BY <2>2, <2>3, ToSetConcat, ConcatProperties
  <2>5. all = je \o l
    BY <1>4, <2>1, <2>3 DEF AllSources
  <2>6. je \o l \in Seq(SuNames) /\ ToSet(je \o l) = ToSet(je) \cup ToSet(l)
    BY <2>2, <2>4, ToSetConcat, ConcatProperties
  <2> QED BY <2>1, <2>4, <2>5, <2>6
<1>7. s.js \in Seq(ToSet(all)) /\ s.esm \in Seq(ToSet(all)) /\ s.lazy_esm \in Seq(ToSet(all))
  BY <1>5, <1>6, InOwnSet
<1>8. refs \in Seq(SuNames) /\ ctxs \in Seq(SuNames)
  BY <1>3, <1>4, CollectTypes, CtxTypes DEF NameFields
<1>9. CASE ~FromSnapshot
  <2>1. strings = <<>> \o all /\ <<>> \o ctxs = ctxs /\ <<>> \in Seq(SuNames) /\ Len(<<>>) = 0
    BY <1>4, <1>8, <1>9 DEF externalize_sources, Restored
  <2>2. t = create_external_references(ctxs, refs, strings, 0, 0)
    BY <1>3, <1>4, <1>9 DEF Restored
  <2>3. t = Table(refs, <<>>, <<>>, ctxs, all)
    <3>1. PICK z : z = <<>>
      OBVIOUS
    <3>2. create_external_references(z \o ctxs, refs, z \o all, Len(z), Len(z)) = Table(refs, z, z, ctxs, all)
      <4>1. z \in Seq(SuNames) /\ ctxs \in Seq(SuNames) /\ all \in Seq(SuNames)
        BY <1>6, <1>8, <2>1, <3>1
      <4> QED BY <4>1, TableMade
    <3>3. z \o ctxs = ctxs /\ z \o all = strings /\ Len(z) = 0
      BY <2>1, <3>1
    <3>4. t = Table(refs, z, z, ctxs, all)
      BY <2>2, <3>2, <3>3
    <3> QED BY <3>1, <3>4
  <2>4. <<>> \o all = all
    BY <1>6
  <2>5. /\ t \in Seq(Entities) /\ \A n \in ToSet(ctxs) : SuOp(n) \in ToSet(t)
        /\ \A n \in ToSet(all) : SuSource(n) \in ToSet(t)
    <3>1. LET u == Table(refs, <<>>, <<>>, ctxs, all) IN
          /\ u \in Seq(Entities) /\ \A n \in ToSet(<<>> \o ctxs) : SuOp(n) \in ToSet(u)
          /\ \A n \in ToSet(<<>> \o all) : SuSource(n) \in ToSet(u)
      BY <1>6, <1>8, <2>1, TableHolds
    <3> QED BY <2>1, <2>3, <2>4, <3>1
  <2>6. t = Stored(exts, all) \o <<SuFn("callsite_fns")>>
    <3>1. PICK z : z = <<>>
      OBVIOUS
    <3>2. z \in Seq(SuNames) /\ z \o ctxs = create_op_ctxs(exts) /\ exts \in Seq(DOMAIN SuDecl)
      BY <1>3, <2>1, <3>1
    <3>3. Table(Collect(exts, "refs"), z, <<>>, ctxs, all) = Stored(exts, all) \o <<SuFn("callsite_fns")>>
      BY <1>6, <1>8, <3>2, TableStored
    <3> QED BY <1>4, <2>3, <3>1, <3>3
  <2>7. HeapFits(Restored("heap", {}), t)
    BY <1>9 DEF HeapFits, Restored
  <2> QED BY <1>3, <1>4, <1>5, <1>6, <1>7, <2>5, <2>6, <2>7
<1>10. CASE FromSnapshot
  <2>1. PICK old, ss : old = suBlob.exts /\ ss = suBlob.external_strings
    OBVIOUS
  <2>2. /\ old \in Seq(DOMAIN SuDecl) /\ ss \in Seq(SuNames) /\ suBlob.source_count = Len(ss)
        /\ suBlob.op_count = Len(create_op_ctxs(old)) /\ HeapFits(suBlob.heap, Stored(old, ss))
    BY <1>2, <1>10, <2>1 DEF BlobFits
  <2>3. refs = Collect(old, "refs") /\ \E more \in Seq(SuNames) : ctxs = create_op_ctxs(old) \o more
    BY <1>1, <1>2, <1>3, <1>4, <1>10, <2>1, SnapshotContinued
  <2>4. PICK more \in Seq(SuNames) : ctxs = create_op_ctxs(old) \o more
    BY <2>3
  <2>5. PICK c1 : c1 = create_op_ctxs(old) /\ c1 \in Seq(SuNames) /\ ctxs = c1 \o more
    BY <2>2, <2>4, CtxTypes
  <2>6. strings = ss \o all
    BY <1>4, <1>10, <2>1 DEF externalize_sources, Restored
  <2>7. t = create_external_references(ctxs, refs, strings, Len(c1), Len(ss))
    BY <1>3, <1>4, <1>10, <2>2, <2>5 DEF Restored
  <2>8. t = Table(refs, c1, ss, more, all)
    <3>1. create_external_references(c1 \o more, refs, ss \o all, Len(c1), Len(ss)) = Table(refs, c1, ss, more, all)
      BY <1>6, <1>8, <2>2, <2>5, TableMade
    <3> QED BY <2>5, <2>6, <2>7, <3>1
  <2>9. /\ t \in Seq(Entities) /\ (\A n \in ToSet(c1 \o more) : SuOp(n) \in ToSet(t))
        /\ \A n \in ToSet(ss \o all) : SuSource(n) \in ToSet(t)
    <3>1. LET u == Table(refs, c1, ss, more, all) IN
          /\ u \in Seq(Entities) /\ \A n \in ToSet(c1 \o more) : SuOp(n) \in ToSet(u)
          /\ \A n \in ToSet(ss \o all) : SuSource(n) \in ToSet(u)
      BY <1>6, <1>8, <2>2, <2>5, TableHolds
    <3> QED BY <2>8, <3>1
  <2>10. ToSet(all) \subseteq ToSet(ss \o all)
    BY <1>6, <2>2, ToSetConcat
  <2>11. o.will_snapshot => t = Stored(exts, all) \o <<SuFn("callsite_fns")>>
    <3> SUFFICES ASSUME o.will_snapshot PROVE t = Stored(exts, all) \o <<SuFn("callsite_fns")>>
      OBVIOUS
    <3>1. t = Table(refs, c1, <<>>, more, all)
      BY <1>1, <1>10, <2>1, <2>8
    <3>2. c1 \o more = create_op_ctxs(exts)
      BY <1>3, <2>5
    <3>3. Table(Collect(exts, "refs"), c1, <<>>, more, all) = Stored(exts, all) \o <<SuFn("callsite_fns")>>
      BY <1>3, <1>6, <2>5, <3>2, TableStored
    <3> QED BY <1>4, <3>1, <3>3
  <2>12. PICK p : p = Stored(old, ss)
    OBVIOUS
  <2>13. p \in Seq(Entities) /\ Len(p) <= Len(t) /\ \A i \in 1 .. Len(p) : t[i] = p[i]
    <3>1. LET u == Table(Collect(old, "refs"), create_op_ctxs(old), ss, more, all)
              q == Stored(old, ss)
          IN q \in Seq(Entities) /\ Len(q) <= Len(u) /\ \A i \in 1 .. Len(q) : u[i] = q[i]
      BY <1>6, <2>2, <2>4, TableBegins
    <3> QED BY <2>3, <2>5, <2>8, <2>12, <3>1
  <2>14. HeapFits(suBlob.heap, t)
    <3>1. \A i \in 1 .. Len(p) : i \in 1 .. Len(t)
      BY <2>9, <2>13
    <3> QED BY <2>2, <2>12, <2>13, <3>1 DEF HeapFits
  <2>15. Restored("heap", {}) = suBlob.heap
    BY <1>10 DEF Restored
  <2> QED BY <1>3, <1>4, <1>5, <1>6, <1>7, <2>5, <2>9, <2>10, <2>11, <2>14, <2>15
<1> QED BY <1>9, <1>10

-----------------------------------------------------------------------------
(* The steps.                                                              *)

LEMMA PlanKept ==
  ASSUME StartupIInv, UNCHANGED <<suPlan, suBlob>>
  PROVE  PlanFollows' /\ (suBlob = NoBlob \/ (suBlob.taken = TRUE /\ BlobFits))'
BY DEF StartupIInv, PlanFollows, FromSnapshot, BlobFits

(* A step of a runtime that leaves its tables alone. *)
LEMMA RtKept ==
  ASSUME StartupIInv, Live, UNCHANGED <<suPlan, suBlob>>, FilesKnown(suRt'),
         suRt'.exts = suRt.exts, suRt'.ctxs = suRt.ctxs, suRt'.original_sources = suRt.original_sources,
         suRt'.table = suRt.table, HeapFits(suRt'.heap, suRt.table)
  PROVE  StartupIInv'
<1>1. TableFits(suRt)
  BY DEF StartupIInv
<1>2. TableFits(suRt)'
  BY <1>1 DEF TableFits, SuOptions
<1>3. FilesKnown(suRt)' /\ HeapFits(suRt.heap, suRt.table)'
  BY DEF FilesKnown, HeapFits
<1>4. suPlan' # <<>>
  BY <1>1 DEF TableFits
<1> QED BY <1>2, <1>3, <1>4, PlanKept DEF StartupIInv

(* A step that ends it. *)
LEMMA RtEnds ==
  ASSUME StartupIInv, UNCHANGED <<suPlan, suBlob>>, suPlan # <<>>, suPc' \in {"start", "failed", "panic"}
  PROVE  StartupIInv'
BY PlanKept DEF StartupIInv, Live

LEMMA CreateIsolateStep == ASSUME StartupIInv, CreateIsolate PROVE StartupIInv'
<1>1. PICK exts, s, ctxs, strings, opc, t :
        /\ exts = SuOptions.exts /\ s = LoadedSources(exts, SuOptions.warmup) /\ ctxs = create_op_ctxs(exts)
        /\ strings = externalize_sources(Restored("external_strings", <<>>), AllSources(s))
        /\ opc = Restored("op_count", 0)
        /\ t = create_external_references(ctxs, Collect(exts, "refs"), strings, opc, Restored("source_count", 0))
  OBVIOUS
<1>2. suPlan # <<>>
  BY DEF CreateIsolate
<1>3. CASE SnapshotMismatch(exts)
  <2>1. suPc' = "failed" /\ UNCHANGED <<suPlan, suBlob>>
    BY <1>1, <1>3 DEF CreateIsolate, SuFail
  <2> QED BY <1>2, <2>1, RtEnds
<1>4. CASE ~SnapshotMismatch(exts) /\ (DeclarationsPanic(exts) \/ opc > Len(ctxs))
  <2>1. suPc' = "panic" /\ UNCHANGED <<suPlan, suBlob>>
    BY <1>1, <1>4 DEF CreateIsolate, SuFail
  <2> QED BY <1>2, <2>1, RtEnds
<1>5. CASE ~SnapshotMismatch(exts) /\ ~(DeclarationsPanic(exts) \/ opc > Len(ctxs))
  <2>1. /\ suRt' = [exts |-> exts, ctxs |-> ctxs, sources |-> s, original_sources |-> AllSources(s), table |-> t,
                    heap |-> Restored("heap", {}), ran |-> Restored("ran", <<>>),
                    core_ops |-> Restored("core_ops", {}), ops_module |-> Restored("ops_module", {}),
                    templates |-> {}, modules |-> <<>>, lazy_esm_sources |-> {}, loader |-> {}, initialised |-> {}]
        /\ UNCHANGED <<suPlan, suBlob>>
    BY <1>1, <1>5 DEF CreateIsolate
  <2>2. /\ AllSources(s) \in Seq(SuNames) /\ t \in Seq(Entities)
        /\ NoFiles(SuOptions) => AllSources(s) = <<>>
        /\ s.js \in Seq(ToSet(AllSources(s))) /\ s.esm \in Seq(ToSet(AllSources(s)))
        /\ s.lazy_esm \in Seq(ToSet(AllSources(s)))
        /\ DOMAIN s = {"js", "esm", "lazy_esm", "esm_entry_points"}
        /\ \A n \in ToSet(ctxs) : SuOp(n) \in ToSet(t)
        /\ \A n \in ToSet(AllSources(s)) : SuSource(n) \in ToSet(t)
        /\ SuOptions.will_snapshot => t = Stored(exts, AllSources(s)) \o <<SuFn("callsite_fns")>>
        /\ HeapFits(Restored("heap", {}), t)
    BY <1>1, <1>2, <1>5, CreatedTable
  <2>3. /\ suRt'.exts = exts /\ suRt'.ctxs = ctxs /\ suRt'.original_sources = AllSources(s)
        /\ suRt'.table = t /\ suRt'.heap = Restored("heap", {}) /\ suRt'.sources = s
        /\ suRt'.loader = {} /\ suRt'.lazy_esm_sources = {} /\ DOMAIN suRt' = RtFields
    BY <2>1 DEF RtFields
  <2>4. TableFits(suRt)'
    BY <1>1, <1>2, <2>1, <2>2, <2>3 DEF TableFits, SuOptions
  <2>5. FilesKnown(suRt)'
    BY <2>2, <2>3 DEF FilesKnown
  <2>6. HeapFits(suRt.heap, suRt.table)'
    BY <2>2, <2>3 DEF HeapFits
  <2> QED BY <1>2, <2>1, <2>4, <2>5, <2>6, PlanKept DEF StartupIInv
<1> QED BY <1>3, <1>4, <1>5

LEMMA OptionsType ==
  ASSUME StartupIInv, suPlan # <<>>
  PROVE  SuOptions \in SuRuntimes /\ SuOptions.exts \in Seq(DOMAIN SuDecl)
<1>1. suPlan \in Seq(SuRuntimes)
  BY DEF StartupIInv, PlanFollows
<1>2. suPlan[1] \in SuRuntimes
  BY <1>1
<1> QED BY <1>2 DEF SuOptions, SuRuntimes

(* What an update of other fields leaves alone. *)
SameTables(q, r) ==
  /\ DOMAIN q = DOMAIN r /\ q.exts = r.exts /\ q.ctxs = r.ctxs /\ q.original_sources = r.original_sources
  /\ q.table = r.table

SameFiles(q, r) ==
  q.sources = r.sources /\ q.loader = r.loader /\ q.lazy_esm_sources = r.lazy_esm_sources

LEMMA OtherFields ==
  ASSUME StartupIInv, Live, UNCHANGED <<suPlan, suBlob>>, SameTables(suRt', suRt), SameFiles(suRt', suRt),
         suRt'.heap = suRt.heap
  PROVE  StartupIInv'
<1>1. TableFits(suRt) /\ FilesKnown(suRt) /\ HeapFits(suRt.heap, suRt.table)
  BY DEF StartupIInv
<1>2. FilesKnown(suRt')
  BY <1>1 DEF FilesKnown, SameTables, SameFiles
<1> QED BY <1>1, <1>2, RtKept DEF SameTables

LEMMA SetStatusKeeps ==
  ASSUME NEW r, DOMAIN r = RtFields, NEW ms, NEW st
  PROVE  LET q == SetStatus(r, ms, st) IN SameTables(q, r) /\ SameFiles(q, r) /\ q.heap = r.heap /\ q.ran = r.ran
BY DEF SetStatus, SameTables, SameFiles, RtFields

LEMMA EvaluatedKeeps ==
  ASSUME NEW r, DOMAIN r = RtFields, NEW m
  PROVE  LET q == Evaluated(r, m) IN SameTables(q, r) /\ SameFiles(q, r) /\ q.heap = r.heap
<1>1. PICK u : u = SetStatus(r, ToSet(ToEvaluate(r, m)), "evaluated")
  OBVIOUS
<1>2. SameTables(u, r) /\ SameFiles(u, r) /\ u.heap = r.heap
  BY <1>1, SetStatusKeeps
<1>3. PICK e : e = ToEvaluate(r, m)
  OBVIOUS
<1>4. Evaluated(r, m) = [u EXCEPT !.ran = @ \o e]
  BY <1>1, <1>3 DEF Evaluated
<1>5. PICK q : q = [u EXCEPT !.ran = @ \o e]
  OBVIOUS
<1>6. SameTables(q, r) /\ SameFiles(q, r) /\ q.heap = r.heap
  BY <1>2, <1>5 DEF SameTables, SameFiles, RtFields
<1> QED BY <1>4, <1>5, <1>6

LEMMA RegisteredKeeps ==
  ASSUME NEW r, DOMAIN r = RtFields, NEW ms
  PROVE  LET q == Registered(r, ms) IN
         SameTables(q, r) /\ SameFiles(q, r) /\ q.heap = r.heap \cup InHeap(r, {SuSource(m) : m \in ToSet(ms)})
BY DEF Registered, SameTables, SameFiles, RtFields

LEMMA HeadTailTypes ==
  ASSUME NEW T, NEW s \in Seq(T), s # <<>>
  PROVE  Head(s) \in T /\ Tail(s) \in Seq(T)
OBVIOUS

(* Compiling known files keeps the heap in order. *)
LEMMA SourcesFit ==
  ASSUME TableFits(suRt), NEW h, HeapFits(h, suRt.table), NEW ms, ms \subseteq ToSet(suRt.original_sources),
         NEW r, r.table = suRt.table
  PROVE  HeapFits(h \cup InHeap(r, {SuSource(m) : m \in ms}), suRt.table)
<1>1. ToSet(suRt.original_sources) \subseteq SuNames
  BY DEF TableFits, ToSet
<1>2. {SuSource(m) : m \in ms} \subseteq OpsAndSources
  BY <1>1 DEF OpsAndSources
<1>3. {SuSource(m) : m \in ms} \subseteq ToSet(suRt.table)
  BY DEF TableFits
<1>4. suRt.table \in Seq(Entities)
  BY DEF TableFits
<1> QED BY <1>2, <1>3, <1>4, AddedFits

LEMMA BindOpsStep == ASSUME StartupIInv, BindOps PROVE StartupIInv'
<1>1. Live /\ UNCHANGED <<suPlan, suBlob>>
  BY DEF BindOps, Live
<1>2. TableFits(suRt) /\ FilesKnown(suRt) /\ HeapFits(suRt.heap, suRt.table)
  BY <1>1 DEF StartupIInv
<1>3. CASE suRt' = suRt
  BY <1>1, <1>2, <1>3, RtKept
<1>4. CASE suRt' # suRt
  <2>1. suRt' = [suRt EXCEPT
               !.heap = @ \cup InHeap(suRt, {SuOp(n) : n \in ToSet(suRt.ctxs)}),
               !.core_ops = @ \cup TypesOf(suRt.exts) \cup ToSet(SuCoreOps)
                              \cup ToSet(Collect(suRt.exts, "ops")),
               !.templates = @ \cup TypesOf(suRt.exts)]
    BY <1>4 DEF BindOps
  <2>2. /\ SameTables(suRt', suRt) /\ suRt'.sources = suRt.sources /\ suRt'.loader = suRt.loader
        /\ suRt'.lazy_esm_sources = suRt.lazy_esm_sources
        /\ suRt'.heap = suRt.heap \cup InHeap(suRt, {SuOp(n) : n \in ToSet(suRt.ctxs)})
    BY <1>2, <2>1 DEF SameTables, FilesKnown, RtFields
  <2>3. FilesKnown(suRt')
    BY <1>2, <2>2 DEF FilesKnown, SameTables
  <2>4. {SuOp(n) : n \in ToSet(suRt.ctxs)} \subseteq OpsAndSources
    <3>1. ToSet(suRt.ctxs) \subseteq SuNames
      <4>1. suRt.exts \in Seq(DOMAIN SuDecl)
        BY <1>2, OptionsType DEF TableFits
      <4>2. suRt.ctxs \in Seq(SuNames)
        BY <1>2, <4>1, CtxTypes DEF TableFits
      <4> QED BY <4>2 DEF ToSet
    <3> QED BY <3>1 DEF OpsAndSources
  <2>5. HeapFits(suRt'.heap, suRt.table)
    <3>1. {SuOp(n) : n \in ToSet(suRt.ctxs)} \subseteq ToSet(suRt.table)
      BY <1>2 DEF TableFits
    <3>2. suRt.table \in Seq(Entities)
      BY <1>2 DEF TableFits
    <3> QED BY <1>2, <2>2, <2>4, <3>1, <3>2, AddedFits
  <2> QED BY <1>1, <2>2, <2>3, <2>5, RtKept DEF SameTables
<1> QED BY <1>3, <1>4

LEMMA RestoreSnapshotStep == ASSUME StartupIInv, RestoreSnapshot PROVE StartupIInv'
<1>1. Live /\ UNCHANGED <<suPlan, suBlob>>
  BY DEF RestoreSnapshot, Live
<1>2. DOMAIN suRt = RtFields
  BY <1>1 DEF StartupIInv, FilesKnown
<1>3. SameTables(suRt', suRt) /\ SameFiles(suRt', suRt) /\ suRt'.heap = suRt.heap
  BY <1>2 DEF RestoreSnapshot, SameTables, SameFiles, RtFields
<1> QED BY <1>1, <1>3, OtherFields

LEMMA ExecuteBuiltinsStep == ASSUME StartupIInv, ExecuteBuiltins PROVE StartupIInv'
<1>1. Live /\ UNCHANGED <<suPlan, suBlob>>
  BY DEF ExecuteBuiltins, Live
<1>2. DOMAIN suRt = RtFields
  BY <1>1 DEF StartupIInv, FilesKnown
<1>3. SameTables(suRt', suRt) /\ SameFiles(suRt', suRt) /\ suRt'.heap = suRt.heap
  BY <1>2 DEF ExecuteBuiltins, SameTables, SameFiles, RtFields
<1> QED BY <1>1, <1>3, OtherFields

LEMMA AddLazySourcesStep == ASSUME StartupIInv, AddLazySources PROVE StartupIInv'
<1>1. Live /\ UNCHANGED <<suPlan, suBlob>>
  BY DEF AddLazySources, Live
<1>2. FilesKnown(suRt) /\ HeapFits(suRt.heap, suRt.table)
  BY <1>1 DEF StartupIInv
<1>3. /\ SameTables(suRt', suRt) /\ suRt'.sources = suRt.sources /\ suRt'.heap = suRt.heap
      /\ suRt'.loader = ToSet(suRt.sources.esm) /\ suRt'.lazy_esm_sources = ToSet(suRt.sources.lazy_esm)
  BY <1>2 DEF AddLazySources, FilesKnown, SameTables, RtFields
<1>4. \A T : \A s \in Seq(T) : ToSet(s) \subseteq T
  BY DEF ToSet
<1>5. FilesKnown(suRt')
  BY <1>2, <1>3, <1>4 DEF FilesKnown, SameTables
<1> QED BY <1>1, <1>2, <1>3, <1>5, RtKept DEF SameTables

LEMMA LoadSideModuleStep == ASSUME StartupIInv, LoadSideModule PROVE StartupIInv'
<1>1. Live /\ UNCHANGED <<suPlan, suBlob>>
  BY DEF LoadSideModule, Live
<1>2. TableFits(suRt) /\ FilesKnown(suRt) /\ HeapFits(suRt.heap, suRt.table)
  BY <1>1 DEF StartupIInv
<1>3. CASE suRt' = suRt
  BY <1>1, <1>3, OtherFields DEF SameTables, SameFiles
<1>4. CASE suRt' # suRt
  <2>1. PICK m, new, loaded, stale :
          /\ m = Head(suRt.sources.esm) /\ new = Unregistered(suRt, m) /\ loaded = Registered(suRt, new)
          /\ stale = {x \in ToSet(Reached(m)) : StatusOf(loaded, x) = "uninstantiated"}
    OBVIOUS
  <2>2. PICK linked : linked = SetStatus(loaded, stale, "instantiated")
    OBVIOUS
  <2>3. /\ ToSet(new) \subseteq suRt.loader /\ suRt.sources.esm # <<>>
        /\ suRt' = [linked EXCEPT !.loader = @ \ ToSet(new), !.sources.esm = Tail(@)]
    BY <1>4, <2>1, <2>2 DEF LoadSideModule, Served
  <2>4. /\ SameTables(loaded, suRt) /\ SameFiles(loaded, suRt)
        /\ loaded.heap = suRt.heap \cup InHeap(suRt, {SuSource(x) : x \in ToSet(new)})
    BY <1>2, <2>1, RegisteredKeeps DEF FilesKnown
  <2>5. SameTables(linked, loaded) /\ SameFiles(linked, loaded) /\ linked.heap = loaded.heap
    BY <1>2, <2>2, <2>4, SetStatusKeeps DEF FilesKnown, SameTables
  <2>6. /\ DOMAIN linked = RtFields /\ SameTables(linked, suRt) /\ SameFiles(linked, suRt)
        /\ linked.heap = suRt.heap \cup InHeap(suRt, {SuSource(x) : x \in ToSet(new)})
    BY <1>2, <2>4, <2>5 DEF SameTables, SameFiles, FilesKnown
  <2>7. /\ SameTables(suRt', suRt) /\ suRt'.heap = linked.heap /\ suRt'.loader = suRt.loader \ ToSet(new)
        /\ suRt'.lazy_esm_sources = suRt.lazy_esm_sources
        /\ suRt'.sources = [suRt.sources EXCEPT !.esm = Tail(@)]
    BY <2>3, <2>6 DEF SameTables, SameFiles, RtFields
  <2>8. FilesKnown(suRt')
    <3>1. Tail(suRt.sources.esm) \in Seq(ToSet(suRt.original_sources))
      <4>1. suRt.sources.esm \in Seq(ToSet(suRt.original_sources)) /\ suRt.sources.esm # <<>>
        BY <1>2, <2>3 DEF FilesKnown
      <4> QED BY <4>1, HeadTailTypes
    <3> QED BY <1>2, <2>7, <3>1 DEF FilesKnown, SameTables
  <2>9. HeapFits(suRt'.heap, suRt.table)
    <3>1. ToSet(new) \subseteq ToSet(suRt.original_sources)
      BY <1>2, <2>3 DEF FilesKnown
    <3>2. HeapFits(suRt.heap \cup InHeap(suRt, {SuSource(x) : x \in ToSet(new)}), suRt.table)
      BY <1>2, <3>1, SourcesFit
    <3> QED BY <2>6, <2>7, <3>2
  <2> QED BY <1>1, <2>7, <2>8, <2>9, RtKept DEF SameTables
<1> QED BY <1>3, <1>4

LEMMA ExecuteScriptStep == ASSUME StartupIInv, ExecuteScript PROVE StartupIInv'
<1>1. Live /\ UNCHANGED <<suPlan, suBlob>>
  BY DEF ExecuteScript, Live
<1>2. TableFits(suRt) /\ FilesKnown(suRt) /\ HeapFits(suRt.heap, suRt.table)
  BY <1>1 DEF StartupIInv
<1>3. PICK f : f = Head(suRt.sources.js)
  OBVIOUS
<1>4. f \in ToSet(suRt.original_sources) /\ Tail(suRt.sources.js) \in Seq(ToSet(suRt.original_sources))
  <2>1. suRt.sources.js \in Seq(ToSet(suRt.original_sources)) /\ suRt.sources.js # <<>>
    BY <1>2 DEF FilesKnown, ExecuteScript
  <2> QED BY <1>3, <2>1, HeadTailTypes
<1>5. /\ SameTables(suRt', suRt) /\ suRt'.heap = suRt.heap \cup InHeap(suRt, {SuSource(f)})
      /\ suRt'.loader = suRt.loader /\ suRt'.lazy_esm_sources = suRt.lazy_esm_sources
      /\ suRt'.sources = [suRt.sources EXCEPT !.js = Tail(@)]
  BY <1>2, <1>3 DEF ExecuteScript, FilesKnown, SameTables, RtFields
<1>6. FilesKnown(suRt')
  BY <1>2, <1>4, <1>5 DEF FilesKnown, SameTables
<1>7. HeapFits(suRt'.heap, suRt.table)
  <2>1. {SuSource(x) : x \in {f}} = {SuSource(f)} /\ {f} \subseteq ToSet(suRt.original_sources)
    BY <1>4
  <2>2. HeapFits(suRt.heap \cup InHeap(suRt, {SuSource(x) : x \in {f}}), suRt.table)
    BY <1>2, <2>1, SourcesFit
  <2> QED BY <1>5, <2>1, <2>2
<1> QED BY <1>1, <1>5, <1>6, <1>7, RtKept DEF SameTables

LEMMA EvaluateEntryPointStep == ASSUME StartupIInv, EvaluateEntryPoint PROVE StartupIInv'
<1>1. Live /\ UNCHANGED <<suPlan, suBlob>>
  BY DEF EvaluateEntryPoint, Live
<1>2. TableFits(suRt) /\ FilesKnown(suRt) /\ HeapFits(suRt.heap, suRt.table)
  BY <1>1 DEF StartupIInv
<1>3. CASE suRt' = suRt
  BY <1>1, <1>3, OtherFields DEF SameTables, SameFiles
<1>4. CASE suRt' # suRt
  <2>1. PICK m, next : /\ m = Head(suRt.sources.esm_entry_points)
                       /\ next = IF StatusOf(suRt, m) = "evaluated" THEN suRt ELSE Evaluated(suRt, m)
    OBVIOUS
  <2>2. suRt' = [next EXCEPT !.sources.esm_entry_points = Tail(@)]
    BY <1>4, <2>1 DEF EvaluateEntryPoint
  <2>3. DOMAIN next = RtFields /\ SameTables(next, suRt) /\ SameFiles(next, suRt) /\ next.heap = suRt.heap
    <3>1. CASE next = suRt
      BY <1>2, <3>1 DEF FilesKnown, SameTables, SameFiles
    <3>2. CASE next = Evaluated(suRt, m)
      BY <1>2, <3>2, EvaluatedKeeps DEF FilesKnown, SameTables
    <3> QED BY <2>1, <3>1, <3>2
  <2>4. /\ SameTables(suRt', suRt) /\ suRt'.heap = suRt.heap /\ suRt'.loader = suRt.loader
        /\ suRt'.lazy_esm_sources = suRt.lazy_esm_sources
        /\ suRt'.sources = [suRt.sources EXCEPT !.esm_entry_points = Tail(@)]
    BY <2>2, <2>3 DEF SameTables, SameFiles, RtFields
  <2>5. FilesKnown(suRt')
    BY <1>2, <2>4 DEF FilesKnown, SameTables
  <2> QED BY <1>1, <1>2, <2>4, <2>5, RtKept DEF SameTables
<1> QED BY <1>3, <1>4

LEMMA FinishExtensionsStep == ASSUME StartupIInv, FinishExtensions PROVE StartupIInv'
<1>1. Live /\ UNCHANGED <<suPlan, suBlob>> /\ suRt' = suRt
  BY DEF FinishExtensions, Live
<1> QED BY <1>1, OtherFields DEF SameTables, SameFiles

LEMMA LazyLoadEsmStep == ASSUME StartupIInv, NEW m, LazyLoadEsm(m) PROVE StartupIInv'
<1>1. Live /\ UNCHANGED <<suPlan, suBlob>>
  BY DEF LazyLoadEsm, Live
<1>2. TableFits(suRt) /\ FilesKnown(suRt) /\ HeapFits(suRt.heap, suRt.table)
  BY <1>1 DEF StartupIInv
<1>3. CASE suRt' = suRt
  BY <1>1, <1>3, OtherFields DEF SameTables, SameFiles
<1>4. CASE suRt' # suRt
  <2>1. PICK taken, reg : taken = [suRt EXCEPT !.lazy_esm_sources = @ \ {m}] /\ reg = Registered(taken, <<m>>)
    OBVIOUS
  <2>2. /\ m \in suRt.lazy_esm_sources
        /\ \/ suRt' = reg
           \/ suRt' = SetStatus(reg, Errored(reg, m), "errored")
           \/ suRt' = Evaluated(reg, m)
    BY <1>4, <2>1 DEF LazyLoadEsm
  <2>3. /\ DOMAIN taken = RtFields /\ SameTables(taken, suRt) /\ taken.heap = suRt.heap
        /\ taken.sources = suRt.sources /\ taken.loader = suRt.loader
        /\ taken.lazy_esm_sources = suRt.lazy_esm_sources \ {m}
    BY <1>2, <2>1 DEF FilesKnown, SameTables, RtFields
  <2>4. /\ SameTables(reg, taken) /\ SameFiles(reg, taken)
        /\ reg.heap = taken.heap \cup InHeap(taken, {SuSource(x) : x \in ToSet(<<m>>)})
    BY <2>1, <2>3, RegisteredKeeps
  <2>5. DOMAIN reg = RtFields
    BY <2>3, <2>4 DEF SameTables
  <2>6. SameTables(suRt', reg) /\ SameFiles(suRt', reg) /\ suRt'.heap = reg.heap
    <3>1. CASE suRt' = reg
      BY <3>1 DEF SameTables, SameFiles
    <3>2. CASE suRt' = SetStatus(reg, Errored(reg, m), "errored")
      BY <2>5, <3>2, SetStatusKeeps
    <3>3. CASE suRt' = Evaluated(reg, m)
      BY <2>5, <3>3, EvaluatedKeeps
    <3> QED BY <2>2, <3>1, <3>2, <3>3
  <2>7. /\ SameTables(suRt', suRt) /\ suRt'.sources = suRt.sources /\ suRt'.loader = suRt.loader
        /\ suRt'.lazy_esm_sources = suRt.lazy_esm_sources \ {m}
        /\ suRt'.heap = suRt.heap \cup InHeap(taken, {SuSource(x) : x \in ToSet(<<m>>)})
    BY <2>3, <2>4, <2>6 DEF SameTables, SameFiles
  <2>8. FilesKnown(suRt')
    BY <1>2, <2>7 DEF FilesKnown, SameTables
  <2>9. ToSet(<<m>>) = {m}
    BY DEF ToSet
  <2>10. ToSet(<<m>>) \subseteq ToSet(suRt.original_sources) /\ taken.table = suRt.table
    BY <1>2, <2>2, <2>3, <2>9 DEF FilesKnown, SameTables
  <2>11. HeapFits(suRt.heap \cup InHeap(taken, {SuSource(x) : x \in ToSet(<<m>>)}), suRt.table)
    BY <1>2, <2>10, SourcesFit
  <2>12. HeapFits(suRt'.heap, suRt.table)
    BY <2>7, <2>11
  <2> QED BY <1>1, <2>7, <2>8, <2>12, RtKept DEF SameTables
<1> QED BY <1>3, <1>4

LEMMA LazyInitStep == ASSUME StartupIInv, NEW args, LazyInitExtensions(args) PROVE StartupIInv'
<1>1. Live /\ UNCHANGED <<suPlan, suBlob>>
  BY DEF LazyInitExtensions, Live
<1>2. DOMAIN suRt = RtFields
  BY <1>1 DEF StartupIInv, FilesKnown
<1>3. PICK x : suRt' = [suRt EXCEPT !.initialised = x]
  BY DEF LazyInitExtensions
<1>4. SameTables(suRt', suRt) /\ SameFiles(suRt', suRt) /\ suRt'.heap = suRt.heap
  BY <1>2, <1>3 DEF SameTables, SameFiles, RtFields
<1> QED BY <1>1, <1>4, OtherFields

(* The rest of a plan. *)
LEMMA RestOfPlan ==
  ASSUME NEW p \in Seq(SuRuntimes), p # <<>>, PlanExtends(p), NEW q, q = Tail(p)
  PROVE  /\ q \in Seq(SuRuntimes) /\ PlanExtends(q)
         /\ \A k \in DOMAIN q : k + 1 \in DOMAIN p /\ 1 < k + 1 /\ q[k] = p[k + 1]
<1>1. /\ q \in Seq(SuRuntimes) /\ Len(q) = Len(p) - 1 /\ DOMAIN q = 1 .. Len(q) /\ DOMAIN p = 1 .. Len(p)
      /\ Len(p) \in Nat
  OBVIOUS
<1>2. \A k \in DOMAIN q : k + 1 \in DOMAIN p /\ 1 < k + 1 /\ q[k] = p[k + 1]
  BY <1>1
<1>3. ASSUME NEW i \in DOMAIN q, NEW k \in DOMAIN q, i < k, q[i].will_snapshot
      PROVE  Extends(q[k], q[i].exts) /\ (q[k].will_snapshot => NoFiles(q[i]))
  <2>1. PICK j, l : j = i + 1 /\ l = k + 1
    OBVIOUS
  <2>2. j \in DOMAIN p /\ l \in DOMAIN p /\ j < l /\ q[i] = p[j] /\ q[k] = p[l]
    BY <1>1, <1>2, <1>3, <2>1
  <2>3. p[j].will_snapshot
    BY <1>3, <2>2
  <2>4. Extends(p[l], p[j].exts) /\ (p[l].will_snapshot => NoFiles(p[j]))
    BY <2>2, <2>3 DEF PlanExtends
  <2> QED BY <2>2, <2>4
<1> QED BY <1>1, <1>2, <1>3 DEF PlanExtends

LEMMA TakeSnapshotStep == ASSUME StartupIInv, TakeSnapshot PROVE StartupIInv'
<1>1. Live /\ SuOptions.will_snapshot /\ suPc' = "start" /\ suPlan' = Tail(suPlan)
  BY DEF TakeSnapshot, Live
<1>2. TableFits(suRt) /\ HeapFits(suRt.heap, suRt.table) /\ suPlan # <<>>
  BY <1>1 DEF StartupIInv, TableFits
<1>3. PICK exts, orig, heap, ctxs : exts = suRt.exts /\ orig = suRt.original_sources /\ heap = suRt.heap /\ ctxs = suRt.ctxs
  OBVIOUS
<1>4. /\ suBlob'.taken = TRUE /\ suBlob'.exts = exts /\ suBlob'.external_strings = orig /\ suBlob'.heap = heap
      /\ suBlob'.op_count = Len(ctxs) /\ suBlob'.source_count = Len(orig)
  BY <1>3 DEF TakeSnapshot
<1>5. /\ exts \in Seq(DOMAIN SuDecl) /\ exts = SuOptions.exts /\ orig \in Seq(SuNames)
      /\ ctxs = create_op_ctxs(exts) /\ (NoFiles(SuOptions) => orig = <<>>)
  BY <1>2, <1>3, OptionsType DEF TableFits
<1>6. HeapFits(heap, Stored(exts, orig))
  <2>1. PICK p, t, c : p = Stored(exts, orig) /\ t = suRt.table /\ c = SuFn("callsite_fns")
    OBVIOUS
  <2>2. t = p \o <<c>>
    BY <1>1, <1>2, <1>3, <2>1 DEF TableFits
  <2>3. p \in Seq(Entities) /\ c \in Entities
    <3>1. PICK z : z = <<>>
      OBVIOUS
    <3>0. z \in Seq(SuNames)
      BY <3>1
    <3>2. exts \in Seq(DOMAIN SuDecl) /\ orig \in Seq(SuNames)
      BY <1>5
    <3>3. LET u == Table(Collect(exts, "refs"), create_op_ctxs(exts), orig, z, z)
              q == Stored(exts, orig)
          IN q \in Seq(Entities) /\ Len(q) <= Len(u) /\ \A i \in 1 .. Len(q) : u[i] = q[i]
      BY <3>0, <3>2, TableBegins
    <3> QED BY <2>1, <3>3 DEF Entities
  <2>4. c \notin OpsAndSources
    BY <2>1 DEF OpsAndSources, SuFn, SuOp, SuSource
  <2>5. Len(t) = Len(p) + 1 /\ t[Len(p) + 1] = c /\ (\A i \in 1 .. Len(p) : t[i] = p[i]) /\ Len(p) \in Nat
    BY <2>2, <2>3
  <2>6. ASSUME NEW ref \in heap
        PROVE  ref[1] \in OpsAndSources /\ ref[2] \in 1 .. Len(p) /\ p[ref[2]] = ref[1]
    <3>1. ref[1] \in OpsAndSources /\ ref[2] \in 1 .. Len(t) /\ t[ref[2]] = ref[1]
      BY <1>2, <1>3, <2>1 DEF HeapFits
    <3>2. ref[2] # Len(p) + 1
      BY <2>4, <2>5, <3>1
    <3>3. ref[2] \in 1 .. Len(p)
      BY <2>5, <3>1, <3>2
    <3> QED BY <2>5, <3>1, <3>3
  <2> QED BY <2>1, <2>6 DEF HeapFits
<1>7. BlobFits'
  BY <1>4, <1>5, <1>6 DEF BlobFits
<1>8. suPlan \in Seq(SuRuntimes) /\ PlanExtends(suPlan)
  BY DEF StartupIInv, PlanFollows
<1>9. PICK q : q = Tail(suPlan)
  OBVIOUS
<1>10. /\ q \in Seq(SuRuntimes) /\ PlanExtends(q)
       /\ \A k \in DOMAIN q : k + 1 \in DOMAIN suPlan /\ 1 < k + 1 /\ q[k] = suPlan[k + 1]
  BY <1>2, <1>8, <1>9, RestOfPlan
<1>11. ASSUME NEW k \in DOMAIN q PROVE Extends(q[k], exts) /\ (q[k].will_snapshot => orig = <<>>)
  <2>1. PICK j : j \in DOMAIN suPlan /\ 1 < j /\ q[k] = suPlan[j]
    BY <1>10
  <2>2. 1 \in DOMAIN suPlan
    BY <1>2, <1>8
  <2>3. Extends(suPlan[j], suPlan[1].exts) /\ (suPlan[j].will_snapshot => NoFiles(suPlan[1]))
    BY <1>1, <1>8, <2>1, <2>2 DEF PlanExtends, SuOptions
  <2> QED BY <1>5, <2>1, <2>3 DEF SuOptions
<1>12. PlanFollows'
  BY <1>1, <1>4, <1>9, <1>10, <1>11 DEF PlanFollows, PlanExtends, Extends, NoFiles
<1> QED BY <1>1, <1>4, <1>7, <1>12 DEF StartupIInv, Live

LEMMA DropRuntimeStep == ASSUME StartupIInv, DropRuntime PROVE StartupIInv'
<1>1. suPc' = "start" /\ suPlan # <<>> /\ suBlob' = suBlob
  BY DEF DropRuntime, StartupIInv
<1>2. suPlan \in Seq(SuRuntimes) /\ PlanExtends(suPlan)
  BY DEF StartupIInv, PlanFollows
<1>3. PICK q : q = Tail(suPlan)
  OBVIOUS
<1>4. /\ q \in Seq(SuRuntimes) /\ PlanExtends(q)
      /\ \A k \in DOMAIN q : k + 1 \in DOMAIN suPlan /\ 1 < k + 1 /\ q[k] = suPlan[k + 1]
  BY <1>1, <1>2, <1>3, RestOfPlan
<1>5. suPlan' = q \/ suPlan' = <<>>
  BY <1>3 DEF DropRuntime
<1>6. (suBlob = NoBlob \/ (suBlob.taken = TRUE /\ BlobFits))'
  BY <1>1 DEF StartupIInv, BlobFits
<1>7. CASE suPlan' = q
  <2>1. ASSUME FromSnapshot, NEW k \in DOMAIN q
        PROVE  Extends(q[k], suBlob.exts) /\ (q[k].will_snapshot => suBlob.external_strings = <<>>)
    <3>1. PICK j : j \in DOMAIN suPlan /\ q[k] = suPlan[j]
      BY <1>4
    <3>2. Extends(suPlan[j], suBlob.exts) /\ (suPlan[j].will_snapshot => suBlob.external_strings = <<>>)
      BY <2>1, <3>1 DEF StartupIInv, PlanFollows
    <3> QED BY <3>1, <3>2
  <2>2. PlanFollows'
    BY <1>1, <1>4, <1>7, <2>1 DEF PlanFollows, FromSnapshot
  <2> QED BY <1>1, <1>6, <2>2 DEF StartupIInv, Live
<1>8. CASE suPlan' = <<>>
  <2>1. PlanFollows'
    BY <1>8 DEF PlanFollows, PlanExtends
  <2> QED BY <1>1, <1>6, <2>1 DEF StartupIInv, Live
<1> QED BY <1>5, <1>7, <1>8

LEMMA StartupStep == StartupIInv /\ [StartupNext]_suVars => StartupIInv'
<1> SUFFICES ASSUME StartupIInv, [StartupNext]_suVars PROVE StartupIInv'
  OBVIOUS
<1>1. CASE UNCHANGED suVars
  BY <1>1 DEF suVars, StartupIInv, PlanFollows, FromSnapshot, BlobFits, Live, TableFits, SuOptions
<1>2. ASSUME NEW m \in LazyModules, LazyLoadEsm(m) PROVE StartupIInv'
  BY <1>2, LazyLoadEsmStep
<1>3. ASSUME NEW args \in SuArguments, LazyInitExtensions(args) PROVE StartupIInv'
  BY <1>3, LazyInitStep
<1>4. CASE ProcessEnds
  BY <1>1, <1>4 DEF ProcessEnds
<1> QED BY <1>1, <1>2, <1>3, <1>4, CreateIsolateStep, BindOpsStep, RestoreSnapshotStep, ExecuteBuiltinsStep,
           AddLazySourcesStep, LoadSideModuleStep, ExecuteScriptStep, EvaluateEntryPointStep,
           FinishExtensionsStep, TakeSnapshotStep, DropRuntimeStep DEF StartupNext

(* Every op context and source string in the heap of a runtime is at its   *)
(* own place of the table of external references, also when the heap comes *)
(* from a snapshot and the table was rebuilt with more extensions: for any *)
(* extensions and any plan whose runtimes extend the snapshot they start   *)
(* from at the end, without classes or references, and whose snapshots     *)
(* have no files where another is taken atop them.                         *)
THEOREM ReferencesDoLineUp ==
  ASSUME \A p \in SuPlans : PlanExtends(p)
  PROVE  StartupSpec => []ReferencesLineUp
<1>1. StartupInit => StartupIInv
  <2> SUFFICES ASSUME StartupInit PROVE StartupIInv
    OBVIOUS
  <2>1. suPlan \in Seq(SuRuntimes) /\ PlanExtends(suPlan) /\ suBlob = NoBlob /\ suPc = "start"
    BY StartupAssumption DEF StartupInit
  <2>2. ~FromSnapshot
    BY <2>1 DEF FromSnapshot, NoBlob
  <2> QED BY <2>1, <2>2 DEF StartupIInv, PlanFollows, Live
<1>2. StartupIInv => ReferencesLineUp
  <2> SUFFICES ASSUME StartupIInv, Live, NEW ref \in suRt.heap
               PROVE  ref[2] \in DOMAIN suRt.table /\ suRt.table[ref[2]] = ref[1]
    BY DEF ReferencesLineUp, Live
  <2>1. suRt.table \in Seq(Entities) /\ HeapFits(suRt.heap, suRt.table)
    BY DEF StartupIInv, TableFits
  <2>2. DOMAIN suRt.table = 1 .. Len(suRt.table)
    BY <2>1
  <2> QED BY <2>1, <2>2 DEF HeapFits
<1> QED BY <1>1, <1>2, StartupStep, PTL DEF StartupSpec
=============================================================================
