---------------------- MODULE ProfessionalAccessProofs ----------------------
(* Theorems about ProfessionalAccess, for every number of workspaces,      *)
(* devices, bindings and queries.                                          *)
EXTENDS ProfessionalAccess, TLAPS

-----------------------------------------------------------------------------
(* The inductive invariant.  TypeOK says nothing of the word; the word is  *)
(* kept by the one live binding of the pair, and that there is only one    *)
(* holds as long as nobody touches a deleted binding.                      *)

GrantOf(b) == IF bindings[b].status = "bound" THEN bindings[b].scopes ELSE {}

WordKept(p) == /\ \A b, c \in Live(p) : b = c
               /\ \A b \in Live(p) : word[p] = GrantOf(b)
               /\ Live(p) = {} => word[p] = {}

Known == \A b \in BindingIds :
           IF b <= bindingSeq THEN bindings[b].pair \in Pairs /\ bindings[b].status # "none"
                              ELSE bindings[b].pair = NoTarget /\ bindings[b].status = "none"

Asking == \A q \in Queries : stage[q] # "idle" => target[q] \in [pair : Pairs, scope : Scopes]

WordsKept == \A p \in Pairs : Undisturbed(p) => WordKept(p)

Inv == TypeOK /\ Known /\ Asking /\ WordsKept

USE BindingsAssumption, GrantsAssumption, SpokenAssumption, TargetAssumption

-----------------------------------------------------------------------------
(* Types.                                                                  *)

\* No binding, no record and no query: the gateway has just started.
LEMMA InitTyped == Init => TypeOK /\ Known /\ Asking /\ WordsKept
  BY DEF Init, TypeOK, Known, Asking, WordsKept, WordKept, Undisturbed, Live, Of, NoBinding,
         Binding, Pairs, BindingIds

\* createWorkspaceDeviceBinding keeps the types and numbers bindings in order.
LEMMA BindTyped ==
  ASSUME TypeOK, Known, NEW p \in Pairs, NEW scopes \in Grants, Bind(p, scopes)
  PROVE  TypeOK' /\ Known'
  <1> DEFINE B == Binding(p, "bound", scopes)
  <1>1. PICK b \in BindingIds : /\ bindings' = [bindings EXCEPT ![b] = B]
                                /\ \/ bindingSeq' = bindingSeq /\ bindings[b].pair = p
                                   \/ bindingSeq' = bindingSeq + 1 /\ b = bindingSeq + 1
    BY DEF Bind, Live, Of, BindingIds, TypeOK
  <1>2. B \in [pair : Pairs \cup {NoTarget}, status : {"none", "bound", "revoked", "deleted"},
               scopes : SUBSET Scopes]
    BY DEF Binding
  <1>3. B.pair \in Pairs /\ B.status # "none" /\ NoTarget \notin Pairs
    BY DEF Binding, Pairs
  <1> HIDE DEF B
  <1>4. \A c \in BindingIds : bindings'[c] = IF c = b THEN B ELSE bindings[c]
    BY <1>1 DEF TypeOK
  <1>5. bindingSeq' \in 0..MaxBindings
    BY <1>1 DEF TypeOK, BindingIds
  <1>6. TypeOK'
    BY <1>1, <1>2, <1>5 DEF TypeOK, Bind, queries
  <1>7. b <= bindingSeq'
    BY <1>1, <1>3 DEF Known, TypeOK, BindingIds
  <1>8. Known'
    BY <1>1, <1>3, <1>4, <1>7 DEF Known, TypeOK, BindingIds
  <1> QED BY <1>6, <1>8

\* applyWorkspaceDeviceBindingAction keeps the types and makes no binding.
LEMMA ManageTyped ==
  ASSUME TypeOK, Known, NEW b \in BindingIds, NEW status \in {"bound", "revoked", "deleted"},
         Manage(b, status)
  PROVE  TypeOK' /\ Known'
  BY DEF TypeOK, Known, Manage, Binding, BindingIds, queries

\* A query leaves the bindings alone and keeps the types of the records.
LEMMA QueryTyped ==
  ASSUME TypeOK, Known, Asking, NEW q \in Queries,
         \/ QueryStep(q) \/ Abort(q) \/ \E p \in Pairs, s \in Scopes : Start(q, p, s)
  PROVE  TypeOK' /\ Known' /\ Asking' /\ UNCHANGED registry
  <1>1. CASE Decide(q)
    BY <1>1 DEF TypeOK, Known, Asking, Decide, GoTo, registry
  <1>2. CASE Refuse(q) \/ Settle(q) \/ Answer(q) \/ \E outcome \in {"answered", "erred"} : Return(q, outcome)
    BY <1>2 DEF TypeOK, Known, Asking, Refuse, Settle, Answer, Return, GoTo, Record, registry
  <1>3. CASE Abort(q)
    BY <1>3 DEF TypeOK, Known, Asking, Abort, registry
  <1>4. CASE \E p \in Pairs, s \in Scopes : Start(q, p, s)
    BY <1>4 DEF TypeOK, Known, Asking, Start, GoTo, Record, Target, registry
  <1> QED BY <1>1, <1>2, <1>3, <1>4 DEF QueryStep

-----------------------------------------------------------------------------
(* The word on a pair.                                                     *)

\* What the word on p rests on: the bindings of p, and their deletion and resurrection.
LEMMA WordStays ==
  ASSUME NEW p \in Pairs, WordKept(p), word'[p] = word[p],
         \A b \in BindingIds : b \in Of(p) \/ b \in Of(p)' => bindings'[b] = bindings[b]
  PROVE  WordKept(p)'
  BY DEF WordKept, Live, Of, GrantOf

\* Granting anew refreshes the one live binding or makes the first one.
LEMMA BindKeepsWord ==
  ASSUME TypeOK, Known, WordsKept, NEW p \in Pairs, NEW scopes \in Grants, Bind(p, scopes)
  PROVE  WordsKept'
  <1> SUFFICES ASSUME NEW r \in Pairs, Undisturbed(r)' PROVE WordKept(r)'
    BY DEF WordsKept
  <1>1. PICK b \in BindingIds : /\ bindings' = [bindings EXCEPT ![b] = Binding(p, "bound", scopes)]
                                /\ b \in Live(p) \/ (Live(p) = {} /\ b = bindingSeq + 1)
    BY DEF Bind, Live, Of, BindingIds, TypeOK
  <1>2. raised' = raised /\ word' = [word EXCEPT ![p] = scopes]
    BY DEF Bind
  <1>3. bindings[b].pair \in {p, NoTarget}
    BY <1>1 DEF Live, Of, Known, BindingIds, TypeOK
  <1>9. r # NoTarget
    BY DEF Pairs
  <1>4. \A c \in BindingIds : bindings'[c] = IF c = b THEN Binding(p, "bound", scopes) ELSE bindings[c]
    BY <1>1 DEF TypeOK
  <1>5. Undisturbed(r)
    BY <1>2, <1>3, <1>4, <1>9 DEF Undisturbed, Of, Binding
  <1>6. WordKept(r)
    BY <1>5 DEF WordsKept
  <1>7. CASE r # p
    <2>1. word'[r] = word[r]
      BY <1>2, <1>7 DEF TypeOK
    <2>2. \A c \in BindingIds : c \in Of(r) \/ c \in Of(r)' => bindings'[c] = bindings[c]
      BY <1>3, <1>4, <1>7, <1>9 DEF Of, Binding
    <2> QED BY <1>6, <2>1, <2>2, WordStays
  <1>8. CASE r = p
    <2>1. \A c \in BindingIds : c \in Live(p) => c = b
      BY <1>1, <1>6, <1>8 DEF WordKept
    <2>2. \A c \in BindingIds : c \in Live(p)' <=> c = b
      BY <1>4, <2>1 DEF Live, Of, Binding
    <2>3. word'[p] = GrantOf(b)'
      BY <1>2, <1>4 DEF GrantOf, Binding, TypeOK
    <2>4. b \in Live(p)' /\ Live(p)' \subseteq BindingIds
      BY <2>2 DEF Live, Of
    <2> QED BY <1>8, <2>2, <2>3, <2>4 DEF WordKept
  <1> QED BY <1>7, <1>8

\* Revoking, restoring or deleting a live binding is the last word; touching a
\* deleted one raises it and leaves the pair out of account.
LEMMA ManageKeepsWord ==
  ASSUME TypeOK, Known, WordsKept, NEW b \in BindingIds,
         NEW status \in {"bound", "revoked", "deleted"}, Manage(b, status)
  PROVE  WordsKept'
  <1> SUFFICES ASSUME NEW r \in Pairs, Undisturbed(r)' PROVE WordKept(r)'
    BY DEF WordsKept
  <1> DEFINE p == bindings[b].pair
  <1>1. p \in Pairs /\ bindings[b].status # "none"
    BY DEF Manage, Known
  <1>2. \A c \in BindingIds :
          bindings'[c] = IF c = b THEN Binding(p, status, bindings[b].scopes) ELSE bindings[c]
    BY DEF Manage, TypeOK
  <1>3. \A c \in BindingIds : bindings'[c].pair = bindings[c].pair
    BY <1>2 DEF Binding
  <1>4. raised \subseteq raised'
    BY DEF Manage
  <1>5. Undisturbed(r)
    BY <1>3, <1>4 DEF Undisturbed, Of
  <1>6. WordKept(r)
    BY <1>5 DEF WordsKept
  <1>7. CASE r # p
    <2>1. word'[r] = word[r]
      BY <1>7 DEF Manage, TypeOK
    <2>2. \A c \in BindingIds : c \in Of(r) \/ c \in Of(r)' => bindings'[c] = bindings[c]
      BY <1>2, <1>3, <1>7 DEF Of
    <2> QED BY <1>6, <2>1, <2>2, WordStays
  <1>8. CASE r = p /\ bindings[b].status = "deleted"
    <2>1. b \in Of(r)'
      BY <1>3, <1>8 DEF Of
    <2>2. status = "deleted"
      BY <1>8, <2>1 DEF Manage, Undisturbed
    <2>3. bindings'[b].status = "deleted"
      BY <1>2, <2>2 DEF Binding
    <2>4. \A c \in BindingIds : bindings'[c].status = bindings[c].status /\ bindings'[c].scopes = bindings[c].scopes
      BY <1>2, <1>8, <2>3 DEF Binding
    <2>5. Live(r)' = Live(r) /\ word'[r] = word[r] /\ Live(r) \subseteq BindingIds
      BY <1>3, <1>8, <2>4 DEF Live, Of, Manage
    <2>6. \A c \in BindingIds : GrantOf(c)' = GrantOf(c)
      BY <2>4 DEF GrantOf
    <2> QED BY <1>6, <2>5, <2>6 DEF WordKept
  <1>9. CASE r = p /\ bindings[b].status # "deleted"
    <2>1. b \in Live(r)
      BY <1>9 DEF Live, Of
    <2>2. \A c \in BindingIds : c \in Live(r) => c = b
      BY <1>6, <2>1 DEF WordKept
    <2>3. \A c \in BindingIds : c \in Live(r)' <=> c = b /\ status # "deleted"
      BY <1>2, <1>3, <2>1, <2>2 DEF Live, Of, Binding
    <2>4. word' = [word EXCEPT ![p] = IF status = "bound" THEN bindings[b].scopes ELSE {}]
      BY <1>9 DEF Manage
    <2>5. word'[r] = IF status = "bound" THEN bindings[b].scopes ELSE {}
      BY <1>9, <2>4 DEF TypeOK
    <2>6. word'[r] = GrantOf(b)'
      BY <1>2, <2>5 DEF GrantOf, Binding
    <2>7. status = "deleted" => word'[r] = {}
      BY <2>5
    <2>8. Live(r)' \subseteq BindingIds
      BY DEF Live, Of
    <2> QED BY <2>3, <2>6, <2>7, <2>8 DEF WordKept
  <1> QED BY <1>7, <1>8, <1>9

-----------------------------------------------------------------------------
\* The invariant is inductive.
LEMMA InvInductive == Inv /\ [Next]_vars => Inv'
  <1> SUFFICES ASSUME Inv, [Next]_vars PROVE Inv'
    OBVIOUS
  <1>0. TypeOK /\ Known /\ Asking /\ WordsKept
    BY DEF Inv
  <1>1. ASSUME NEW p \in Pairs, NEW scopes \in Grants, Bind(p, scopes) PROVE Inv'
    <2>1. Asking'
      BY <1>0, <1>1 DEF Asking, Bind, queries
    <2> QED BY <1>0, <1>1, <2>1, BindTyped, BindKeepsWord DEF Inv
  <1>2. ASSUME NEW b \in BindingIds, NEW status \in {"bound", "revoked", "deleted"},
               Manage(b, status)
        PROVE  Inv'
    <2>1. Asking'
      BY <1>0, <1>2 DEF Asking, Manage, queries
    <2> QED BY <1>0, <1>2, <2>1, ManageTyped, ManageKeepsWord DEF Inv
  <1>3. ASSUME UNCHANGED registry PROVE WordsKept'
    BY <1>0, <1>3 DEF WordsKept, WordKept, Undisturbed, Live, Of, GrantOf, registry
  <1>4. ASSUME NEW q \in Queries,
               \/ QueryStep(q) \/ Abort(q) \/ \E p \in Pairs, s \in Scopes : Start(q, p, s)
        PROVE  Inv'
    BY <1>0, <1>3, <1>4, QueryTyped DEF Inv
  <1>5. CASE UNCHANGED vars
    BY <1>0, <1>3, <1>5 DEF Inv, TypeOK, Known, Asking, vars, registry, queries
  <1> QED BY <1>1, <1>2, <1>4, <1>5 DEF Next

\* Every reachable state satisfies the inductive invariant.
LEMMA InvAlways == Spec => []Inv
  <1>1. Init => Inv
    BY InitTyped DEF Inv
  <1> QED BY <1>1, InvInductive, PTL DEF Spec

\* Bindings, records, queries and history variables keep their types.
THEOREM AccessTyped == Spec => []TypeOK
  <1>1. Inv => TypeOK
    BY DEF Inv
  <1> QED BY <1>1, InvAlways, PTL

-----------------------------------------------------------------------------
(* What professionalDeviceBindingDecision decides.                         *)

\* Only the decision takes a query on from its record.
LEMMA OnlyDecide ==
  ASSUME TypeOK, [Next]_vars, NEW q \in Queries, stage[q] = "recorded", stage'[q] # "recorded"
  PROVE  Decide(q)
  <1>1. ASSUME NEW r \in Queries, QueryStep(r) PROVE Decide(q)
    <2>1. \E there : GoTo(r, there)
      BY <1>1 DEF QueryStep, Decide, Refuse, Settle, Answer, Return
    <2>2. r = q
      BY <2>1 DEF GoTo, TypeOK
    <2>3. ~Refuse(q) /\ ~Settle(q) /\ ~Answer(q) /\ \A outcome : ~Return(q, outcome)
      BY DEF Refuse, Settle, Answer, Return
    <2> QED BY <1>1, <2>2, <2>3 DEF QueryStep
  <1>2. ASSUME NEW r \in Queries, NEW p \in Pairs, NEW s \in Scopes, Start(r, p, s) PROVE FALSE
    <2>1. stage[r] = "idle" /\ stage' = [stage EXCEPT ![r] = "recorded"]
      BY <1>2 DEF Start, GoTo
    <2> QED BY <2>1 DEF TypeOK
  <1>3. stage' # stage
    OBVIOUS
  <1>4. ASSUME NEW r \in Queries, Abort(r) PROVE FALSE
    BY <1>3, <1>4 DEF Abort
  <1>5. ASSUME NEW p \in Pairs, NEW scopes \in Grants, Bind(p, scopes) PROVE FALSE
    BY <1>3, <1>5 DEF Bind, queries
  <1>6. ASSUME NEW b \in BindingIds, NEW status \in {"bound", "revoked", "deleted"},
               Manage(b, status)
        PROVE  FALSE
    BY <1>3, <1>6 DEF Manage, queries
  <1> QED BY <1>1, <1>2, <1>3, <1>4, <1>5, <1>6 DEF Next, vars, queries

\* The decision on a pair whose deleted bindings nobody touched is the last word on it.
LEMMA DecisionRight ==
  ASSUME Inv, NEW q \in Queries, Decide(q), Undisturbed(target[q].pair)
  PROVE  LET granted == target[q].scope \in word[target[q].pair]
         IN  /\ stage'[q] = "asked" => Open(q) \/ granted
             /\ stage'[q] = "refused" /\ granted =>
                  \E b \in Deciding(q) : bindings[b].status = "deleted"
  <1> DEFINE p == target[q].pair
             s == target[q].scope
  <1>0. TypeOK /\ Known /\ Asking /\ WordsKept
    BY DEF Inv
  <1>1. p \in Pairs /\ s \in Scopes
    BY <1>0 DEF Decide, Asking
  <1>2. WordKept(p)
    BY <1>0, <1>1 DEF WordsKept
  <1>3. ASSUME NEW b \in Of(p), bindings[b].status # "deleted"
        PROVE  Allows(b, q) <=> s \in word[p]
    <2>1. b \in Live(p)
      BY <1>3 DEF Live
    <2>2. word[p] = GrantOf(b)
      BY <1>2, <2>1 DEF WordKept
    <2> QED BY <2>2 DEF GrantOf, Allows
  <1>4. \A b \in Of(p) : Allows(b, q) => bindings[b].status # "deleted"
    BY DEF Allows
  <1>5. Of(p) = {} => word[p] = {}
    BY <1>2 DEF WordKept, Live
  <1>6. \/ Open(q) /\ stage'[q] = "asked"
        \/ \E b \in Of(p) : stage'[q] = IF Allows(b, q) THEN "asked" ELSE "refused"
        \/ Of(p) = {} /\ stage'[q] = "refused"
    BY <1>0 DEF Decide, GoTo, Deciding, TypeOK
  <1> QED BY <1>3, <1>4, <1>5, <1>6 DEF Deciding

\* What was revoked, deleted or not granted is refused, and what was granted is
\* refused only for an older, deleted binding of the pair.
THEOREM LastWordDecides == Spec => DecisionFollows
  <1>1. ASSUME Inv, [Next]_vars
        PROVE  [\A q \in Queries :
                  stage[q] = "recorded" /\ stage'[q] # "recorded" /\ Undisturbed(target[q].pair) =>
                    LET granted == target[q].scope \in word[target[q].pair]
                    IN  /\ stage'[q] = "asked" => Open(q) \/ granted
                        /\ stage'[q] = "refused" /\ granted =>
                             \E b \in Deciding(q) : bindings[b].status = "deleted"]_vars
    <2>1. TypeOK
      BY <1>1 DEF Inv
    <2> QED BY <1>1, <2>1, OnlyDecide, DecisionRight
  <1> QED BY <1>1, InvAlways, PTL DEF Spec, DecisionFollows
=============================================================================
