------------------------- MODULE ProfessionalAccess -------------------------
(***************************************************************************)
(* Who may ask the professional system, and what the read ledger says of   *)
(* it: workspaceDeviceBindings, professionalReadRecords and the two        *)
(* callers of v21.Query (internal/gateway/server.go).                      *)
(*                                                                         *)
(* A workspace stands for a user and a workspace, and is whatever the      *)
(* caller selected; a query is known by its read record, whose failure     *)
(* code "suppressed" is set apart from the other failures.  The fields     *)
(* ProfessionalAllowed and AccessScope, which follow Status, and labels,   *)
(* traces and times are left out.  A device without a valid id is one that *)
(* nobody binds.  word and raised are history variables.                   *)
(***************************************************************************)
EXTENDS Naturals

CONSTANTS
  Workspaces, Devices,
  Scopes,       \* query scopes
  Grants,       \* the sets of scopes a binding may be given
  NoTarget,
  Queries,
  Spoken,       \* the queries of spoken turns, which may be aborted
  MaxBindings   \* bound: device bindings

ASSUME BindingsAssumption == MaxBindings \in Nat
ASSUME GrantsAssumption   == Grants \subseteq SUBSET Scopes
ASSUME SpokenAssumption   == Spoken \subseteq Queries
ASSUME TargetAssumption   == NoTarget \notin Workspaces \X Devices

Pairs      == Workspaces \X Devices
BindingIds == 1..MaxBindings

VARIABLES
  bindings, bindingSeq,   \* workspaceDeviceBindings, workspaceDeviceBindingSeq
  records,                \* professionalReadRecords, by the query that started each
  stage,                  \* where each query is
  target,                 \* what it asks: a workspace and device, and a scope
  aborted,                \* the spoken turns that were aborted
  answers,                \* the queries whose caller was given V21's answer
  word,                   \* the scopes last granted to a pair and not withdrawn
  raised                  \* the bindings that were deleted and then touched again

registry == <<bindings, bindingSeq, word, raised>>
queries  == <<records, stage, target, aborted, answers>>
vars     == <<registry, queries>>

Binding(p, status, scopes) == [pair |-> p, status |-> status, scopes |-> scopes]
NoBinding == Binding(NoTarget, "none", {})
Target(p, s) == [pair |-> p, scope |-> s]

Init ==
  /\ bindings = [b \in BindingIds |-> NoBinding]
  /\ bindingSeq = 0
  /\ records = [q \in Queries |-> "none"]
  /\ stage = [q \in Queries |-> "idle"]
  /\ target = [q \in Queries |-> NoTarget]
  /\ aborted = {} /\ answers = {}
  /\ word = [p \in Pairs |-> {}]
  /\ raised = {}

-----------------------------------------------------------------------------
(* Device bindings.  Each handler is one critical section of s.mu.         *)

Of(p)   == {b \in BindingIds : bindings[b].pair = p}
Live(p) == {b \in Of(p) : bindings[b].status # "deleted"}
Configured(w) == \E b \in BindingIds, d \in Devices : bindings[b].pair = <<w, d>>

\* mutant of Bind: a revoked binding is not taken for an existing one
BindBesideRevoked(p, scopes) ==
  /\ IF \E b \in Live(p) : bindings[b].status = "bound"
     THEN \E b \in Live(p) : /\ bindings' = [bindings EXCEPT ![b] = Binding(p, "bound", scopes)]
                             /\ UNCHANGED bindingSeq
     ELSE /\ bindingSeq < MaxBindings
          /\ bindingSeq' = bindingSeq + 1
          /\ bindings' = [bindings EXCEPT ![bindingSeq + 1] = Binding(p, "bound", scopes)]
  /\ word' = [word EXCEPT ![p] = scopes]
  /\ UNCHANGED <<raised, queries>>

\* createWorkspaceDeviceBinding: the first live binding of the pair in the
\* map's order is refreshed; a deleted one is not used again
Bind(p, scopes) ==
  /\ IF Live(p) # {}
     THEN \E b \in Live(p) : /\ bindings' = [bindings EXCEPT ![b] = Binding(p, "bound", scopes)]
                             /\ UNCHANGED bindingSeq
     ELSE /\ bindingSeq < MaxBindings
          /\ bindingSeq' = bindingSeq + 1
          /\ bindings' = [bindings EXCEPT ![bindingSeq + 1] = Binding(p, "bound", scopes)]
  /\ word' = [word EXCEPT ![p] = scopes]
  /\ UNCHANGED <<raised, queries>>

\* mutant of Manage: the name of the action is stored as the status
ManageByName(b, status) ==
  LET binding == bindings[b]
      verb    == IF status = "bound" THEN "restored" ELSE status
  IN  /\ binding.status # "none"
      /\ bindings' = [bindings EXCEPT ![b] = Binding(binding.pair, verb, binding.scopes)]
      /\ UNCHANGED <<bindingSeq, word, raised, queries>>

\* applyWorkspaceDeviceBindingAction: revoke, restore and delete; by its id any
\* binding can be named, a deleted one too, by its device only a live one
Manage(b, status) ==
  LET binding == bindings[b]
  IN  /\ binding.status # "none"
      /\ bindings' = [bindings EXCEPT ![b] = Binding(binding.pair, status, binding.scopes)]
      /\ IF binding.status = "deleted"
         THEN /\ raised' = IF status = "deleted" THEN raised ELSE raised \cup {b}
              /\ UNCHANGED word
         ELSE /\ word' = [word EXCEPT ![binding.pair] =
                            IF status = "bound" THEN binding.scopes ELSE {}]
              /\ UNCHANGED raised
      /\ UNCHANGED <<bindingSeq, queries>>

-----------------------------------------------------------------------------
(* Queries: executeProfessionalQuery and writeXiaozhiProfessionalTTS.      *)

GoTo(q, there) == stage' = [stage EXCEPT ![q] = there]
Record(q, status) == records' = [records EXCEPT ![q] = status]

\* startProfessionalReadRecord
Start(q, p, s) ==
  /\ stage[q] = "idle"
  /\ GoTo(q, "recorded") /\ Record(q, "started")
  /\ target' = [target EXCEPT ![q] = Target(p, s)]
  /\ UNCHANGED <<registry, aborted, answers>>

\* the bindings the decision may come upon first, in the map's order
Deciding(q) == Of(target[q].pair)
Open(q) == ~Configured(target[q].pair[1])
Allows(b, q) == bindings[b].status = "bound" /\ target[q].scope \in bindings[b].scopes

\* professionalDeviceBindingDecision, and v21.query.start
Decide(q) ==
  /\ stage[q] = "recorded"
  /\ \/ Open(q) /\ GoTo(q, "asked")
     \/ \E b \in Deciding(q) : GoTo(q, IF Allows(b, q) THEN "asked" ELSE "refused")
     \/ ~Open(q) /\ Deciding(q) = {} /\ GoTo(q, "refused")
  /\ UNCHANGED <<registry, records, target, aborted, answers>>

\* failProfessionalReadRecord, device_unbound and the like
Refuse(q) ==
  /\ stage[q] = "refused"
  /\ Record(q, "failed") /\ GoTo(q, "done")
  /\ UNCHANGED <<registry, target, aborted, answers>>

\* v21.Query returns an answer, or an error, which an abort or the timeout brings
\* about too; an answer that does not fit the contract is an error
Return(q, outcome) ==
  /\ stage[q] = "asked"
  /\ GoTo(q, outcome)
  /\ UNCHANGED <<registry, records, target, aborted, answers>>

\* mutant of Settle: the result of an aborted turn is dropped before the ledger is told
SettleSuppressed(q) ==
  /\ stage[q] \in {"answered", "erred"}
  /\ IF q \in aborted
     THEN GoTo(q, "done") /\ UNCHANGED records
     ELSE IF stage[q] = "answered" THEN GoTo(q, "completed") /\ Record(q, "completed")
                                   ELSE GoTo(q, "done") /\ Record(q, "failed")
  /\ UNCHANGED <<registry, target, aborted, answers>>

\* the ledger is told; the result of an aborted turn is suppressed
Settle(q) ==
  /\ stage[q] \in {"answered", "erred"}
  /\ IF stage[q] = "answered" /\ q \notin aborted
     THEN GoTo(q, "completed") /\ Record(q, "completed")
     ELSE GoTo(q, "done") /\ Record(q, IF q \in aborted THEN "suppressed" ELSE "failed")
  /\ UNCHANGED <<registry, target, aborted, answers>>

\* the page is answered; a turn only if it still may speak
Answer(q) ==
  /\ stage[q] = "completed" /\ GoTo(q, "done")
  /\ answers' = IF q \in aborted THEN answers ELSE answers \cup {q}
  /\ UNCHANGED <<registry, records, target, aborted>>

\* the turn of a spoken query is taken over or stopped, at any time
Abort(q) ==
  /\ q \in Spoken \ aborted
  /\ aborted' = aborted \cup {q}
  /\ UNCHANGED <<registry, records, stage, target, answers>>

-----------------------------------------------------------------------------
QueryStep(q) == \/ Decide(q) \/ Refuse(q) \/ Settle(q) \/ Answer(q)
                \/ \E outcome \in {"answered", "erred"} : Return(q, outcome)

Next ==
  \/ \E p \in Pairs, scopes \in Grants : Bind(p, scopes)
  \/ \E b \in BindingIds, status \in {"bound", "revoked", "deleted"} : Manage(b, status)
  \/ \E q \in Queries : QueryStep(q) \/ Abort(q)
                        \/ \E p \in Pairs, s \in Scopes : Start(q, p, s)

Spec == Init /\ [][Next]_vars

\* a query's goroutine runs on, and v21.Query comes back: its context has a timeout
FairSpec == Spec /\ \A q \in Queries : WF_vars(QueryStep(q))
-----------------------------------------------------------------------------
(* Properties.                                                             *)

TypeOK ==
  /\ bindings \in [BindingIds -> [pair : Pairs \cup {NoTarget},
                                  status : {"none", "bound", "revoked", "deleted"},
                                  scopes : SUBSET Scopes]]
  /\ bindingSeq \in 0..MaxBindings
  /\ records \in [Queries -> {"none", "started", "completed", "failed", "suppressed"}]
  /\ stage \in [Queries -> {"idle", "recorded", "refused", "asked", "answered", "erred",
                            "completed", "done"}]
  /\ target \in [Queries -> [pair : Pairs, scope : Scopes] \cup {NoTarget}]
  /\ aborted \subseteq Spoken /\ answers \subseteq Queries
  /\ word \in [Pairs -> SUBSET Scopes] /\ raised \subseteq BindingIds

\* nobody revoked or restored a deleted binding of the pair
Undisturbed(p) == Of(p) \cap raised = {}

\* The list of bindings, searched in whatever order, decides as the last word on
\* the pair does: what was revoked or deleted is refused, a scope that was not
\* granted is refused, and what was granted is refused only for a binding of the
\* pair that was deleted before.
DecisionFollows ==
  [][\A q \in Queries :
       stage[q] = "recorded" /\ stage'[q] # "recorded" /\ Undisturbed(target[q].pair) =>
         LET granted == target[q].scope \in word[target[q].pair]
         IN  /\ stage'[q] = "asked" => Open(q) \/ granted
             /\ stage'[q] = "refused" /\ granted =>
                  \E b \in Deciding(q) : bindings[b].status = "deleted"]_vars

\* Every read record that was started is completed or failed in the end, also
\* when the turn that asked is aborted while V21 answers.
RecordsEnd == \A q \in Queries : records[q] = "started" ~> records[q] # "started"
=============================================================================
