--------------------------- MODULE FieldReconciler ---------------------------
(***************************************************************************)
(* What becomes of the fields of a CR and of its conditions over any       *)
(* number of reconciliations. The control is that of AgentReconciler for a *)
(* CR that is not deleted; here a resource has its fields and conditions,  *)
(* and one agent, the one the CR knows or is about to learn of. Of the     *)
(* agent's status only matters whether it has to be prepared.              *)
(***************************************************************************)
EXTENDS AgentFields, AgentConditions, FiniteSets

CONSTANTS
    UserSpecs,      \* the specs a user writes
    DriftSpecs,     \* the drafts somebody else may give the agent
    RejectedTTLs,   \* the numbers AWS refuses with a ValidationException
    NoAgent,        \* there is no agent the CR knows or can learn of
    Limit,          \* how often each kind of disturbance may happen
    Budget          \* how many disturbances one behaviour mixes

Kinds == {"edit",     \* the user changes the spec
          "api",      \* an AWS call fails, with any error, before it has an effect
          "reply",    \* an AWS call takes effect but its reply is lost
          "slow",     \* a read does not show the defaults of AWS yet
          "k8s",      \* a patch of the CR's spec fails
          "status",   \* a patch of the CR's status fails
          "crash",    \* the controller restarts
          "drift"}    \* somebody else changes the agent

Agents == [spec : FieldSpec, prepared : BOOLEAN]

ASSUME FieldReconcilerAssumption ==
    /\ UserSpecs \subseteq FieldSpec
    /\ DriftSpecs \subseteq {s \in FieldSpec : ~OutOfRange(s)}
    /\ RejectedTTLs \subseteq Ints64
    /\ NoAgent \notin Agents
    /\ Limit \in [Kinds -> Nat] /\ Budget \in Nat

VARIABLES
    (* the CR in the Kubernetes API server *)
    cr,         \* its spec
    crConds,    \* the conditions in its status
    crHasId,    \* whether its status names the agent
    (* AWS *)
    agent,      \* the agent's draft, and whether it is prepared
    (* the worker *)
    queue, pc, late, desired, latest, delta, err,
    (* history *)
    outcome,    \* how the reconciliation ended whose conditions the CR shows
    failing,    \* whether one recorded since the last success ended recoverably
    given,      \* the specs users and others have written
    used

crVars == <<cr, crConds, crHasId>>
workVars == <<pc, late, desired, latest, delta, err>>
vars == <<crVars, agent, queue, workVars, outcome, failing, given, used>>

Spend(kind) ==
    /\ used[kind] < Limit[kind]
    /\ used' = [used EXCEPT ![kind] = @ + 1]
    /\ Cardinality({k \in Kinds : used'[k] > 0}) <= Budget

Blank == [spec |-> [ttl |-> Nil, memory |-> Nil, prompts |-> Nil], conds |-> NoConditions]

Init ==
    /\ cr \in UserSpecs /\ given = {cr}
    /\ crConds = NoConditions /\ crHasId = FALSE
    /\ agent = NoAgent
    /\ queue = "due" /\ pc = "idle" /\ late = FALSE
    /\ desired = Blank /\ latest = Blank /\ delta = {}
    /\ err = "none" /\ outcome = "none" /\ failing = FALSE
    /\ used = [k \in Kinds |-> 0]

UserEdit ==
    /\ Spend("edit")
    /\ cr' \in UserSpecs \ {cr}
    /\ given' = given \cup {cr'}
    /\ queue' = "due"
    /\ UNCHANGED <<crConds, crHasId, agent, workVars, outcome, failing>>

-----------------------------------------------------------------------------
(* Control of the worker.                                                  *)

Goto(p) == pc' = p

Idle ==
    /\ Goto("idle") /\ late' = FALSE /\ delta' = {} /\ err' = "none"
    /\ desired' = Blank /\ latest' = Blank

(* The worker is gone before it could patch the status, by a panic or a    *)
(* restart: an agent whose identifier was not saved is lost to the CR.     *)
Abandon ==
    /\ Idle
    /\ queue' = "due"
    /\ agent' = IF crHasId THEN agent ELSE NoAgent

(* A method of the manager ends with the error e and reports r with it.    *)
Failed(r, e) ==
    /\ latest' = [r EXCEPT !.conds = UpdateConditions(@, e)]
    /\ err' = OnError(r.conds, e)
    /\ Goto("finish")

Succeeded(r, next) ==
    /\ latest' = [r EXCEPT !.conds = OnSuccess(@)]
    /\ Goto(next)

(* The runtime may or may not clear the conditions when it starts.         *)
Start ==
    /\ pc = "idle" /\ queue = "due"
    /\ queue' = "empty"
    /\ \E conds \in {crConds, NoConditions} :
          desired' = [spec |-> cr, conds |-> conds]
    /\ latest' = desired'
    /\ Goto("read")
    /\ UNCHANGED <<crVars, agent, late, delta, err, outcome, failing, given, used>>

(* What a reply may show of a draft: the default prompts can come later.   *)
Replies(spec) ==
    {spec} \cup IF \A p \in Range(spec.prompts) : ~Overridden(p)
                THEN {[spec EXCEPT !.prompts = Nil]} ELSE {}

Delta(a, b) ==
    (IF Differs(a.spec, b.spec) THEN {"Spec"} ELSE {})
    \cup (IF agent.prepared THEN {} ELSE {"AgentStatus"})

UpdateCall(d) ==
    CASE "AgentStatus" \in d -> "prepare"
      [] d = {"Spec"} -> "update"
      [] d = {} -> "late"

(* sdkFind does not ask AWS without an identifier.                         *)
NotFound == ~crHasId

ReadErrors == {"ValidationException", "APIError"}

(* A read of the agent, by either caller of ReadOne.                       *)
Read(reply) ==
    /\ reply \in Replies(agent.spec)
    /\ IF reply = agent.spec THEN UNCHANGED used ELSE Spend("slow")

(* The first read, and what is decided on it. The comparison may panic.    *)
ReadOne ==
    /\ pc = "read"
    /\ \/ /\ NotFound /\ Goto("create")
          /\ UNCHANGED <<agent, queue, late, desired, latest, delta, err, used>>
       \/ /\ ~NotFound
          /\ \E reply \in Replies(agent.spec) :
                /\ Read(reply)
                /\ LET observed == Observed(desired, reply) IN
                   IF ComparePanics(desired.spec, observed.spec)
                   THEN Abandon
                   ELSE /\ delta' = Delta(desired, observed)
                        /\ Succeeded(observed, UpdateCall(delta'))
                        /\ UNCHANGED <<agent, queue, late, desired, err>>
       \/ /\ ~NotFound /\ Spend("api")
          /\ \E e \in ReadErrors : Failed(desired, e)
          /\ UNCHANGED <<agent, queue, late, desired, delta>>
    /\ UNCHANGED <<crVars, outcome, failing, given>>

-----------------------------------------------------------------------------
(* Calls that change the agent.                                            *)

Rejected(request) == request.ttl \in RejectedTTLs

(* The errors with which a request for r can end before it has an effect.  *)
RequestErrors(spec, request) ==
    IF OutOfRange(spec) THEN {"range"}
    ELSE IF Rejected(request) THEN {"ValidationException"}
    ELSE {}

AgentAfter(request) == [spec |-> Stored(request), prepared |-> FALSE]

WorkerOnly == UNCHANGED <<crVars, queue, late, desired, outcome, failing, given>>

(* A lost reply is like an error here: the agent is nobody's.              *)
Create ==
    /\ pc = "create"
    /\ LET request == NewCreateRequestPayload(desired.spec)
           errors  == RequestErrors(desired.spec, request)
       IN  \/ /\ errors = {} /\ agent' = AgentAfter(request)
              /\ \E reply \in Replies(agent'.spec) :
                    Succeeded(Created(desired, reply), "patch")
              /\ UNCHANGED <<err, used>>
           \/ /\ \E e \in errors : Failed(desired, e)
              /\ UNCHANGED <<agent, used>>
           \/ /\ errors = {} /\ Spend("api")
              /\ \E e \in ReadErrors : Failed(desired, e)
              /\ UNCHANGED agent
    /\ UNCHANGED delta
    /\ WorkerOnly

(* The first part of sdkUpdate, which returns desired when the status was  *)
(* the only difference.                                                    *)
Prepare ==
    /\ pc = "prepare"
    /\ \/ /\ agent' = [agent EXCEPT !.prepared = TRUE]
          /\ delta' = delta \ {"AgentStatus"}
          /\ IF delta' = {} THEN Succeeded(desired, "patch")
                            ELSE Goto("update") /\ UNCHANGED latest
          /\ UNCHANGED <<err, used>>
       \/ /\ agent' = [agent EXCEPT !.prepared = TRUE] /\ Spend("reply")
          /\ Failed(latest, "APIError") /\ UNCHANGED delta
       \/ /\ Spend("api")
          /\ \E e \in ReadErrors : Failed(latest, e)
          /\ UNCHANGED <<agent, delta>>
    /\ WorkerOnly

Update ==
    /\ pc = "update"
    /\ LET request == NewUpdateRequestPayload(desired.spec)
           errors  == RequestErrors(desired.spec, request)
       IN  \/ /\ errors = {} /\ agent' = AgentAfter(request)
              /\ \/ /\ \E reply \in Replies(agent'.spec) :
                          Succeeded(Updated(desired, reply), "patch")
                    /\ UNCHANGED <<err, used>>
                 \/ Spend("reply") /\ Failed(latest, "APIError")
           \/ /\ \E e \in errors : Failed(latest, e)
              /\ UNCHANGED <<agent, used>>
           \/ /\ errors = {} /\ Spend("api")
              /\ \E e \in ReadErrors : Failed(latest, e)
              /\ UNCHANGED agent
    /\ UNCHANGED delta
    /\ WorkerOnly

-----------------------------------------------------------------------------
(* The second read. What comes back is latest with its prompts filled in,  *)
(* and a condition of its own: the conditions of the read are dropped,     *)
(* those of a failed read too. desired holds what the runtime compares the *)
(* result with when it patches the spec.                                   *)
LateInitialize ==
    /\ pc = "late"
    /\ \/ \E reply \in Replies(agent.spec) :
             /\ Read(reply)
             /\ LET filled == LateInitialized(latest, Observed(latest, reply))
                    done   == ~IncompleteLateInitialization(filled)
                IN  /\ latest' = [filled EXCEPT !.conds.lateInit =
                                        IF done THEN "True" ELSE "False"]
                    /\ err' = IF done THEN "none" ELSE "requeue"
       \/ /\ Spend("api")
          /\ \E e \in ReadErrors : err' = OnError(latest.conds, e)
          /\ latest' = [latest EXCEPT !.conds.lateInit = "False"]
    /\ desired' = [desired EXCEPT !.spec = latest.spec]
    /\ late' = TRUE
    /\ Goto("patch")
    /\ UNCHANGED <<crVars, agent, queue, delta, outcome, failing, given>>

-----------------------------------------------------------------------------
(* Patches of the CR.                                                      *)

(* A merge patch writes the fields that changed, whatever the CR holds by  *)
(* now; a list is one field.                                               *)
Merge(new, old, onto) ==
    [f \in DOMAIN onto |-> IF new[f] # old[f] THEN new[f] ELSE onto[f]]

(* The runtime may leave out a patch when the comparison shows nothing to  *)
(* write; then the comparison can panic.                                   *)
PatchSpec ==
    /\ pc = "patch"
    /\ \/ /\ cr' \in {Merge(latest.spec, desired.spec, cr)}
                     \cup IF Differs(desired.spec, latest.spec) THEN {} ELSE {cr}
          /\ queue' = IF cr' # cr THEN "due" ELSE queue
          /\ Goto(IF late THEN "finish" ELSE "late")
          /\ UNCHANGED <<agent, late, desired, latest, delta, err, used>>
       \/ /\ desired.spec # latest.spec /\ Spend("k8s")
          /\ err' = "patch" /\ Goto("finish")
          /\ UNCHANGED <<cr, agent, queue, late, desired, latest, delta>>
       \/ /\ ComparePanics(desired.spec, latest.spec)
          /\ Abandon
          /\ UNCHANGED <<cr, used>>
    /\ UNCHANGED <<crConds, crHasId, outcome, failing, given>>

(* After a terminal error the CR is not queued again; otherwise it is, at  *)
(* once or after the resync period.                                        *)
Requeue ==
    IF queue = "due" THEN {"due"}
    ELSE CASE err = "terminal" -> {"empty"}
           [] err = "none"     -> {"due", "waiting"}
           [] OTHER            -> {"due"}

Finish ==
    /\ pc = "finish"
    /\ \/ /\ crConds' = latest.conds /\ crHasId' = (agent # NoAgent)
          /\ outcome' = err
          /\ failing' = (err = "recoverable" \/ (failing /\ err # "none"))
          /\ UNCHANGED <<agent, used>>
       \/ /\ Spend("status")
          /\ agent' = IF crHasId THEN agent ELSE NoAgent
          /\ UNCHANGED <<crConds, crHasId, outcome, failing>>
    /\ queue' \in Requeue
    /\ Idle
    /\ UNCHANGED <<cr, given>>

Restart ==
    /\ Spend("crash") /\ Abandon
    /\ UNCHANGED <<crVars, outcome, failing, given>>

Resync ==
    /\ queue = "waiting" /\ queue' = "due"
    /\ UNCHANGED <<crVars, agent, workVars, outcome, failing, given, used>>

Drift ==
    /\ agent # NoAgent /\ Spend("drift")
    /\ \E s \in DriftSpecs :
          /\ agent' = AgentAfter(NewUpdateRequestPayload(s))
          /\ given' = given \cup {s}
    /\ UNCHANGED <<crVars, queue, workVars, outcome, failing>>

Worker == Start \/ ReadOne \/ Create \/ Prepare \/ Update \/ LateInitialize
          \/ PatchSpec \/ Finish

Next == Worker \/ UserEdit \/ Restart \/ Resync \/ Drift

Spec == Init /\ [][Next]_vars

(* The controller runs and the resync timer fires; nothing is assumed of   *)
(* users, of drift or of faults.                                           *)
FairSpec == Spec /\ WF_vars(Worker) /\ WF_vars(Resync)

-----------------------------------------------------------------------------
Resources == [spec : FieldSpec, conds : Conditions]
Errors == {"none", "terminal", "recoverable", "requeue", "patch"}

(* The type invariant: every copy of the fields is one a CR can have, so   *)
(* that the requests built from it are those of sdk.go.                    *)
TypeOK ==
    /\ cr \in FieldSpec /\ given \subseteq FieldSpec
    /\ crConds \in Conditions /\ crHasId \in BOOLEAN
    /\ agent \in Agents \cup {NoAgent}
    /\ queue \in {"empty", "due", "waiting"}
    /\ pc \in {"idle", "read", "create", "prepare", "update", "late", "patch", "finish"}
    /\ late \in BOOLEAN
    /\ desired \in Resources /\ latest \in Resources
    /\ delta \subseteq {"Spec", "AgentStatus"}
    /\ err \in Errors /\ outcome \in Errors /\ failing \in BOOLEAN
    /\ used \in [Kinds -> Nat]

-----------------------------------------------------------------------------
(* The numbers somebody has written, and what becomes of them.             *)

TTLs(specs) == {s.ttl : s \in specs} \cup {Nil, DefaultTTL}

Memories(specs) == {s.memory : s \in specs} \cup {Nil}

Written(specs) ==
    {p.temperature : p \in UNION {Range(s.prompts) : s \in {g \in specs : g.prompts # Nil}}}
    \cup {Nil, DefaultTemperature}

Temperatures(specs) ==
    Written(specs) \cup {Round32[t] : t \in Written(specs) \ {Nil}}

From(spec, specs) ==
    /\ spec.ttl \in TTLs(specs)
    /\ spec.memory \in Memories(specs)
    /\ spec.prompts # Nil =>
          \A i \in DOMAIN spec.prompts : spec.prompts[i].temperature \in Temperatures(specs)

(* No number the agent or the CR has is an artefact of a conversion: it    *)
(* was written by somebody, or is a default, up to the rounding of a       *)
(* temperature (sdk.go: the range checks before every narrowing).          *)
NothingInvented ==
    From(cr, given) /\ (agent # NoAgent => From(agent.spec, given))

(* The prompts of a spec that count, up to their order and rounding.       *)
Substance(prompts) ==
    IF prompts = Nil THEN {}
    ELSE {PromptPayload(p) : p \in {q \in Range(prompts) : q.mode = "OVERRIDDEN"}}

(* AWS keeps one prompt of each type it knows; a spec that asks for more   *)
(* gets one of them.                                                       *)
OnePerType(spec) ==
    spec.prompts # Nil =>
        \A i, j \in DOMAIN spec.prompts :
            spec.prompts[i].mode = "OVERRIDDEN" =>
                /\ spec.prompts[i].type \in Range(TypeOrder)
                /\ spec.prompts[j].mode = "OVERRIDDEN"
                   /\ spec.prompts[j].type = spec.prompts[i].type
                       => spec.prompts[j] = spec.prompts[i]

(* A patch of the spec never loses or changes an overriding prompt that    *)
(* the reconciliation had read, only the order and the rounding, fills in  *)
(* a number only if it had been left out, and leaves the memory alone      *)
(* (sdk.go:814-1042 overwrites every field with the reply, and the patch   *)
(* writes what differs from the spec read). It is about the values that    *)
(* were read: an edit made since is kept where the patch writes nothing,   *)
(* and where it does write, the patch puts the values read, or those of    *)
(* AWS for a field left out, over it.                                      *)
PatchKeepsWhatWasRead ==
    [][pc = "patch" /\ pc' # "patch" =>
          /\ cr'.ttl # cr.ttl => desired.spec.ttl = Nil
          /\ cr'.memory = cr.memory
          /\ cr'.prompts # cr.prompts /\ desired.spec.prompts # Nil =>
                Substance(cr'.prompts) = Substance(desired.spec.prompts)]_vars

(* Nobody has edited the CR since the worker read it: there never was an   *)
(* edit, or nothing at all has happened to the CR.                         *)
Unedited == used["edit"] = 0 \/ queue # "due"

(* Unless somebody else changes the agent, a reconciliation that ends      *)
(* without an error leaves nothing to update: what it knows and, when      *)
(* nobody has edited it meanwhile, what its patches have made of the CR    *)
(* agree with the agent, although a request is narrowed and rounded, a     *)
(* reply may lack the defaults and a patch may be left out (sdk.go:810-    *)
(* 1042; manager.go:211-274).                                              *)
SuccessAgrees ==
    used["drift"] = 0 /\ pc = "finish" /\ err = "none" =>
        /\ agent # NoAgent /\ latest.spec.prompts # Nil
        /\ ~Differs(latest.spec, agent.spec)
        /\ Unedited => ~Differs(cr, agent.spec)

(* What conditions c may say when the reconciliation ends with the error e, *)
(* before being what failing says then.                                     *)
Truthful(c, e, before) ==
    /\ c.terminal = "True" => e = "terminal"
    /\ c.recoverable = "True" => e = "recoverable" \/ (e = "terminal" /\ before)
    /\ c.lateInit = "False" => e # "none"

(* What they must say.                                                     *)
Visible(c, e) ==
    /\ e = "terminal" => "True" = c.terminal \/ "False" = c.lateInit
    /\ e = "recoverable" => "True" = c.recoverable \/ "False" = c.lateInit
    /\ e = "requeue" => "False" = c.lateInit

(* Terminal is True in the CR only if the reconciliation that wrote the    *)
(* conditions ended so. Recoverable is True only if it ended recoverably,  *)
(* or left over beside Terminal, which does not clear it (sdk.go:1310-     *)
(* 1325), and then from a reconciliation that did end recoverably, with no *)
(* success recorded since. A late initialization that did not succeed is   *)
(* not passed for a success.                                               *)
VerdictIsTrue == Truthful(crConds, outcome, failing)

(* An error the manager reported (manager.go onError) can be seen in the   *)
(* CR: as the condition of its class, or, where LateInitialize drops that, *)
(* as LateInitialized.                                                     *)
ErrorVisible == Visible(crConds, outcome)

-----------------------------------------------------------------------------
(* The inductive invariant.                                                *)

(* Whoever calls AWS about an agent has one.                               *)
Known ==
    /\ crHasId => agent \in Agents
    /\ pc \in {"prepare", "update", "late"} => agent \in Agents
    /\ pc = "patch" /\ ~late => agent \in Agents
    /\ pc = "create" => ~crHasId

(* The copies the worker holds are of given numbers too.                   *)
Sourced == NothingInvented /\ From(desired.spec, given) /\ From(latest.spec, given)

(* What the conditions in the worker's hands say of the reconciliation so  *)
(* far: a call that succeeded has cleared both verdicts.                   *)
Pending ==
    /\ pc = "finish" => Truthful(latest.conds, err, failing) /\ Visible(latest.conds, err)
    /\ pc # "finish" => \A r \in {desired, latest} : r.conds.recoverable = "True" => failing
    /\ pc \in {"late", "patch"} =>
          latest.conds.terminal # "True" /\ latest.conds.recoverable # "True"
    /\ late => pc \in {"patch", "finish"}
    /\ pc # "finish" /\ ~late => err = "none"
    /\ pc = "patch" /\ late =>
          (err # "none" <=> latest.conds.lateInit = "False")

(* Together: what the CR says, of numbers and of errors, is right because  *)
(* it has been right at every step of the worker (sdk.go, manager.go).     *)
FieldInv ==
    /\ TypeOK /\ Known /\ Sourced /\ Pending
    /\ VerdictIsTrue /\ ErrorVisible
    /\ crConds.recoverable = "True" => failing

-----------------------------------------------------------------------------
(* Why a success agrees.                                                   *)

(* A spec with the draft's prompts filled in.                              *)
Filled(spec, draft) ==
    [spec EXCEPT !.prompts = IF @ = Nil THEN draft.prompts ELSE @]

Near(spec, draft) == ~Differs(Filled(spec, draft), draft)

(* From the read to the first patch the worker holds the CR's spec; from   *)
(* the call that brought the agent up to date it knows the draft, but for  *)
(* prompts a reply did not show, which only the second read fills in.      *)
Agreeing ==
    /\ pc \in {"read", "create", "prepare", "update"} \/ (pc = "patch" /\ ~late) =>
          (Unedited => cr = desired.spec)
    /\ pc = "prepare" /\ "Spec" \notin delta => Near(desired.spec, agent.spec)
    /\ pc = "patch" /\ ~late => Near(latest.spec, agent.spec)
    /\ pc = "late" =>
          /\ Near(latest.spec, agent.spec)
          /\ Unedited => ~Differs(cr, latest.spec)
    /\ pc = "patch" /\ late /\ err = "none" =>
          /\ agent # NoAgent /\ latest.spec.prompts # Nil
          /\ latest.spec = Filled(desired.spec, agent.spec)
          /\ Near(desired.spec, agent.spec)
          /\ Unedited => ~Differs(cr, desired.spec)

AgreeInv == SuccessAgrees /\ (used["drift"] = 0 => Agreeing)

-----------------------------------------------------------------------------
ModesSet(spec) ==
    spec.prompts # Nil => \A p \in Range(spec.prompts) : p.mode # Nil

(* However the defaults, the order and the rounding of AWS differ from     *)
(* what the CR says, creations and updates do not go on for ever, except   *)
(* where a missing mode makes every comparison panic.                      *)
AgentRests == <>[][ModesSet(cr) => agent' = agent]_vars

Acceptable(spec) ==
    /\ ~OutOfRange(spec) /\ ~Rejected(NewUpdateRequestPayload(spec))
    /\ ModesSet(spec)

(* The CR says of every field what the draft of the agent says.            *)
Matches(spec, draft) ==
    /\ spec.ttl = draft.ttl /\ spec.memory = draft.memory
    /\ spec.prompts # Nil /\ Substance(spec.prompts) = Substance(draft.prompts)

(* In the end an acceptable CR and its agent agree in each field, whatever *)
(* the comparison in delta.go and hooks.go passes over, unless a terminal  *)
(* error has taken the CR off the queue.                                   *)
FieldsConverge ==
    <>[](Acceptable(cr) /\ queue # "empty" =>
            agent # NoAgent /\ Matches(cr, agent.spec) /\ agent.prepared)
=============================================================================
