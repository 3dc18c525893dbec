------------------------ MODULE FieldReconcilerProofs ------------------------
(***************************************************************************)
(* Proofs about FieldReconciler: what the CR shows of numbers and of       *)
(* errors, for any specs, any width of the integers and any faults.        *)
(***************************************************************************)
EXTENDS FieldReconciler, TLAPS

(* The prompts AWS fills in.                                               *)
LEMMA Defaults == TypeOrder \in Seq(STRING) /\ DefaultTemperature \in Floats64
BY ZenonT(30), FieldAssumption DEF FieldAssumption

(* A number that passed the check is not changed by the narrowing.         *)
LEMMA NarrowingIsExact ==
    ASSUME NEW n \in Int, FitsInt32(n), n # Nil
    PROVE  ToInt32(n) = n
<1> DEFINE w == 2 * Half
           k == n + Half
<1>1. Half \in Nat \ {0} BY FieldAssumption
<1>2. k \in Nat /\ w \in Nat \ {0} /\ k < w BY <1>1 DEF FitsInt32
<1> HIDE DEF w, k
<1>3. k % w = k BY <1>2
<1> QED BY <1>1, <1>3 DEF ToInt32, w, k

(* Mapping an operator over a sequence.                                    *)
LEMMA MapSeq ==
    ASSUME NEW S, NEW R, NEW s \in Seq(S), NEW f, \A i \in DOMAIN s : f[i] \in R,
           f = [i \in DOMAIN s |-> f[i]]
    PROVE  f \in Seq(R)
BY SMT

(* Rounding a second time gives no new temperature.                        *)
LEMMA RoundedIsFrom ==
    ASSUME NEW G \in SUBSET FieldSpec, NEW t \in Temperatures(G), t \in Floats64
    PROVE  Round32[t] \in Temperatures(G)
<1>1. CASE t \in Written(G)
    BY <1>1, FieldAssumption DEF Temperatures
<1>2. CASE \E u \in Written(G) \ {Nil} : t = Round32[u]
    <2>1. PICK u \in Written(G) \ {Nil} : t = Round32[u] BY <1>2
    <2>2. u \in Floats64
        <3>1. CASE u = DefaultTemperature BY <3>1, FieldAssumption
        <3>2. CASE u # DefaultTemperature
            <4>1. PICK g \in G :
                     g.prompts # Nil /\ \E i \in DOMAIN g.prompts : u = g.prompts[i].temperature
                BY <2>1, <3>2 DEF Written, Range
            <4>2. PICK i \in DOMAIN g.prompts : u = g.prompts[i].temperature BY <4>1
            <4>3. g.prompts \in Seq(Prompt) BY <4>1 DEF FieldSpec
            <4>4. g.prompts[i] \in Prompt BY <4>2, <4>3
            <4> QED BY <2>1, <4>2, <4>4 DEF Prompt
        <3> QED BY <3>1, <3>2
    <2> QED BY <2>1, <2>2, FieldAssumption
<1> QED BY <1>1, <1>2 DEF Temperatures

(* A request has the numbers of the spec it was built from, temperatures   *)
(* rounded.                                                                *)
LEMMA RequestNumbers ==
    ASSUME NEW spec \in FieldSpec, ~OutOfRange(spec), NEW G \in SUBSET FieldSpec, From(spec, G)
    PROVE  LET request == NewCreateRequestPayload(spec) IN
           /\ request.ttl = spec.ttl /\ request.memory = spec.memory
           /\ request.prompts # Nil =>
                 /\ request.prompts \in Seq(RequestPrompt)
                 /\ \A i \in DOMAIN request.prompts :
                       request.prompts[i].temperature \in Temperatures(G)
<1> DEFINE request == NewCreateRequestPayload(spec)
<1>1. request.ttl = spec.ttl
    BY NarrowingIsExact, FieldAssumption DEF NewCreateRequestPayload, IntPayload, OutOfRange, FieldSpec
<1>2. request.memory = spec.memory
    <2>1. CASE spec.memory = Nil BY <2>1 DEF NewCreateRequestPayload
    <2>2. CASE spec.memory # Nil
        <3>1. spec.memory \in [days : Ints64 \cup {Nil}] BY <2>2 DEF FieldSpec
        <3>2. IntPayload(spec.memory.days) = spec.memory.days
            BY <2>2, <3>1, NarrowingIsExact, FieldAssumption DEF IntPayload, OutOfRange
        <3> QED BY <2>2, <3>1, <3>2 DEF NewCreateRequestPayload
    <2> QED BY <2>1, <2>2
<1>3. ASSUME request.prompts # Nil
      PROVE  /\ request.prompts \in Seq(RequestPrompt)
             /\ \A i \in DOMAIN request.prompts :
                   request.prompts[i].temperature \in Temperatures(G)
    <2> DEFINE s == spec.prompts
               f == request.prompts
    <2>1. s # Nil /\ f = [i \in DOMAIN s |-> PromptPayload(s[i])]
        BY <1>3 DEF NewCreateRequestPayload, Map
    <2>2. s \in Seq(Prompt) BY <2>1 DEF FieldSpec
    <2>3. ASSUME NEW i \in DOMAIN s
          PROVE  f[i] \in RequestPrompt /\ f[i].temperature \in Temperatures(G)
        <3>1. s[i] \in Prompt BY <2>2
        <3>2. s[i].temperature \in Temperatures(G) BY <2>1 DEF From
        <3>3. s[i].temperature # Nil =>
                 /\ Round32[s[i].temperature] \in Temperatures(G)
                 /\ Round32[s[i].temperature] \in Floats64
            BY <3>1, <3>2, RoundedIsFrom, FieldAssumption DEF Prompt
        <3>4. f[i] = PromptPayload(s[i]) BY <2>1
        <3>5. PromptPayload(s[i]).temperature =
                 IF s[i].temperature = Nil THEN Nil ELSE Round32[s[i].temperature]
            BY <3>1 DEF PromptPayload, Prompt
        <3>6. PromptPayload(s[i]) \in RequestPrompt
            BY <3>1, <3>3 DEF PromptPayload, Prompt, RequestPrompt
        <3> QED BY <3>2, <3>3, <3>4, <3>5, <3>6
    <2> HIDE DEF f
    <2>4. f \in Seq(RequestPrompt) BY <2>1, <2>2, <2>3, MapSeq
    <2>5. DOMAIN f = DOMAIN s BY <2>1
    <2> QED BY <2>3, <2>4, <2>5 DEF f
<1> QED BY <1>1, <1>2, <1>3

(* What AWS makes of a request.                                            *)
LEMMA StoredNumbers ==
    ASSUME NEW spec \in FieldSpec, ~OutOfRange(spec), NEW G \in SUBSET FieldSpec, From(spec, G)
    PROVE  /\ Stored(NewCreateRequestPayload(spec)) \in FieldSpec
           /\ From(Stored(NewCreateRequestPayload(spec)), G)
<1> DEFINE request == NewCreateRequestPayload(spec)
           stored  == Stored(request)
<1>1. /\ request.ttl = spec.ttl /\ request.memory = spec.memory
      /\ request.prompts # Nil =>
            /\ request.prompts \in Seq(RequestPrompt)
            /\ \A i \in DOMAIN request.prompts :
                  request.prompts[i].temperature \in Temperatures(G)
    BY RequestNumbers
<1> HIDE DEF request
<1>2. stored.ttl \in Ints64 \cup {Nil} /\ stored.ttl \in TTLs(G)
    BY <1>1, FieldAssumption DEF Stored, From, TTLs, FieldSpec
<1>3. stored.memory = spec.memory BY <1>1 DEF Stored
<1> DEFINE Asked(type) ==
               IF request.prompts = Nil THEN {}
               ELSE {p \in Range(request.prompts) : p.type = type /\ p.mode = "OVERRIDDEN"}
           PromptOf(type) ==
               IF Asked(type) # {} THEN CHOOSE p \in Asked(type) : TRUE
               ELSE [type |-> type, mode |-> "DEFAULT", temperature |-> DefaultTemperature]
<1>4. stored = [ttl |-> stored.ttl, memory |-> stored.memory,
                prompts |-> [i \in DOMAIN TypeOrder |-> PromptOf(TypeOrder[i])]]
    BY DEF Stored, Map
<1>5. ASSUME NEW type \in STRING
      PROVE  PromptOf(type) \in Prompt /\ PromptOf(type).temperature \in Temperatures(G)
    <2>1. CASE Asked(type) # {}
        <3>1. PromptOf(type) \in Asked(type) BY <2>1
        <3>2. PICK i \in DOMAIN request.prompts :
                 /\ request.prompts # Nil /\ PromptOf(type) = request.prompts[i]
                 /\ request.prompts[i].mode = "OVERRIDDEN"
            BY <3>1 DEF Range
        <3>3. request.prompts[i] \in RequestPrompt BY <1>1, <3>2
        <3>4. request.prompts[i] \in Prompt
            BY <3>2, <3>3 DEF RequestPrompt, Prompt, Modes
        <3> QED BY <1>1, <3>2, <3>4
    <2>2. CASE Asked(type) = {}
        <3>1. PromptOf(type) = [type |-> type, mode |-> "DEFAULT",
                                temperature |-> DefaultTemperature]
            BY <2>2
        <3> HIDE DEF PromptOf
        <3> QED BY <3>1, Defaults DEF Prompt, Modes, Temperatures, Written
    <2> QED BY <2>1, <2>2
<1> HIDE DEF PromptOf, stored
<1>6. \A i \in DOMAIN TypeOrder : TypeOrder[i] \in STRING BY Defaults
<1>7. stored.prompts = [i \in DOMAIN TypeOrder |-> PromptOf(TypeOrder[i])] BY <1>4
<1>8. stored.prompts \in Seq(Prompt) BY <1>5, <1>6, <1>7, Defaults, MapSeq
<1>9. \A i \in DOMAIN stored.prompts : stored.prompts[i].temperature \in Temperatures(G)
    BY <1>5, <1>6, <1>7
<1>10. stored \in FieldSpec BY <1>2, <1>3, <1>4, <1>7, <1>8 DEF FieldSpec
<1>11. From(stored, G) BY <1>2, <1>3, <1>9 DEF From
<1> QED BY <1>10, <1>11 DEF stored, request

(* What the CR makes of a reply that shows a draft.                        *)
LEMMA ReplyNumbers ==
    ASSUME NEW draft \in FieldSpec, NEW G \in SUBSET FieldSpec, From(draft, G),
           NEW reply \in Replies(draft)
    PROVE  SpecFromReply(reply) \in FieldSpec /\ From(SpecFromReply(reply), G)
<1>1. reply = draft \/ reply = [draft EXCEPT !.prompts = Nil] BY DEF Replies
<1>2. reply \in FieldSpec /\ From(reply, G) BY <1>1 DEF FieldSpec, From
<1>3. CASE reply.prompts = Nil
    BY <1>2, <1>3 DEF SpecFromReply, FieldSpec, From
<1>4. CASE reply.prompts # Nil
    <2> DEFINE s == reply.prompts
               f == [i \in DOMAIN s |-> PromptFromReply(s[i])]
    <2>1. s \in Seq(Prompt) BY <1>2, <1>4 DEF FieldSpec
    <2>2. ASSUME NEW i \in DOMAIN s
          PROVE  f[i] \in Prompt /\ f[i].temperature = s[i].temperature
        <3>1. s[i] \in Prompt BY <2>1
        <3> QED BY <3>1 DEF PromptFromReply, Prompt
    <2>3. f \in Seq(Prompt) BY <2>1, <2>2, MapSeq
    <2>4. SpecFromReply(reply) = [ttl |-> reply.ttl, memory |-> reply.memory, prompts |-> f]
        BY <1>4 DEF SpecFromReply, Map
    <2>5. \A i \in DOMAIN f : f[i].temperature \in Temperatures(G)
        BY <1>2, <1>4, <2>2 DEF From
    <2> HIDE DEF f
    <2>6. SpecFromReply(reply) \in FieldSpec BY <1>2, <2>3, <2>4 DEF FieldSpec
    <2>7. From(SpecFromReply(reply), G) BY <1>2, <2>4, <2>5 DEF From
    <2> QED BY <2>6, <2>7
<1> QED BY <1>3, <1>4

(* A merge patch puts fields of given specs together.                      *)
LEMMA MergeNumbers ==
    ASSUME NEW new \in FieldSpec, NEW old \in FieldSpec, NEW onto \in FieldSpec,
           NEW G \in SUBSET FieldSpec, From(new, G), From(onto, G)
    PROVE  Merge(new, old, onto) \in FieldSpec /\ From(Merge(new, old, onto), G)
<1> DEFINE merged == Merge(new, old, onto)
<1>1. DOMAIN onto = {"ttl", "memory", "prompts"} BY DEF FieldSpec
<1>2. merged = [f \in {"ttl", "memory", "prompts"} |->
                   IF new[f] # old[f] THEN new[f] ELSE onto[f]]
    BY <1>1 DEF Merge
<1> HIDE DEF merged
<1>3. /\ merged.ttl \in {new.ttl, onto.ttl} /\ merged.memory \in {new.memory, onto.memory}
      /\ merged.prompts \in {new.prompts, onto.prompts}
    BY <1>2
<1>4. merged \in FieldSpec BY <1>2, <1>3 DEF FieldSpec
<1>5. From(merged, G) BY <1>3 DEF From
<1> QED BY <1>4, <1>5 DEF merged

(* What users and others have written only grows.                          *)
LEMMA FromGrows ==
    ASSUME NEW spec, NEW G, NEW H, G \subseteq H, From(spec, G)
    PROVE  From(spec, H)
<1>1. TTLs(G) \subseteq TTLs(H) /\ Memories(G) \subseteq Memories(H)
    BY DEF TTLs, Memories
<1>2. Written(G) \subseteq Written(H) BY DEF Written
<1>3. Temperatures(G) \subseteq Temperatures(H) BY <1>2 DEF Temperatures
<1> QED BY <1>1, <1>3 DEF From

(* A spec that was given is made of given numbers.                         *)
LEMMA FromItself ==
    ASSUME NEW G \in SUBSET FieldSpec, NEW spec \in G
    PROVE  From(spec, G)
<1>1. spec.ttl \in TTLs(G) /\ spec.memory \in Memories(G) BY DEF TTLs, Memories
<1>2. ASSUME spec.prompts # Nil, NEW i \in DOMAIN spec.prompts
      PROVE  spec.prompts[i].temperature \in Temperatures(G)
    <2>1. spec.prompts[i] \in Range(spec.prompts) BY <1>2 DEF Range
    <2> QED BY <1>2, <2>1 DEF Temperatures, Written
<1> QED BY <1>1, <1>2 DEF From

-----------------------------------------------------------------------------
(* The conditions a failing call leaves say which error it reports.        *)
LEMMA FailureVerdict ==
    ASSUME NEW c \in Conditions, NEW e \in CallErrors
    PROVE  /\ UpdateConditions(c, e) \in Conditions
           /\ OnError(c, e) \in {"terminal", "recoverable"}
           /\ Visible(UpdateConditions(c, e), OnError(c, e))
BY DEF Conditions, CallErrors, UpdateConditions, OnError, TerminalAWSError, Visible

(* They say nothing else, except that a Recoverable found there stays      *)
(* beside Terminal.                                                        *)
LEMMA FailureTruth ==
    ASSUME NEW c \in Conditions, NEW e \in CallErrors, NEW before,
           c.recoverable = "True" => before
    PROVE  Truthful(UpdateConditions(c, e), OnError(c, e), before)
BY DEF Conditions, CallErrors, UpdateConditions, OnError, TerminalAWSError, Truthful

(* A call that succeeds takes both verdicts back.                          *)
LEMMA SuccessVerdict ==
    ASSUME NEW c \in Conditions
    PROVE  /\ OnSuccess(c) \in Conditions
           /\ OnSuccess(c).terminal # "True" /\ OnSuccess(c).recoverable # "True"
BY DEF Conditions, OnSuccess, UpdateConditions, TerminalAWSError

(* After a call that succeeded there is no terminal condition for onError  *)
(* to report in place of the error of the next call.                       *)
LEMMA CleanError ==
    ASSUME NEW c \in Conditions, c.terminal # "True", NEW e \in CallErrors
    PROVE  OnError(c, e) = IF TerminalAWSError(e) THEN "terminal" ELSE "recoverable"
BY DEF Conditions, CallErrors, OnError, UpdateConditions, TerminalAWSError

(* A failing call reports its own error and keeps the spec.                *)
LEMMA FailedStep ==
    ASSUME NEW r \in Resources, NEW e \in CallErrors, Failed(r, e),
           NEW before, r.conds.recoverable = "True" => before
    PROVE  /\ latest' \in Resources /\ latest'.spec = r.spec /\ err' \in Errors
           /\ pc' = "finish"
           /\ Truthful(latest'.conds, err', before) /\ Visible(latest'.conds, err')
<1>1. r.conds \in Conditions /\ r.spec \in FieldSpec BY DEF Resources
<1>2. latest' = [spec |-> r.spec, conds |-> UpdateConditions(r.conds, e)]
    BY DEF Failed, Resources
<1>3. latest'.conds = UpdateConditions(r.conds, e) /\ err' = OnError(r.conds, e)
    BY <1>2 DEF Failed
<1>4. Truthful(latest'.conds, err', before) BY <1>1, <1>3, FailureTruth
<1> QED BY <1>1, <1>2, <1>3, <1>4, FailureVerdict DEF Failed, Goto, Resources, Errors

(* A call that succeeds keeps the spec and leaves no verdict behind.       *)
LEMMA SucceededStep ==
    ASSUME NEW r \in Resources, NEW next, Succeeded(r, next)
    PROVE  /\ latest' \in Resources /\ latest'.spec = r.spec /\ pc' = next
           /\ latest'.conds.terminal # "True" /\ latest'.conds.recoverable # "True"
<1>1. r.conds \in Conditions /\ r.spec \in FieldSpec BY DEF Resources
<1>2. latest' = [spec |-> r.spec, conds |-> OnSuccess(r.conds)]
    BY DEF Succeeded, Resources
<1> QED BY <1>1, <1>2, SuccessVerdict DEF Succeeded, Goto, Resources

(* The empty resource holds no numbers.                                    *)
LEMMA BlankIsFrom ==
    ASSUME NEW G
    PROVE  /\ Blank \in Resources /\ From(Blank.spec, G)
<1>1. Blank.spec \in FieldSpec BY DEF Blank, FieldSpec
<1>2. Blank.conds \in Conditions BY DEF Blank, NoConditions, Conditions
<1>3. From(Blank.spec, G) BY DEF Blank, From, TTLs, Memories
<1> QED BY <1>1, <1>2, <1>3 DEF Blank, Resources

(* Going idle drops what the worker held.                                  *)
LEMMA IdleStep ==
    ASSUME Idle
    PROVE  /\ pc' = "idle" /\ late' = FALSE /\ delta' = {} /\ err' = "none"
           /\ desired' \in Resources /\ latest' \in Resources
           /\ From(desired'.spec, given') /\ From(latest'.spec, given')
           /\ desired'.conds = NoConditions /\ latest'.conds = NoConditions
BY BlankIsFrom DEF Idle, Goto, Blank

(* Spending leaves a count of each kind.                                   *)
LEMMA SpendType ==
    ASSUME used \in [Kinds -> Nat], NEW kind \in Kinds, Spend(kind)
    PROVE  used' \in [Kinds -> Nat]
BY DEF Spend

(* Replies, requests and updates keep the resource they are copied into.   *)
LEMMA ReplyResource ==
    ASSUME NEW r \in Resources, NEW draft \in FieldSpec, NEW G \in SUBSET FieldSpec,
           From(draft, G), NEW reply \in Replies(draft)
    PROVE  LET copy == [r EXCEPT !.spec = SpecFromReply(reply)] IN
           copy \in Resources /\ From(copy.spec, G)
<1>1. SpecFromReply(reply) \in FieldSpec /\ From(SpecFromReply(reply), G) BY ReplyNumbers
<1>2. [r EXCEPT !.spec = SpecFromReply(reply)]
         = [spec |-> SpecFromReply(reply), conds |-> r.conds]
    BY DEF Resources
<1> QED BY <1>1, <1>2 DEF Resources

(* The agent that a request makes holds the numbers of its spec.           *)
LEMMA AgentAfterRequest ==
    ASSUME NEW spec \in FieldSpec, ~OutOfRange(spec), NEW G \in SUBSET FieldSpec, From(spec, G)
    PROVE  /\ AgentAfter(NewCreateRequestPayload(spec)) \in Agents
           /\ From(AgentAfter(NewCreateRequestPayload(spec)).spec, G)
<1>1. Stored(NewCreateRequestPayload(spec)) \in FieldSpec
    BY StoredNumbers
<1>2. From(Stored(NewCreateRequestPayload(spec)), G)
    BY StoredNumbers
<1> QED BY <1>1, <1>2 DEF AgentAfter, Agents

(* The invariant holds at the start, and each action below keeps it.       *)
LEMMA InitInv == Init => FieldInv
<1> SUFFICES ASSUME Init PROVE FieldInv OBVIOUS
<1>1. cr \in FieldSpec /\ given = {cr} BY FieldReconcilerAssumption DEF Init
<1>2. From(cr, given) BY <1>1, FromItself
<1>3. desired = Blank /\ latest = Blank BY DEF Init
<1>4. TypeOK
    BY <1>1, <1>3, BlankIsFrom
    DEF Init, TypeOK, NoConditions, Conditions, Errors, Kinds
<1>5. Sourced BY <1>2, <1>3, BlankIsFrom DEF Init, Sourced, NothingInvented
<1>6. Known BY DEF Init, Known
<1>7. Pending BY DEF Init, Pending, Blank, NoConditions
<1>8. VerdictIsTrue /\ ErrorVisible
    BY DEF Init, VerdictIsTrue, ErrorVisible, Truthful, Visible, NoConditions
<1> QED BY <1>4, <1>5, <1>6, <1>7, <1>8 DEF Init, FieldInv, NoConditions

(* The worker at rest again, with the CR as it was.                        *)
LEMMA AbandonStep ==
    ASSUME FieldInv, Abandon, UNCHANGED <<crVars, outcome, failing, given>>, used' \in [Kinds -> Nat]
    PROVE  FieldInv'
<1> USE DEF FieldInv, crVars
<1>1. /\ pc' = "idle" /\ late' = FALSE /\ delta' = {} /\ err' = "none"
      /\ desired' \in Resources /\ latest' \in Resources
      /\ From(desired'.spec, given') /\ From(latest'.spec, given')
      /\ desired'.conds = NoConditions /\ latest'.conds = NoConditions
    BY IdleStep DEF Abandon
<1>2. queue' = "due" /\ agent' \in {agent, NoAgent} /\ (crHasId => agent' = agent)
    BY DEF Abandon
<1>3. TypeOK' BY <1>1, <1>2 DEF TypeOK, Errors
<1>4. Known' BY <1>1, <1>2 DEF Known
<1>5. Sourced' BY <1>1, <1>2 DEF Sourced, NothingInvented
<1>6. Pending' BY <1>1 DEF Pending, NoConditions
<1>7. VerdictIsTrue' /\ ErrorVisible' BY DEF VerdictIsTrue, ErrorVisible
<1> QED BY <1>3, <1>4, <1>5, <1>6, <1>7

LEMMA UserEditInv == FieldInv /\ UserEdit => FieldInv'
<1> SUFFICES ASSUME FieldInv, UserEdit PROVE FieldInv' OBVIOUS
<1> USE DEF FieldInv, crVars, workVars
<1>1. cr' \in FieldSpec /\ given' \subseteq FieldSpec /\ given \subseteq given' /\ cr' \in given'
    BY FieldReconcilerAssumption DEF UserEdit, TypeOK
<1>2. used' \in [Kinds -> Nat] BY SpendType DEF UserEdit, TypeOK, Kinds
<1>3. TypeOK' BY <1>1, <1>2 DEF UserEdit, TypeOK
<1>4. Known' BY DEF UserEdit, Known
<1>5. From(cr', given') BY <1>1, FromItself
<1>6. Sourced'
    BY <1>1, <1>5, FromGrows DEF UserEdit, Sourced, NothingInvented
<1>7. Pending' BY DEF UserEdit, Pending
<1>8. VerdictIsTrue' /\ ErrorVisible' BY DEF UserEdit, VerdictIsTrue, ErrorVisible
<1> QED BY <1>3, <1>4, <1>6, <1>7, <1>8 DEF UserEdit

LEMMA DriftInv == FieldInv /\ Drift => FieldInv'
<1> SUFFICES ASSUME FieldInv, Drift PROVE FieldInv' OBVIOUS
<1> USE DEF FieldInv, crVars, workVars
<1>1. PICK s \in DriftSpecs : agent' = AgentAfter(NewUpdateRequestPayload(s))
                              /\ given' = given \cup {s}
    BY DEF Drift
<1>2. /\ s \in FieldSpec /\ ~OutOfRange(s)
      /\ given' \subseteq FieldSpec /\ given \subseteq given' /\ s \in given'
    BY <1>1, FieldReconcilerAssumption DEF TypeOK
<1>3. From(s, given') BY <1>2, FromItself
<1>4. agent' \in Agents /\ From(agent'.spec, given')
    BY <1>1, <1>2, <1>3, AgentAfterRequest DEF NewUpdateRequestPayload
<1>5. used' \in [Kinds -> Nat] BY SpendType DEF Drift, TypeOK, Kinds
<1>6. TypeOK' BY <1>2, <1>4, <1>5 DEF Drift, TypeOK
<1>7. Known' BY <1>4 DEF Drift, Known
<1>8. Sourced' BY <1>2, <1>4, FromGrows DEF Drift, Sourced, NothingInvented
<1>9. Pending' BY DEF Drift, Pending
<1>10. VerdictIsTrue' /\ ErrorVisible' BY DEF Drift, VerdictIsTrue, ErrorVisible
<1> QED BY <1>6, <1>7, <1>8, <1>9, <1>10 DEF Drift

LEMMA RestartInv == FieldInv /\ Restart => FieldInv'
<1> SUFFICES ASSUME FieldInv, Restart PROVE FieldInv' OBVIOUS
<1>1. used' \in [Kinds -> Nat] BY SpendType DEF Restart, FieldInv, TypeOK, Kinds
<1> QED BY <1>1, AbandonStep DEF Restart

LEMMA ResyncInv == FieldInv /\ Resync => FieldInv'
BY DEF Resync, FieldInv, TypeOK, Known, Sourced, NothingInvented, Pending, VerdictIsTrue,
       ErrorVisible, crVars, workVars

LEMMA StartInv == FieldInv /\ Start => FieldInv'
<1> SUFFICES ASSUME FieldInv, Start PROVE FieldInv' OBVIOUS
<1> USE DEF FieldInv, crVars, Goto
<1>1. PICK conds \in {crConds, NoConditions} : desired' = [spec |-> cr, conds |-> conds]
    BY DEF Start
<1>2. NoConditions \in Conditions BY DEF NoConditions, Conditions
<1>3. desired' \in Resources /\ desired'.spec = cr /\ latest' = desired'
    BY <1>1, <1>2 DEF Start, TypeOK, Resources
<1>4. TypeOK' BY <1>3 DEF Start, TypeOK
<1>5. Known' BY DEF Start, Known
<1>6. Sourced' BY <1>3 DEF Start, Sourced, NothingInvented
<1>7. Pending'
    <2>1. desired'.conds.recoverable = "True" => failing
        BY <1>1 DEF NoConditions
    <2> QED BY <1>3, <2>1 DEF Start, Pending
<1>8. VerdictIsTrue' /\ ErrorVisible' BY DEF Start, VerdictIsTrue, ErrorVisible
<1> QED BY <1>4, <1>5, <1>6, <1>7, <1>8 DEF Start

(* A call of the manager that failed, whatever it did to the agent.        *)
LEMMA FailureInv ==
    ASSUME FieldInv, NEW r \in Resources, r \in {desired, latest}, From(r.spec, given),
           NEW e \in CallErrors, Failed(r, e),
           pc \notin {"patch", "finish"},
           agent' \in Agents \cup {NoAgent}, crHasId => agent' \in Agents,
           agent' # NoAgent => From(agent'.spec, given),
           delta' \subseteq {"Spec", "AgentStatus"}, used' \in [Kinds -> Nat],
           UNCHANGED <<crVars, queue, late, desired, outcome, failing, given>>
    PROVE  FieldInv'
<1> USE DEF FieldInv, crVars
<1>1. /\ latest' \in Resources /\ latest'.spec = r.spec /\ err' \in Errors
      /\ pc' = "finish"
      /\ Truthful(latest'.conds, err', failing) /\ Visible(latest'.conds, err')
    BY FailedStep DEF Pending
<1>2. ~late BY DEF Pending
<1>3. TypeOK' BY <1>1 DEF TypeOK
<1>4. Known' BY <1>1 DEF Known
<1>5. Sourced' BY <1>1 DEF Sourced, NothingInvented
<1>6. Pending' BY <1>1, <1>2 DEF Pending
<1>7. VerdictIsTrue' /\ ErrorVisible' BY DEF VerdictIsTrue, ErrorVisible
<1> QED BY <1>3, <1>4, <1>5, <1>6, <1>7

(* One that succeeded.                                                     *)
LEMMA SuccessInv ==
    ASSUME FieldInv, NEW r \in Resources, From(r.spec, given),
           NEW next \in {"prepare", "update", "late", "patch"}, Succeeded(r, next),
           pc \notin {"patch", "finish"},
           agent' \in Agents, From(agent'.spec, given),
           delta' \subseteq {"Spec", "AgentStatus"}, used' \in [Kinds -> Nat],
           UNCHANGED <<crVars, queue, late, desired, err, outcome, failing, given>>
    PROVE  FieldInv'
<1> USE DEF FieldInv, crVars
<1>1. /\ latest' \in Resources /\ latest'.spec = r.spec /\ pc' = next
      /\ latest'.conds.terminal # "True" /\ latest'.conds.recoverable # "True"
    BY SucceededStep
<1>2. ~late /\ err = "none" BY DEF Pending
<1>3. TypeOK' BY <1>1 DEF TypeOK
<1>4. Known' BY <1>1 DEF Known
<1>5. Sourced' BY <1>1 DEF Sourced, NothingInvented
<1>6. Pending' BY <1>1, <1>2 DEF Pending
<1>7. VerdictIsTrue' /\ ErrorVisible' BY DEF VerdictIsTrue, ErrorVisible
<1> QED BY <1>3, <1>4, <1>5, <1>6, <1>7

LEMMA ReadOneInv == FieldInv /\ ReadOne => FieldInv'
<1> SUFFICES ASSUME FieldInv, ReadOne PROVE FieldInv' OBVIOUS
<1> USE DEF FieldInv, crVars
<1>0. pc = "read" /\ desired \in Resources /\ From(desired.spec, given)
      /\ used \in [Kinds -> Nat] /\ given \subseteq FieldSpec
    BY DEF ReadOne, TypeOK, Sourced
<1>1. CASE NotFound /\ Goto("create")
           /\ UNCHANGED <<agent, queue, late, desired, latest, delta, err, used>>
    <2> USE <1>1 DEF ReadOne, Goto
    <2>1. TypeOK' BY DEF TypeOK
    <2>2. Known' BY DEF Known, NotFound
    <2>3. Sourced' BY DEF Sourced, NothingInvented
    <2>4. Pending' BY DEF Pending
    <2>5. VerdictIsTrue' /\ ErrorVisible' BY DEF VerdictIsTrue, ErrorVisible
    <2> QED BY <2>1, <2>2, <2>3, <2>4, <2>5
<1>2. ASSUME ~NotFound, NEW reply \in Replies(agent.spec), Read(reply),
             LET observed == Observed(desired, reply) IN
             IF ComparePanics(desired.spec, observed.spec)
             THEN Abandon
             ELSE /\ delta' = Delta(desired, observed)
                  /\ Succeeded(observed, UpdateCall(delta'))
                  /\ UNCHANGED <<agent, queue, late, desired, err>>
      PROVE  FieldInv'
    <2> DEFINE observed == Observed(desired, reply)
    <2>1. agent \in Agents /\ From(agent.spec, given) /\ agent.spec \in FieldSpec
        <3>1. agent \in Agents BY <1>2 DEF NotFound, Known
        <3>2. From(agent.spec, given)
            BY <3>1, FieldReconcilerAssumption DEF Sourced, NothingInvented
        <3> QED BY <3>1, <3>2 DEF Agents
    <2>2. observed \in Resources /\ From(observed.spec, given)
        BY <1>0, <2>1, ReplyResource DEF Observed
    <2>3. used' \in [Kinds -> Nat]
        BY <1>0, <1>2, SpendType DEF Read, Kinds
    <2>4. CASE ComparePanics(desired.spec, observed.spec)
        BY <1>2, <2>3, <2>4, AbandonStep DEF ReadOne
    <2>5. CASE ~ComparePanics(desired.spec, observed.spec)
        <3>1. delta' \subseteq {"Spec", "AgentStatus"} BY <1>2, <2>5 DEF Delta
        <3>2. UpdateCall(delta') \in {"prepare", "update", "late", "patch"}
            BY <3>1 DEF UpdateCall
        <3>3. UNCHANGED <<crVars, queue, late, desired, err, outcome, failing, given>>
            BY <1>2, <2>5 DEF ReadOne
        <3>4. Succeeded(observed, UpdateCall(delta')) /\ agent' = agent
            BY <1>2, <2>5
        <3> HIDE DEF FieldInv, observed
        <3> QED BY <1>0, <2>1, <2>2, <2>3, <3>1, <3>2, <3>3, <3>4, SuccessInv
    <2> QED BY <2>4, <2>5
<1>3. ASSUME ~NotFound, Spend("api"), NEW e \in ReadErrors, Failed(desired, e),
             UNCHANGED <<agent, queue, late, desired, delta>>
      PROVE  FieldInv'
    <2>1. used' \in [Kinds -> Nat] BY <1>0, <1>3, SpendType DEF Kinds
    <2>2. agent' \in Agents /\ e \in CallErrors
        BY <1>3 DEF Known, NotFound, ReadErrors, CallErrors
    <2>3. agent' # NoAgent => From(agent'.spec, given)
        BY <1>3 DEF Sourced, NothingInvented
    <2>4. delta' \subseteq {"Spec", "AgentStatus"} BY <1>3 DEF TypeOK
    <2>5. UNCHANGED <<crVars, queue, late, desired, outcome, failing, given>> BY <1>3 DEF ReadOne
    <2> HIDE DEF FieldInv
    <2> QED BY <1>0, <1>3, <2>1, <2>2, <2>3, <2>4, <2>5, FailureInv
<1> QED BY <1>1, <1>2, <1>3 DEF ReadOne

(* An agent somebody is about to change has a draft of given numbers.      *)
LEMMA AgentKnown ==
    ASSUME FieldInv, \/ pc \in {"prepare", "update", "late"}
                     \/ pc = "patch" /\ ~late
                     \/ crHasId
    PROVE  agent \in Agents /\ agent.spec \in FieldSpec /\ From(agent.spec, given)
<1>1. agent \in Agents BY DEF FieldInv, Known
<1> QED BY <1>1, FieldReconcilerAssumption DEF FieldInv, Sourced, NothingInvented, Agents

(* The errors a request can end with are those a call can end with.        *)
LEMMA RequestErrorsAreCallErrors ==
    ASSUME NEW spec, NEW request
    PROVE  /\ RequestErrors(spec, request) \subseteq CallErrors
           /\ RequestErrors(spec, request) = {} => ~OutOfRange(spec)
           /\ ReadErrors \subseteq CallErrors
BY DEF RequestErrors, CallErrors, ReadErrors

LEMMA CreateInv == FieldInv /\ Create => FieldInv'
<1> SUFFICES ASSUME FieldInv, Create PROVE FieldInv' OBVIOUS
<1> DEFINE request == NewCreateRequestPayload(desired.spec)
           errors  == RequestErrors(desired.spec, request)
<1>0. /\ pc = "create" /\ desired \in Resources /\ desired.spec \in FieldSpec
      /\ From(desired.spec, given) /\ used \in [Kinds -> Nat] /\ given \subseteq FieldSpec
      /\ ~crHasId /\ agent \in Agents \cup {NoAgent}
      /\ agent # NoAgent => From(agent.spec, given)
      /\ delta' \subseteq {"Spec", "AgentStatus"}
      /\ UNCHANGED <<crVars, queue, late, desired, outcome, failing, given>>
    BY DEF Create, FieldInv, TypeOK, Sourced, NothingInvented, Known, Resources, WorkerOnly
<1>1. ASSUME errors = {}, agent' = AgentAfter(request),
             NEW reply \in Replies(agent'.spec), Succeeded(Created(desired, reply), "patch"),
             UNCHANGED <<err, used>>
      PROVE  FieldInv'
    <2>1. agent' \in Agents /\ agent'.spec \in FieldSpec /\ From(agent'.spec, given)
        BY <1>0, <1>1, RequestErrorsAreCallErrors, AgentAfterRequest DEF Agents
    <2>2. Created(desired, reply) \in Resources /\ From(Created(desired, reply).spec, given)
        BY <1>0, <1>1, <2>1, ReplyResource DEF Created
    <2> QED BY <1>0, <1>1, <2>1, <2>2, SuccessInv
<1>2. ASSUME NEW e \in errors, Failed(desired, e), UNCHANGED <<agent, used>>
      PROVE  FieldInv'
    BY <1>0, <1>2, RequestErrorsAreCallErrors, FailureInv
<1>3. ASSUME Spend("api"), NEW e \in ReadErrors, Failed(desired, e), UNCHANGED agent
      PROVE  FieldInv'
    <2>1. used' \in [Kinds -> Nat] BY <1>0, <1>3, SpendType DEF Kinds
    <2> QED BY <1>0, <1>3, <2>1, RequestErrorsAreCallErrors, FailureInv
<1> QED BY <1>1, <1>2, <1>3 DEF Create

LEMMA PrepareInv == FieldInv /\ Prepare => FieldInv'
<1> SUFFICES ASSUME FieldInv, Prepare PROVE FieldInv' OBVIOUS
<1>0. /\ pc = "prepare" /\ desired \in Resources /\ latest \in Resources
      /\ From(desired.spec, given) /\ From(latest.spec, given)
      /\ used \in [Kinds -> Nat] /\ delta \subseteq {"Spec", "AgentStatus"}
      /\ UNCHANGED <<crVars, queue, late, desired, outcome, failing, given>>
    BY DEF Prepare, FieldInv, TypeOK, Sourced, WorkerOnly
<1>1. agent \in Agents /\ agent.spec \in FieldSpec /\ From(agent.spec, given)
    BY <1>0, AgentKnown
<1>2. ASSUME agent' = [agent EXCEPT !.prepared = TRUE]
      PROVE  agent' \in Agents /\ From(agent'.spec, given)
    BY <1>1, <1>2 DEF Agents
<1>3. ASSUME agent' = [agent EXCEPT !.prepared = TRUE], delta' = delta \ {"AgentStatus"},
             Succeeded(desired, "patch"), UNCHANGED <<err, used>>
      PROVE  FieldInv'
    BY <1>0, <1>2, <1>3, SuccessInv
<1>4. ASSUME agent' = [agent EXCEPT !.prepared = TRUE], delta' = delta \ {"AgentStatus"},
             Goto("update"), UNCHANGED <<latest, err, used>>
      PROVE  FieldInv'
    <2> USE <1>0, <1>4 DEF FieldInv, crVars, Goto
    <2>1. agent' \in Agents /\ From(agent'.spec, given) BY <1>2
    <2>2. TypeOK' BY <2>1 DEF TypeOK
    <2>3. Known' BY <2>1 DEF Known
    <2>4. Sourced' BY <2>1 DEF Sourced, NothingInvented
    <2>5. Pending' BY DEF Pending
    <2>6. VerdictIsTrue' /\ ErrorVisible' BY DEF VerdictIsTrue, ErrorVisible
    <2> QED BY <2>2, <2>3, <2>4, <2>5, <2>6
<1>5. ASSUME agent' = [agent EXCEPT !.prepared = TRUE], Spend("reply"),
             Failed(latest, "APIError"), UNCHANGED delta
      PROVE  FieldInv'
    <2>1. used' \in [Kinds -> Nat] BY <1>0, <1>5, SpendType DEF Kinds
    <2>2. "APIError" \in CallErrors BY DEF CallErrors
    <2> QED BY <1>0, <1>2, <1>5, <2>1, <2>2, FailureInv
<1>6. ASSUME Spend("api"), NEW e \in ReadErrors, Failed(latest, e), UNCHANGED <<agent, delta>>
      PROVE  FieldInv'
    <2>1. used' \in [Kinds -> Nat] BY <1>0, <1>6, SpendType DEF Kinds
    <2> QED BY <1>0, <1>1, <1>6, <2>1, RequestErrorsAreCallErrors, FailureInv
<1> QED BY <1>3, <1>4, <1>5, <1>6 DEF Prepare

LEMMA UpdateInv == FieldInv /\ Update => FieldInv'
<1> SUFFICES ASSUME FieldInv, Update PROVE FieldInv' OBVIOUS
<1> DEFINE request == NewUpdateRequestPayload(desired.spec)
           errors  == RequestErrors(desired.spec, request)
<1>0. /\ pc = "update" /\ desired \in Resources /\ desired.spec \in FieldSpec
      /\ latest \in Resources /\ From(desired.spec, given) /\ From(latest.spec, given)
      /\ used \in [Kinds -> Nat] /\ given \subseteq FieldSpec
      /\ delta' \subseteq {"Spec", "AgentStatus"}
      /\ UNCHANGED <<crVars, queue, late, desired, outcome, failing, given>>
    BY DEF Update, FieldInv, TypeOK, Sourced, Resources, WorkerOnly
<1>1. agent \in Agents /\ From(agent.spec, given) BY <1>0, AgentKnown
<1>2. ASSUME errors = {}, agent' = AgentAfter(request)
      PROVE  agent' \in Agents /\ agent'.spec \in FieldSpec /\ From(agent'.spec, given)
    BY <1>0, <1>2, RequestErrorsAreCallErrors, AgentAfterRequest
    DEF Agents, NewUpdateRequestPayload
<1>3. ASSUME errors = {}, agent' = AgentAfter(request),
             NEW reply \in Replies(agent'.spec), Succeeded(Updated(desired, reply), "patch"),
             UNCHANGED <<err, used>>
      PROVE  FieldInv'
    <2>1. Updated(desired, reply) \in Resources /\ From(Updated(desired, reply).spec, given)
        BY <1>0, <1>2, <1>3, ReplyResource DEF Updated
    <2> QED BY <1>0, <1>2, <1>3, <2>1, SuccessInv
<1>4. ASSUME errors = {}, agent' = AgentAfter(request), Spend("reply"),
             Failed(latest, "APIError")
      PROVE  FieldInv'
    <2>1. used' \in [Kinds -> Nat] BY <1>0, <1>4, SpendType DEF Kinds
    <2>2. "APIError" \in CallErrors BY DEF CallErrors
    <2> QED BY <1>0, <1>2, <1>4, <2>1, <2>2, FailureInv
<1>5. ASSUME NEW e \in errors, Failed(latest, e), UNCHANGED <<agent, used>>
      PROVE  FieldInv'
    BY <1>0, <1>1, <1>5, RequestErrorsAreCallErrors, FailureInv
<1>6. ASSUME Spend("api"), NEW e \in ReadErrors, Failed(latest, e), UNCHANGED agent
      PROVE  FieldInv'
    <2>1. used' \in [Kinds -> Nat] BY <1>0, <1>6, SpendType DEF Kinds
    <2> QED BY <1>0, <1>1, <1>6, <2>1, RequestErrorsAreCallErrors, FailureInv
<1> QED BY <1>3, <1>4, <1>5, <1>6 DEF Update

LEMMA LateInitializeInv == FieldInv /\ LateInitialize => FieldInv'
<1> SUFFICES ASSUME FieldInv, LateInitialize PROVE FieldInv' OBVIOUS
<1>0. /\ pc = "late" /\ desired \in Resources /\ latest \in Resources
      /\ latest.spec \in FieldSpec /\ latest.conds \in Conditions
      /\ From(desired.spec, given) /\ From(latest.spec, given)
      /\ used \in [Kinds -> Nat] /\ given \subseteq FieldSpec
      /\ latest.conds.terminal # "True" /\ latest.conds.recoverable # "True"
      /\ late' = TRUE /\ pc' = "patch" /\ desired' = [desired EXCEPT !.spec = latest.spec]
      /\ UNCHANGED <<crVars, agent, queue, delta, outcome, failing, given>>
    BY DEF LateInitialize, FieldInv, TypeOK, Sourced, Pending, Resources, Goto
<1>1. agent \in Agents /\ agent.spec \in FieldSpec /\ From(agent.spec, given)
    BY <1>0, AgentKnown
<1>2. desired' \in Resources /\ From(desired'.spec, given) BY <1>0 DEF Resources
<1>3. ASSUME used' \in [Kinds -> Nat], latest' \in Resources, From(latest'.spec, given),
             latest'.conds.terminal # "True", latest'.conds.recoverable # "True",
             err' \in Errors, err' # "none" <=> latest'.conds.lateInit = "False"
      PROVE  FieldInv'
    <2> USE <1>0, <1>3 DEF FieldInv, crVars
    <2>1. TypeOK' BY <1>2 DEF TypeOK
    <2>2. Known' BY DEF Known
    <2>3. Sourced' BY <1>2 DEF Sourced, NothingInvented
    <2>4. Pending' BY DEF Pending
    <2>5. VerdictIsTrue' /\ ErrorVisible' BY DEF VerdictIsTrue, ErrorVisible
    <2> QED BY <2>1, <2>2, <2>3, <2>4, <2>5
<1>4. ASSUME NEW reply \in Replies(agent.spec), Read(reply),
             LET filled == LateInitialized(latest, Observed(latest, reply))
                 done   == ~IncompleteLateInitialization(filled)
             IN  /\ latest' = [filled EXCEPT !.conds.lateInit = IF done THEN "True" ELSE "False"]
                 /\ err' = IF done THEN "none" ELSE "requeue"
      PROVE  FieldInv'
    <2> DEFINE observed == Observed(latest, reply)
               filled   == LateInitialized(latest, observed)
               done     == ~IncompleteLateInitialization(filled)
    <2>1. observed \in Resources /\ From(observed.spec, given)
        BY <1>0, <1>1, ReplyResource DEF Observed
    <2> HIDE DEF observed
    <2>2. \/ filled = latest
          \/ filled = [spec |-> [latest.spec EXCEPT !.prompts = observed.spec.prompts],
                       conds |-> latest.conds]
        BY <1>0 DEF LateInitialized, Resources
    <2>3. filled \in Resources /\ From(filled.spec, given) /\ filled.conds = latest.conds
        BY <1>0, <2>1, <2>2 DEF Resources, FieldSpec, From
    <2> HIDE DEF filled
    <2>4. /\ latest' = [filled EXCEPT !.conds.lateInit = IF done THEN "True" ELSE "False"]
          /\ err' = IF done THEN "none" ELSE "requeue"
        BY <1>4 DEF filled, observed
    <2> HIDE DEF done
    <2>5. /\ latest'.spec = filled.spec
          /\ latest'.conds = [latest.conds EXCEPT !.lateInit = IF done THEN "True" ELSE "False"]
          /\ latest' = [spec |-> latest'.spec, conds |-> latest'.conds]
        BY <2>3, <2>4 DEF Resources
    <2>6. latest'.conds \in Conditions BY <1>0, <2>5 DEF Conditions
    <2>7. latest' \in Resources BY <2>3, <2>5, <2>6 DEF Resources
    <2>8. /\ latest'.conds.terminal # "True" /\ latest'.conds.recoverable # "True"
          /\ err' # "none" <=> latest'.conds.lateInit = "False"
        BY <1>0, <2>4, <2>5 DEF Conditions
    <2>9. err' \in Errors BY <2>4 DEF Errors
    <2>10. used' \in [Kinds -> Nat] BY <1>0, <1>4, SpendType DEF Read, Kinds
    <2> QED BY <1>3, <2>3, <2>5, <2>7, <2>8, <2>9, <2>10
<1>5. ASSUME Spend("api"), NEW e \in ReadErrors, err' = OnError(latest.conds, e),
             latest' = [latest EXCEPT !.conds.lateInit = "False"]
      PROVE  FieldInv'
    <2>1. e \in CallErrors BY DEF ReadErrors, CallErrors
    <2>2. err' \in {"terminal", "recoverable"}
        BY <1>0, <1>5, <2>1, FailureVerdict
    <2>3. /\ latest'.spec = latest.spec
          /\ latest'.conds = [latest.conds EXCEPT !.lateInit = "False"]
          /\ latest' = [spec |-> latest'.spec, conds |-> latest'.conds]
        BY <1>0, <1>5 DEF Resources
    <2>4. latest'.conds \in Conditions BY <1>0, <2>3 DEF Conditions
    <2>5. latest' \in Resources BY <1>0, <2>3, <2>4 DEF Resources
    <2>6. /\ latest'.conds.terminal # "True" /\ latest'.conds.recoverable # "True"
          /\ latest'.conds.lateInit = "False"
        BY <1>0, <2>3 DEF Conditions
    <2>7. used' \in [Kinds -> Nat] BY <1>0, <1>5, SpendType DEF Kinds
    <2> QED BY <1>0, <1>3, <2>2, <2>3, <2>5, <2>6, <2>7 DEF Errors
<1> QED BY <1>4, <1>5 DEF LateInitialize

LEMMA PatchSpecInv == FieldInv /\ PatchSpec => FieldInv'
<1> SUFFICES ASSUME FieldInv, PatchSpec PROVE FieldInv' OBVIOUS
<1>0. /\ pc = "patch" /\ desired.spec \in FieldSpec /\ latest.spec \in FieldSpec
      /\ cr \in FieldSpec /\ From(desired.spec, given) /\ From(latest.spec, given)
      /\ From(cr, given) /\ used \in [Kinds -> Nat] /\ given \subseteq FieldSpec
      /\ UNCHANGED <<crConds, crHasId, outcome, failing, given>>
    BY DEF PatchSpec, FieldInv, TypeOK, Sourced, NothingInvented, Resources
<1>1. ASSUME cr' \in {Merge(latest.spec, desired.spec, cr)}
                       \cup IF Differs(desired.spec, latest.spec) THEN {} ELSE {cr},
             queue' = (IF cr' # cr THEN "due" ELSE queue),
             Goto(IF late THEN "finish" ELSE "late"),
             UNCHANGED <<agent, late, desired, latest, delta, err, used>>
      PROVE  FieldInv'
    <2> USE <1>0, <1>1 DEF FieldInv, Goto
    <2>1. cr' \in FieldSpec /\ From(cr', given) BY MergeNumbers
    <2>2. TypeOK' BY <2>1 DEF TypeOK
    <2>3. Known' BY DEF Known
    <2>4. Sourced' BY <2>1 DEF Sourced, NothingInvented
    <2>5. Pending' BY DEF Pending, Truthful, Visible, TypeOK, Errors
    <2>6. VerdictIsTrue' /\ ErrorVisible' BY DEF VerdictIsTrue, ErrorVisible
    <2> QED BY <2>2, <2>3, <2>4, <2>5, <2>6
<1>2. ASSUME Spend("k8s"), err' = "patch", Goto("finish"),
             UNCHANGED <<cr, agent, queue, late, desired, latest, delta>>
      PROVE  FieldInv'
    <2> USE <1>0, <1>2 DEF FieldInv, Goto
    <2>1. used' \in [Kinds -> Nat] BY SpendType DEF Kinds
    <2>2. TypeOK' BY <2>1 DEF TypeOK, Errors
    <2>3. Known' BY DEF Known
    <2>4. Sourced' BY DEF Sourced, NothingInvented
    <2>5. Pending' BY DEF Pending, Truthful, Visible
    <2>6. VerdictIsTrue' /\ ErrorVisible' BY DEF VerdictIsTrue, ErrorVisible
    <2> QED BY <2>2, <2>3, <2>4, <2>5, <2>6
<1>3. ASSUME Abandon, UNCHANGED <<cr, used>>
      PROVE  FieldInv'
    BY <1>0, <1>3, AbandonStep DEF crVars
<1> QED BY <1>1, <1>2, <1>3 DEF PatchSpec

LEMMA FinishInv == FieldInv /\ Finish => FieldInv'
<1> SUFFICES ASSUME FieldInv, Finish PROVE FieldInv' OBVIOUS
<1> USE DEF FieldInv
<1>1. /\ pc' = "idle" /\ late' = FALSE /\ delta' = {} /\ err' = "none"
      /\ desired' \in Resources /\ latest' \in Resources
      /\ From(desired'.spec, given') /\ From(latest'.spec, given')
      /\ desired'.conds = NoConditions /\ latest'.conds = NoConditions
    BY IdleStep DEF Finish
<1>2. Truthful(latest.conds, err, failing) /\ Visible(latest.conds, err) BY DEF Finish, Pending
<1>3. queue' \in {"empty", "due", "waiting"} BY DEF Finish, Requeue, TypeOK, Errors
<1>4. used' \in [Kinds -> Nat] BY SpendType DEF Finish, TypeOK, Kinds
<1>5. agent' \in {agent, NoAgent} /\ crHasId' \in BOOLEAN /\ (crHasId' => agent' \in Agents)
    <2>1. CASE crHasId' = (agent # NoAgent) /\ UNCHANGED agent
        <3>1. crHasId' \in BOOLEAN BY <2>1, Zenon
        <3> QED BY <2>1, <3>1 DEF TypeOK
    <2>2. CASE agent' = (IF crHasId THEN agent ELSE NoAgent) /\ UNCHANGED crHasId
        BY <2>2 DEF TypeOK, Known
    <2> QED BY <2>1, <2>2 DEF Finish
<1>6. crConds' \in Conditions /\ outcome' \in Errors /\ failing' \in BOOLEAN
    <2>1. failing \in BOOLEAN BY DEF TypeOK
    <2>2. failing' \in BOOLEAN BY <2>1 DEF Finish
    <2> QED BY <2>2 DEF Finish, TypeOK, Resources
<1>7. cr' = cr /\ given' = given BY DEF Finish
<1>8. TypeOK' BY <1>1, <1>3, <1>4, <1>5, <1>6, <1>7 DEF TypeOK, Errors
<1>9. Known' BY <1>1, <1>5 DEF Known
<1>10. Sourced' BY <1>1, <1>5, <1>7 DEF Sourced, NothingInvented
<1>11. Pending' BY <1>1 DEF Pending, NoConditions
<1>12. VerdictIsTrue' /\ ErrorVisible' /\ (crConds'.recoverable = "True" => failing')
    <2>1. CASE /\ crConds' = latest.conds /\ outcome' = err
               /\ failing' = (err = "recoverable" \/ (failing /\ err # "none"))
        BY <1>2, <2>1 DEF VerdictIsTrue, ErrorVisible, Truthful
    <2>2. CASE UNCHANGED <<crConds, outcome, failing>>
        BY <2>2 DEF VerdictIsTrue, ErrorVisible
    <2> QED BY <2>1, <2>2 DEF Finish
<1> QED BY <1>8, <1>9, <1>10, <1>11, <1>12

-----------------------------------------------------------------------------
(* What the CR says of numbers and of errors is right because it has been  *)
(* right at every step of the worker: the inductive invariant.             *)
THEOREM FieldsSafe == Spec => []FieldInv
<1>1. Init => FieldInv BY InitInv
<1>2. FieldInv /\ [Next]_vars => FieldInv'
    <2> SUFFICES ASSUME FieldInv, [Next]_vars PROVE FieldInv' OBVIOUS
    <2>1. CASE Worker
        BY <2>1, StartInv, ReadOneInv, CreateInv, PrepareInv, UpdateInv, LateInitializeInv,
           PatchSpecInv, FinishInv
        DEF Worker
    <2>2. CASE UserEdit \/ Restart \/ Resync \/ Drift
        BY <2>2, UserEditInv, RestartInv, ResyncInv, DriftInv
    <2>3. CASE UNCHANGED vars
        BY <2>3
        DEF FieldInv, TypeOK, Known, Sourced, NothingInvented, Pending, VerdictIsTrue,
            ErrorVisible, vars, crVars, workVars
    <2> QED BY <2>1, <2>2, <2>3 DEF Next
<1> QED BY <1>1, <1>2, PTL DEF Spec

(* No number in the CR or at AWS is an artefact of the narrowing to 32     *)
(* bits (sdk.go newCreateRequestPayload, newUpdateRequestPayload).         *)
THEOREM NumbersAreGiven == Spec => []NothingInvented
<1>1. FieldInv => NothingInvented BY DEF FieldInv, Sourced
<1> QED BY <1>1, FieldsSafe, PTL

(* Terminal is True in the CR only after a reconciliation that ended so,   *)
(* Recoverable only after one that ended recoverably, and then either it   *)
(* wrote the conditions, or Terminal has been set beside it and no success *)
(* has been recorded in between (sdk.go updateConditions).                 *)
THEOREM VerdictsAreTrue == Spec => []VerdictIsTrue
<1>1. FieldInv => VerdictIsTrue BY DEF FieldInv
<1> QED BY <1>1, FieldsSafe, PTL

(* Every error the manager reports can be seen in the CR (manager.go       *)
(* onError, LateInitialize).                                               *)
THEOREM ErrorsAreVisible == Spec => []ErrorVisible
<1>1. FieldInv => ErrorVisible BY DEF FieldInv
<1> QED BY <1>1, FieldsSafe, PTL
=============================================================================
