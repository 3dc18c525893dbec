-------------------------- MODULE FieldValuesProofs --------------------------
(***************************************************************************)
(* Proofs about the values of the fields. What a patch of the spec writes  *)
(* has the values that were set when the reconciliation read the CR, up to *)
(* the order and the rounding of AWS, provided nobody asks for two prompts *)
(* of one type; a value set since may be overwritten. And when a           *)
(* reconciliation succeeds, the CR and the agent agree.                    *)
(***************************************************************************)
EXTENDS FieldReconcilerProofs

KeptBy(new, old) ==
    /\ new.ttl = old.ttl \/ old.ttl = Nil
    /\ new.memory = old.memory
    /\ old.prompts # Nil => Substance(new.prompts) = Substance(old.prompts)

(* The payload of a prompt is a prompt of a request.                       *)
LEMMA PayloadType ==
    ASSUME NEW p \in Prompt
    PROVE  PromptPayload(p) \in RequestPrompt
<1>1. p.temperature # Nil => Round32[p.temperature] \in Floats64
    BY FieldAssumption DEF Prompt
<1> QED BY <1>1 DEF PromptPayload, Prompt, RequestPrompt

(* Rounding twice is rounding once.                                        *)
LEMMA PayloadTwice ==
    ASSUME NEW p \in Prompt
    PROVE  PromptPayload(PromptPayload(p)) = PromptPayload(p)
<1>1. \A t \in Floats64 : Round32[t] \in Floats64 /\ Round32[Round32[t]] = Round32[t]
    BY FieldAssumption
<1>2. Nil \notin Floats64 /\ Nil # "" BY FieldAssumption
<1>3. p.temperature = Nil \/ p.temperature \in Floats64 BY DEF Prompt
<1>4. p = [type |-> p.type, mode |-> p.mode, temperature |-> p.temperature] BY DEF Prompt
<1> QED BY <1>1, <1>2, <1>3, <1>4 DEF PromptPayload

(* The prompts of what AWS stores for a request.                           *)
LEMMA StoredPrompts ==
    ASSUME NEW spec \in FieldSpec, NEW stored, stored = Stored(NewCreateRequestPayload(spec))
    PROVE  /\ stored.prompts # Nil
           /\ DOMAIN stored.prompts = DOMAIN TypeOrder
           /\ \A i \in DOMAIN TypeOrder :
                 /\ stored.prompts[i].type = TypeOrder[i]
                 /\ \A j \in DOMAIN TypeOrder :
                       TypeOrder[i] = TypeOrder[j] => stored.prompts[i] = stored.prompts[j]
                 /\ stored.prompts[i].mode = "OVERRIDDEN" =>
                       /\ spec.prompts # Nil
                       /\ \E k \in DOMAIN spec.prompts :
                             /\ spec.prompts[k].mode = "OVERRIDDEN"
                             /\ stored.prompts[i] = PromptPayload(spec.prompts[k])
                 /\ spec.prompts # Nil =>
                       \A k \in DOMAIN spec.prompts :
                          spec.prompts[k].mode = "OVERRIDDEN" /\ spec.prompts[k].type = TypeOrder[i]
                          => stored.prompts[i].mode = "OVERRIDDEN"
<1> DEFINE request == NewCreateRequestPayload(spec)
           Asked(type) ==
               IF request.prompts = Nil THEN {}
               ELSE {p \in Range(request.prompts) : p.type = type /\ p.mode = "OVERRIDDEN"}
           PromptOf(type) ==
               IF Asked(type) # {} THEN CHOOSE p \in Asked(type) : TRUE
               ELSE [type |-> type, mode |-> "DEFAULT", temperature |-> DefaultTemperature]
<1>1. stored.prompts = [i \in DOMAIN TypeOrder |-> PromptOf(TypeOrder[i])]
    BY DEF Stored, Map
<1>2. ASSUME NEW type, Asked(type) = {}
      PROVE  PromptOf(type) = [type |-> type, mode |-> "DEFAULT", temperature |-> DefaultTemperature]
    BY <1>2
<1>3. ASSUME NEW type, Asked(type) # {}
      PROVE  PromptOf(type) \in Asked(type)
    BY <1>3
<1>4. ASSUME NEW type, Asked(type) # {}
      PROVE  /\ spec.prompts # Nil
             /\ \E k \in DOMAIN spec.prompts :
                   /\ spec.prompts[k].mode = "OVERRIDDEN"
                   /\ PromptOf(type) = PromptPayload(spec.prompts[k])
             /\ PromptOf(type).type = type /\ PromptOf(type).mode = "OVERRIDDEN"
    <2>1. PromptOf(type) \in Asked(type) BY <1>3, <1>4
    <2> HIDE DEF PromptOf
    <2>2. /\ request.prompts # Nil /\ PromptOf(type) \in Range(request.prompts)
          /\ PromptOf(type).type = type /\ PromptOf(type).mode = "OVERRIDDEN"
        BY <2>1
    <2>3. spec.prompts # Nil /\ spec.prompts \in Seq(Prompt)
        BY <2>2 DEF NewCreateRequestPayload, FieldSpec
    <2>4. request.prompts = [k \in DOMAIN spec.prompts |-> PromptPayload(spec.prompts[k])]
        BY <2>3 DEF NewCreateRequestPayload, Map
    <2>5. PICK k \in DOMAIN spec.prompts : PromptOf(type) = PromptPayload(spec.prompts[k])
        BY <2>2, <2>4 DEF Range
    <2>6. spec.prompts[k] \in Prompt BY <2>3
    <2>7. spec.prompts[k].mode = "OVERRIDDEN"
        BY <2>2, <2>5, <2>6 DEF PromptPayload, Prompt
    <2> QED BY <2>2, <2>3, <2>5, <2>7
<1>5. ASSUME spec.prompts # Nil, NEW k \in DOMAIN spec.prompts,
             spec.prompts[k].mode = "OVERRIDDEN"
      PROVE  Asked(spec.prompts[k].type) # {}
    <2>1. spec.prompts \in Seq(Prompt) BY <1>5 DEF FieldSpec
    <2>2. spec.prompts[k] \in Prompt BY <1>5, <2>1
    <2>3. request.prompts = [j \in DOMAIN spec.prompts |-> PromptPayload(spec.prompts[j])]
        BY <1>5 DEF NewCreateRequestPayload, Map
    <2>4. PromptPayload(spec.prompts[k]) \in Range(request.prompts)
        BY <1>5, <2>3 DEF Range
    <2>5. /\ PromptPayload(spec.prompts[k]).type = spec.prompts[k].type
          /\ PromptPayload(spec.prompts[k]).mode = "OVERRIDDEN"
        <3>1. spec.prompts[k].mode # Nil BY <1>5, FieldAssumption DEF Modes
        <3> QED BY <1>5, <2>2, <3>1 DEF PromptPayload, Prompt
    <2>6. request.prompts # Nil
        <3>1. \A j \in DOMAIN spec.prompts : request.prompts[j] \in RequestPrompt
            <4> SUFFICES ASSUME NEW j \in DOMAIN spec.prompts
                         PROVE  PromptPayload(spec.prompts[j]) \in RequestPrompt
                BY <2>3
            <4>1. spec.prompts[j] \in Prompt BY <2>1
            <4> QED BY <4>1, PayloadType
        <3>2. request.prompts \in Seq(RequestPrompt) BY <2>1, <2>3, <3>1, MapSeq
        <3> QED BY <3>2, FieldAssumption
    <2> QED BY <2>4, <2>5, <2>6
<1> HIDE DEF PromptOf, Asked
<1>6. ASSUME NEW type
      PROVE  PromptOf(type).type = type
    BY <1>2, <1>4
<1>7. ASSUME NEW type, PromptOf(type).mode = "OVERRIDDEN"
      PROVE  Asked(type) # {}
    BY <1>2, <1>7
<1>8. stored.prompts # Nil
    <2>1. \A i \in DOMAIN TypeOrder : TypeOrder[i] \in STRING BY Defaults
    <2>2. DOMAIN stored.prompts = DOMAIN TypeOrder BY <1>1
    <2>3. ASSUME NEW i \in DOMAIN TypeOrder
          PROVE  stored.prompts[i] \in RequestPrompt
        <3>1. stored.prompts[i] = PromptOf(TypeOrder[i]) BY <1>1
        <3>2. CASE Asked(TypeOrder[i]) = {}
            <4>1. TypeOrder[i] \in STRING BY <2>1
            <4>2. stored.prompts[i] = [type |-> TypeOrder[i], mode |-> "DEFAULT",
                                       temperature |-> DefaultTemperature]
                BY <1>2, <3>1, <3>2
            <4> QED BY <4>1, <4>2, Defaults DEF RequestPrompt, Modes
        <3>3. CASE Asked(TypeOrder[i]) # {}
            <4>1. PICK k \in DOMAIN spec.prompts :
                     spec.prompts # Nil /\ PromptOf(TypeOrder[i]) = PromptPayload(spec.prompts[k])
                BY <3>3, <1>4
            <4>2. spec.prompts[k] \in Prompt BY <4>1 DEF FieldSpec
            <4> QED BY <3>1, <4>1, <4>2, PayloadType
        <3> QED BY <3>2, <3>3
    <2>4. stored.prompts \in Seq(RequestPrompt) BY <1>1, <2>3, Defaults, MapSeq
    <2> QED BY <2>4, FieldAssumption
<1>9. ASSUME NEW i \in DOMAIN TypeOrder
      PROVE  stored.prompts[i] = PromptOf(TypeOrder[i])
    BY <1>1
<1>10. DOMAIN stored.prompts = DOMAIN TypeOrder BY <1>1
<1> SUFFICES ASSUME NEW i \in DOMAIN TypeOrder
             PROVE
                 /\ stored.prompts[i].type = TypeOrder[i]
                 /\ \A j \in DOMAIN TypeOrder :
                       TypeOrder[i] = TypeOrder[j] => stored.prompts[i] = stored.prompts[j]
                 /\ stored.prompts[i].mode = "OVERRIDDEN" =>
                       /\ spec.prompts # Nil
                       /\ \E k \in DOMAIN spec.prompts :
                             /\ spec.prompts[k].mode = "OVERRIDDEN"
                             /\ stored.prompts[i] = PromptPayload(spec.prompts[k])
                 /\ spec.prompts # Nil =>
                       \A k \in DOMAIN spec.prompts :
                          spec.prompts[k].mode = "OVERRIDDEN" /\ spec.prompts[k].type = TypeOrder[i]
                          => stored.prompts[i].mode = "OVERRIDDEN"
    BY <1>8, <1>10
<1>11. stored.prompts[i].type = TypeOrder[i] BY <1>6, <1>9
<1>12. \A j \in DOMAIN TypeOrder :
          TypeOrder[i] = TypeOrder[j] => stored.prompts[i] = stored.prompts[j]
    BY <1>9
<1>13. stored.prompts[i].mode = "OVERRIDDEN" =>
          /\ spec.prompts # Nil
          /\ \E k \in DOMAIN spec.prompts :
                /\ spec.prompts[k].mode = "OVERRIDDEN"
                /\ stored.prompts[i] = PromptPayload(spec.prompts[k])
    BY <1>4, <1>7, <1>9
<1>14. ASSUME spec.prompts # Nil, NEW k \in DOMAIN spec.prompts,
              spec.prompts[k].mode = "OVERRIDDEN", spec.prompts[k].type = TypeOrder[i]
       PROVE  stored.prompts[i].mode = "OVERRIDDEN"
    <2>1. Asked(TypeOrder[i]) # {} BY <1>5, <1>14
    <2> QED BY <2>1, <1>4, <1>9
<1> QED BY <1>11, <1>12, <1>13, <1>14

(* AWS has one prompt of each type, whatever it was asked for.             *)
LEMMA StoredOnePerType ==
    ASSUME NEW spec \in FieldSpec
    PROVE  OnePerType(Stored(NewCreateRequestPayload(spec)))
<1> DEFINE stored == Stored(NewCreateRequestPayload(spec))
<1>1. /\ DOMAIN stored.prompts = DOMAIN TypeOrder
      /\ \A i \in DOMAIN TypeOrder :
            /\ stored.prompts[i].type = TypeOrder[i]
            /\ \A j \in DOMAIN TypeOrder :
                  TypeOrder[i] = TypeOrder[j] => stored.prompts[i] = stored.prompts[j]
    BY StoredPrompts
<1> HIDE DEF stored
<1>2. OnePerType(stored) BY <1>1 DEF OnePerType, Range
<1> QED BY <1>2 DEF stored

(* The copy of a reply has one prompt of each type too.                    *)
LEMMA ReplyOnePerType ==
    ASSUME NEW draft \in FieldSpec, OnePerType(draft), NEW reply \in Replies(draft)
    PROVE  OnePerType(SpecFromReply(reply))
<1>1. reply = draft \/ reply = [draft EXCEPT !.prompts = Nil] BY DEF Replies
<1>2. reply.prompts = Nil \/ reply.prompts = draft.prompts BY <1>1 DEF FieldSpec
<1>3. CASE reply.prompts = Nil BY <1>3 DEF SpecFromReply, OnePerType
<1>4. CASE reply.prompts # Nil
    <2> DEFINE s == draft.prompts
               f == SpecFromReply(reply).prompts
    <2>1. s # Nil /\ f = [i \in DOMAIN s |-> PromptFromReply(s[i])]
        BY <1>2, <1>4 DEF SpecFromReply, Map
    <2>2. s \in Seq(Prompt) BY <2>1 DEF FieldSpec
    <2>3. ASSUME NEW i \in DOMAIN s, f[i].mode = "OVERRIDDEN"
          PROVE  f[i] = s[i]
        <3>1. s[i] \in Prompt BY <2>2
        <3>2. f[i] = PromptFromReply(s[i]) BY <2>1
        <3>3. Nil # "OVERRIDDEN" BY FieldAssumption DEF Modes
        <3> QED BY <2>3, <3>1, <3>2, <3>3 DEF PromptFromReply, Prompt
    <2>4. DOMAIN f = DOMAIN s BY <2>1
    <2> HIDE DEF f
    <2> QED BY <2>1, <2>3, <2>4 DEF OnePerType, f
<1> QED BY <1>3, <1>4

(* Prompts that have a mode are copied as they are.                        *)
LEMMA CopyIsExact ==
    ASSUME NEW prompts \in Seq(Prompt)
    PROVE  Map(PromptFromReply, prompts) = prompts
<1>1. ASSUME NEW p \in Prompt PROVE PromptFromReply(p) = p
    <2>1. p.mode # "" BY FieldAssumption DEF Prompt, Modes
    <2> QED BY <2>1 DEF PromptFromReply, Prompt
<1>2. \A i \in DOMAIN prompts : PromptFromReply(prompts[i]) = prompts[i] BY <1>1
<1>3. prompts = [i \in DOMAIN prompts |-> prompts[i]] OBVIOUS
<1> QED BY <1>2, <1>3 DEF Map

(* What comes back from a creation or an update keeps the values of the    *)
(* spec it was asked for.                                                  *)
LEMMA AnswerKeeps ==
    ASSUME NEW spec \in FieldSpec, ~OutOfRange(spec), OnePerType(spec),
           NEW reply \in Replies(Stored(NewCreateRequestPayload(spec)))
    PROVE  KeptBy(SpecFromReply(reply), spec)
<1> DEFINE request == NewCreateRequestPayload(spec)
           stored  == Stored(request)
           out     == SpecFromReply(reply)
<1>1. From(spec, {spec}) BY FromItself
<1>2. request.ttl = spec.ttl /\ request.memory = spec.memory BY <1>1, RequestNumbers
<1>3. stored \in FieldSpec BY <1>1, StoredNumbers
<1>4. spec.ttl # Nil => stored.ttl = spec.ttl BY <1>2 DEF Stored
<1>5. stored.memory = spec.memory BY <1>2 DEF Stored
<1>6. reply = stored \/ reply = [stored EXCEPT !.prompts = Nil] BY DEF Replies
<1>7. /\ reply.ttl = stored.ttl /\ reply.memory = stored.memory
      /\ reply.prompts = Nil \/ reply.prompts = stored.prompts
    BY <1>3, <1>6 DEF FieldSpec
<1>8. out.ttl = reply.ttl /\ out.memory = reply.memory BY DEF SpecFromReply
<1>9. (out.prompts = Nil) = (reply.prompts = Nil)
    <2>1. ASSUME reply.prompts # Nil
          PROVE  out.prompts # Nil
        <3>1. reply.prompts \in Seq(Prompt) BY <1>3, <1>7, <2>1 DEF FieldSpec
        <3>2. Map(PromptFromReply, reply.prompts) = reply.prompts
            BY <3>1, CopyIsExact
        <3> QED BY <2>1, <3>2 DEF SpecFromReply
    <2> QED BY <2>1 DEF SpecFromReply
(* Only a draft of defaults is shown without its prompts.                  *)
<1>10. ASSUME out.prompts = Nil, spec.prompts # Nil
       PROVE  Substance(out.prompts) = Substance(spec.prompts)
    <2>1. stored.prompts # Nil /\ DOMAIN stored.prompts = DOMAIN TypeOrder
        BY StoredPrompts
    <2>2. \A i \in DOMAIN TypeOrder : \A k \in DOMAIN spec.prompts :
             spec.prompts[k].mode = "OVERRIDDEN" /\ spec.prompts[k].type = TypeOrder[i]
             => stored.prompts[i].mode = "OVERRIDDEN"
        BY <1>10, StoredPrompts
    <2> HIDE DEF stored
    <2>3. reply \in Replies(stored) BY DEF stored
    <2>4. \A p \in Range(stored.prompts) : ~Overridden(p)
        BY <1>9, <1>10, <2>1, <2>3 DEF Replies
    <2>5. \A i \in DOMAIN stored.prompts : stored.prompts[i].mode = "DEFAULT"
        BY <2>4 DEF Overridden, Range
    <2>6. \A k \in DOMAIN spec.prompts : spec.prompts[k].mode # "OVERRIDDEN"
        <3> SUFFICES ASSUME NEW k \in DOMAIN spec.prompts,
                            spec.prompts[k].mode = "OVERRIDDEN"
                     PROVE  FALSE
            OBVIOUS
        <3>1. spec.prompts[k].type \in Range(TypeOrder) BY <1>10 DEF OnePerType
        <3>2. PICK i \in DOMAIN TypeOrder : TypeOrder[i] = spec.prompts[k].type
            BY <3>1 DEF Range
        <3> QED BY <2>1, <2>2, <2>5, <3>2
    <2>7. Substance(spec.prompts) = {} BY <2>6 DEF Substance, Range
    <2> QED BY <1>10, <2>7 DEF Substance
<1>11. ASSUME out.prompts # Nil, spec.prompts # Nil
      PROVE  Substance(out.prompts) = Substance(spec.prompts)
    <2> DEFINE s == spec.prompts
               f == stored.prompts
               g == out.prompts
    <2>1. /\ f # Nil
          /\ DOMAIN f = DOMAIN TypeOrder
          /\ \A i \in DOMAIN TypeOrder :
                 /\ f[i].type = TypeOrder[i]
                 /\ f[i].mode = "OVERRIDDEN" =>
                       \E k \in DOMAIN s :
                             /\ s[k].mode = "OVERRIDDEN"
                             /\ f[i] = PromptPayload(s[k])
                 /\ \A k \in DOMAIN s :
                          s[k].mode = "OVERRIDDEN" /\ s[k].type = TypeOrder[i]
                          => f[i].mode = "OVERRIDDEN"
        BY <1>11, StoredPrompts
    <2>2. f \in Seq(Prompt) BY <1>3, <2>1 DEF FieldSpec
    <2>3. s \in Seq(Prompt) BY <1>11 DEF FieldSpec
    <2>4. g = [i \in DOMAIN f |-> PromptFromReply(f[i])]
        BY <1>7, <1>9, <1>11 DEF SpecFromReply, Map
    <2>5. OnePerType(spec) /\ s # Nil /\ g # Nil BY <1>11
    <2> HIDE DEF f, g, s
    <2>6. ASSUME NEW i \in DOMAIN f
          PROVE  /\ g[i].mode = "OVERRIDDEN" <=> f[i].mode = "OVERRIDDEN"
                 /\ f[i].mode = "OVERRIDDEN" => g[i] = f[i]
        <3>1. f[i] \in Prompt BY <2>2
        <3>2. g[i] = PromptFromReply(f[i]) BY <2>4
        <3>3. Nil # "OVERRIDDEN" BY FieldAssumption DEF Modes
        <3> QED BY <3>1, <3>2, <3>3 DEF PromptFromReply, Prompt
    <2>7. ASSUME NEW x \in Substance(g)
          PROVE  x \in Substance(s)
        <3>1. PICK i \in DOMAIN g : g[i].mode = "OVERRIDDEN" /\ x = PromptPayload(g[i])
            BY <2>5, <2>7 DEF Substance, Range
        <3>2. i \in DOMAIN f /\ f[i].mode = "OVERRIDDEN" /\ g[i] = f[i] BY <2>4, <2>6, <3>1
        <3>3. PICK k \in DOMAIN s : s[k].mode = "OVERRIDDEN" /\ f[i] = PromptPayload(s[k])
            BY <2>1, <3>2
        <3>4. x = PromptPayload(s[k]) BY <2>3, <3>1, <3>2, <3>3, PayloadTwice
        <3> QED BY <2>5, <3>3, <3>4 DEF Substance, Range
    <2>8. ASSUME NEW x \in Substance(s)
          PROVE  x \in Substance(g)
        <3>1. PICK k \in DOMAIN s : s[k].mode = "OVERRIDDEN" /\ x = PromptPayload(s[k])
            BY <2>5, <2>8 DEF Substance, Range
        <3>2. s[k].type \in Range(TypeOrder)
            BY <1>11, <2>5, <3>1 DEF OnePerType, s
        <3>3. PICK i \in DOMAIN TypeOrder : TypeOrder[i] = s[k].type BY <3>2 DEF Range
        <3>4. f[i].mode = "OVERRIDDEN" /\ f[i].type = s[k].type BY <2>1, <3>1, <3>3
        <3>5. PICK m \in DOMAIN s : s[m].mode = "OVERRIDDEN" /\ f[i] = PromptPayload(s[m])
            BY <2>1, <3>3, <3>4
        <3>6. s[m].type = s[k].type
            <4>1. s[m] \in Prompt BY <2>3
            <4>2. PromptPayload(s[m]).type = s[m].type BY <4>1 DEF PromptPayload, Prompt
            <4> QED BY <3>4, <3>5, <4>2
        <3>7. s[m] = s[k] BY <1>11, <2>5, <3>1, <3>5, <3>6 DEF OnePerType, s
        <3>8. g[i] = x /\ g[i].mode = "OVERRIDDEN" BY <2>1, <2>6, <3>1, <3>3, <3>4, <3>5, <3>7
        <3>9. PromptPayload(g[i]) = x BY <2>3, <3>1, <3>8, PayloadTwice
        <3>10. g[i] \in Range(g) BY <2>1, <2>4, <3>3 DEF Range
        <3> QED BY <2>5, <3>8, <3>9, <3>10 DEF Substance
    <2> QED BY <2>7, <2>8 DEF g, s
<1> HIDE DEF out
<1>12. KeptBy(out, spec) BY <1>4, <1>5, <1>7, <1>8, <1>10, <1>11 DEF KeptBy
<1> QED BY <1>12 DEF out

(* A merge patch takes the prompts of one side.                            *)
LEMMA MergeOnePerType ==
    ASSUME NEW new \in FieldSpec, NEW old \in FieldSpec, NEW onto \in FieldSpec,
           OnePerType(new), OnePerType(onto)
    PROVE  OnePerType(Merge(new, old, onto))
<1>1. DOMAIN onto = {"ttl", "memory", "prompts"} BY DEF FieldSpec
<1>2. Merge(new, old, onto).prompts \in {new.prompts, onto.prompts} BY <1>1 DEF Merge
<1> QED BY <1>2 DEF OnePerType

(* What a patch does not change, it keeps.                                 *)
LEMMA PatchKeeps ==
    ASSUME NEW new \in FieldSpec, NEW old \in FieldSpec, NEW onto \in FieldSpec,
           NEW merged, merged = Merge(new, old, onto), KeptBy(new, old)
    PROVE  /\ merged.ttl # onto.ttl => old.ttl = Nil
           /\ merged.memory = onto.memory
           /\ merged.prompts # onto.prompts /\ old.prompts # Nil
                 => Substance(merged.prompts) = Substance(old.prompts)
<1>1. DOMAIN onto = {"ttl", "memory", "prompts"} BY DEF FieldSpec
<1>2. /\ merged.ttl = IF new.ttl # old.ttl THEN new.ttl ELSE onto.ttl
      /\ merged.memory = IF new.memory # old.memory THEN new.memory ELSE onto.memory
      /\ merged.prompts = IF new.prompts # old.prompts THEN new.prompts ELSE onto.prompts
    BY <1>1 DEF Merge
<1> QED BY <1>2 DEF KeptBy

(* Every spec in use asks for one prompt of each type, and a spec about to *)
(* be patched keeps the values of the one it is compared with.             *)
Kept ==
    /\ OnePerType(cr) /\ OnePerType(desired.spec) /\ OnePerType(latest.spec)
    /\ agent # NoAgent => OnePerType(agent.spec)
    /\ pc = "patch" => KeptBy(latest.spec, desired.spec)

(* The empty resource asks for no prompt.                                  *)
LEMMA BlankOnePerType == OnePerType(Blank.spec)
BY DEF OnePerType, Blank

(* A reconciliation that is given up leaves the CR as it is.               *)
LEMMA AbandonKept ==
    ASSUME Kept, Abandon, cr' = cr
    PROVE  Kept'
<1>1. desired' = Blank /\ latest' = Blank /\ pc' = "idle" BY DEF Abandon, Idle, Goto
<1>2. agent' = agent \/ agent' = NoAgent BY DEF Abandon
<1> QED BY <1>1, <1>2, BlankOnePerType DEF Kept

(* A failing call keeps the spec it reports.                               *)
LEMMA FailureKept ==
    ASSUME Kept, NEW r \in Resources, OnePerType(r.spec), NEW e, Failed(r, e),
           cr' = cr, desired' = desired, agent' # NoAgent => OnePerType(agent'.spec)
    PROVE  Kept'
<1>1. latest' = [spec |-> r.spec, conds |-> UpdateConditions(r.conds, e)] /\ pc' = "finish"
    BY DEF Failed, Goto, Resources
<1> QED BY <1>1 DEF Kept

(* A call that succeeds keeps the spec it reports.                         *)
LEMMA SuccessKept ==
    ASSUME Kept, NEW r \in Resources, OnePerType(r.spec), NEW next, Succeeded(r, next),
           next = "patch" => KeptBy(r.spec, desired.spec),
           cr' = cr, desired' = desired, agent' # NoAgent => OnePerType(agent'.spec)
    PROVE  Kept'
<1>1. latest'.spec = r.spec /\ pc' = next BY SucceededStep
<1> QED BY <1>1 DEF Kept

(* What the two requests leave behind.                                     *)
LEMMA RequestKept ==
    ASSUME NEW spec \in FieldSpec
    PROVE  /\ AgentAfter(NewCreateRequestPayload(spec)).spec = Stored(NewCreateRequestPayload(spec))
           /\ OnePerType(AgentAfter(NewCreateRequestPayload(spec)).spec)
BY StoredOnePerType DEF AgentAfter

(* One lemma for each action of the worker.                                *)
LEMMA ReadOneKept == FieldInv /\ Kept /\ ReadOne => Kept'
<1> SUFFICES ASSUME FieldInv, Kept, ReadOne PROVE Kept' OBVIOUS
<1>0. /\ pc = "read" /\ desired \in Resources /\ desired.spec \in FieldSpec /\ cr' = cr
      /\ given \subseteq FieldSpec
    BY DEF ReadOne, FieldInv, TypeOK, Resources, crVars
<1>1. CASE Goto("create") /\ UNCHANGED <<agent, desired, latest>>
    BY <1>0, <1>1 DEF Kept, Goto
<1>2. ASSUME ~NotFound, NEW reply \in Replies(agent.spec),
             LET observed == Observed(desired, reply) IN
             IF ComparePanics(desired.spec, observed.spec)
             THEN Abandon
             ELSE /\ delta' = Delta(desired, observed)
                  /\ Succeeded(observed, UpdateCall(delta'))
                  /\ UNCHANGED <<agent, queue, late, desired, err>>
      PROVE  Kept'
    <2> DEFINE observed == Observed(desired, reply)
    <2>1. agent \in Agents /\ agent # NoAgent /\ agent.spec \in FieldSpec /\ From(agent.spec, given)
        BY <1>2, AgentKnown, FieldReconcilerAssumption DEF NotFound
    <2>2. OnePerType(SpecFromReply(reply)) BY <2>1, ReplyOnePerType DEF Kept
    <2>3. observed \in Resources /\ observed.spec = SpecFromReply(reply)
        BY <1>0, <2>1, ReplyResource DEF Observed, Resources
    <2>4. CASE ComparePanics(desired.spec, observed.spec)
        BY <1>0, <1>2, <2>4, AbandonKept
    <2>5. CASE ~ComparePanics(desired.spec, observed.spec)
        <3>1. delta' \subseteq {"Spec", "AgentStatus"} BY <1>2, <2>5 DEF Delta
        <3>2. UpdateCall(delta') # "patch" BY <3>1 DEF UpdateCall
        <3>3. /\ Succeeded(observed, UpdateCall(delta'))
              /\ agent' = agent /\ desired' = desired
            BY <1>2, <2>5
        <3>4. agent' # NoAgent => OnePerType(agent'.spec) BY <3>3 DEF Kept
        <3> HIDE DEF observed
        <3> QED BY <1>0, <2>2, <2>3, <3>2, <3>3, <3>4, SuccessKept
    <2> QED BY <2>4, <2>5
<1>3. ASSUME NEW e \in ReadErrors, Failed(desired, e), UNCHANGED <<agent, desired>>
      PROVE  Kept'
    BY <1>0, <1>3, FailureKept DEF Kept
<1> QED BY <1>1, <1>2, <1>3 DEF ReadOne

LEMMA CreateKept == FieldInv /\ Kept /\ Create => Kept'
<1> SUFFICES ASSUME FieldInv, Kept, Create PROVE Kept' OBVIOUS
<1> DEFINE request == NewCreateRequestPayload(desired.spec)
           errors  == RequestErrors(desired.spec, request)
<1>0. /\ desired \in Resources /\ desired.spec \in FieldSpec /\ OnePerType(desired.spec)
      /\ cr' = cr /\ desired' = desired
    BY DEF Create, FieldInv, TypeOK, Resources, WorkerOnly, crVars, Kept
<1>1. ASSUME errors = {}, agent' = AgentAfter(request),
             NEW reply \in Replies(agent'.spec), Succeeded(Created(desired, reply), "patch")
      PROVE  Kept'
    <2>1. agent'.spec = Stored(request) /\ OnePerType(agent'.spec)
        BY <1>0, <1>1, RequestKept
    <2>2. ~OutOfRange(desired.spec) BY <1>1, RequestErrorsAreCallErrors
    <2>3. KeptBy(SpecFromReply(reply), desired.spec)
        BY <1>0, <1>1, <2>1, <2>2, AnswerKeeps
    <2>4. From(desired.spec, {desired.spec}) BY <1>0, FromItself
    <2>5. /\ Stored(request) \in FieldSpec
          /\ From(Stored(request), {desired.spec})
        BY <1>0, <2>2, <2>4, StoredNumbers
    <2>6. OnePerType(SpecFromReply(reply)) BY <1>1, <2>1, <2>5, ReplyOnePerType
    <2>7. /\ Created(desired, reply) \in Resources
          /\ Created(desired, reply).spec = SpecFromReply(reply)
        BY <1>0, <1>1, <2>1, <2>5, ReplyResource DEF Created, Resources
    <2> QED BY <1>0, <1>1, <2>1, <2>3, <2>6, <2>7, SuccessKept
<1>2. ASSUME NEW e, Failed(desired, e), UNCHANGED agent
      PROVE  Kept'
    BY <1>0, <1>2, FailureKept DEF Kept
<1> QED BY <1>1, <1>2 DEF Create

LEMMA PrepareKept == FieldInv /\ Kept /\ Prepare => Kept'
<1> SUFFICES ASSUME FieldInv, Kept, Prepare PROVE Kept' OBVIOUS
<1>0. /\ pc = "prepare" /\ desired \in Resources /\ latest \in Resources
      /\ OnePerType(desired.spec) /\ OnePerType(latest.spec)
      /\ cr' = cr /\ desired' = desired
    BY DEF Prepare, FieldInv, TypeOK, WorkerOnly, crVars, Kept
<1>1. agent \in Agents /\ agent # NoAgent
    BY <1>0, AgentKnown, FieldReconcilerAssumption
<1>2. ASSUME agent' = [agent EXCEPT !.prepared = TRUE]
      PROVE  agent'.spec = agent.spec /\ OnePerType(agent'.spec)
    BY <1>1, <1>2 DEF Agents, Kept
<1>3. KeptBy(desired.spec, desired.spec) BY DEF KeptBy
<1>4. ASSUME agent' = [agent EXCEPT !.prepared = TRUE], Succeeded(desired, "patch")
      PROVE  Kept'
    BY <1>0, <1>2, <1>3, <1>4, SuccessKept
<1>5. ASSUME agent' = [agent EXCEPT !.prepared = TRUE], Goto("update"), UNCHANGED latest
      PROVE  Kept'
    BY <1>0, <1>2, <1>5 DEF Kept, Goto
<1>6. ASSUME agent' = [agent EXCEPT !.prepared = TRUE] \/ UNCHANGED agent,
             NEW e, Failed(latest, e)
      PROVE  Kept'
    <2>1. OnePerType(agent'.spec) BY <1>1, <1>2, <1>6 DEF Kept
    <2> QED BY <1>0, <1>6, <2>1, FailureKept
<1> QED BY <1>4, <1>5, <1>6 DEF Prepare

LEMMA UpdateKept == FieldInv /\ Kept /\ Update => Kept'
<1> SUFFICES ASSUME FieldInv, Kept, Update PROVE Kept' OBVIOUS
<1> DEFINE request == NewCreateRequestPayload(desired.spec)
           errors  == RequestErrors(desired.spec, request)
<1>0. /\ desired \in Resources /\ desired.spec \in FieldSpec /\ OnePerType(desired.spec)
      /\ latest \in Resources /\ OnePerType(latest.spec)
      /\ cr' = cr /\ desired' = desired
    BY DEF Update, FieldInv, TypeOK, Resources, WorkerOnly, crVars, Kept
<1>1. ASSUME agent' = AgentAfter(request)
      PROVE  agent'.spec = Stored(request) /\ OnePerType(agent'.spec)
    BY <1>0, <1>1, RequestKept
<1>2. ASSUME errors = {}, agent' = AgentAfter(request),
             NEW reply \in Replies(agent'.spec), Succeeded(Updated(desired, reply), "patch")
      PROVE  Kept'
    <2>1. agent'.spec = Stored(request) /\ OnePerType(agent'.spec) BY <1>1, <1>2
    <2>2. ~OutOfRange(desired.spec) BY <1>2, RequestErrorsAreCallErrors
    <2>3. KeptBy(SpecFromReply(reply), desired.spec)
        BY <1>0, <1>2, <2>1, <2>2, AnswerKeeps
    <2>4. From(desired.spec, {desired.spec}) BY <1>0, FromItself
    <2>5. /\ Stored(request) \in FieldSpec
          /\ From(Stored(request), {desired.spec})
        BY <1>0, <2>2, <2>4, StoredNumbers
    <2>6. OnePerType(SpecFromReply(reply)) BY <1>2, <2>1, <2>5, ReplyOnePerType
    <2>7. /\ Updated(desired, reply) \in Resources
          /\ Updated(desired, reply).spec = SpecFromReply(reply)
        BY <1>0, <1>2, <2>1, <2>5, ReplyResource DEF Updated, Resources
    <2> QED BY <1>0, <1>2, <2>1, <2>3, <2>6, <2>7, SuccessKept
<1>3. ASSUME NEW e, Failed(latest, e), agent' = AgentAfter(request) \/ UNCHANGED agent
      PROVE  Kept'
    <2>1. agent' # NoAgent => OnePerType(agent'.spec) BY <1>1, <1>3 DEF Kept
    <2> QED BY <1>0, <1>3, <2>1, FailureKept
<1> QED BY <1>2, <1>3 DEF Update, NewUpdateRequestPayload

(* Late initialization fills in the prompts or leaves them.                *)
LEMMA LateInitializeKept == FieldInv /\ Kept /\ LateInitialize => Kept'
<1> SUFFICES ASSUME FieldInv, Kept, LateInitialize PROVE Kept' OBVIOUS
<1>0. /\ pc = "late" /\ desired \in Resources /\ latest \in Resources
      /\ latest.spec \in FieldSpec /\ given \subseteq FieldSpec
      /\ OnePerType(latest.spec)
      /\ desired' = [desired EXCEPT !.spec = latest.spec]
      /\ UNCHANGED <<cr, agent>>
    BY DEF LateInitialize, FieldInv, TypeOK, Resources, crVars, Kept
<1>1. agent \in Agents /\ agent # NoAgent /\ agent.spec \in FieldSpec /\ From(agent.spec, given)
    BY <1>0, AgentKnown, FieldReconcilerAssumption
<1>2. desired'.spec = latest.spec BY <1>0 DEF Resources
<1>3. ASSUME OnePerType(latest'.spec), KeptBy(latest'.spec, latest.spec)
      PROVE  Kept'
    BY <1>0, <1>2, <1>3 DEF Kept
<1>4. ASSUME NEW reply \in Replies(agent.spec), NEW status,
             latest' = [LateInitialized(latest, Observed(latest, reply))
                           EXCEPT !.conds.lateInit = status]
      PROVE  Kept'
    <2> DEFINE observed == Observed(latest, reply)
               filled   == LateInitialized(latest, observed)
    <2>1. OnePerType(SpecFromReply(reply)) BY <1>1, ReplyOnePerType DEF Kept
    <2>2. observed.spec = SpecFromReply(reply) BY <1>0 DEF Observed, Resources
    <2>3. \/ filled = latest
          \/ /\ latest.spec.prompts = Nil
             /\ filled = [spec |-> [latest.spec EXCEPT !.prompts = observed.spec.prompts],
                          conds |-> latest.conds]
        BY <1>0 DEF LateInitialized, Resources
    <2> HIDE DEF filled, observed
    <2>4. latest'.spec = filled.spec
        <3>1. \E s, c : filled = [spec |-> s, conds |-> c] BY <1>0, <2>3 DEF Resources
        <3>2. latest' = [filled EXCEPT !.conds.lateInit = status] BY <1>4 DEF filled, observed
        <3> QED BY <3>1, <3>2
    <2>5. CASE filled = latest BY <1>0, <1>3, <2>4, <2>5 DEF KeptBy
    <2>6. CASE filled # latest
        <3>1. filled.spec = [latest.spec EXCEPT !.prompts = observed.spec.prompts]
              /\ latest.spec.prompts = Nil
            BY <2>3, <2>6
        <3>2. /\ filled.spec.prompts = observed.spec.prompts
              /\ filled.spec.ttl = latest.spec.ttl /\ filled.spec.memory = latest.spec.memory
            BY <1>0, <3>1 DEF FieldSpec
        <3>3. OnePerType(filled.spec) BY <2>1, <2>2, <3>2 DEF OnePerType
        <3>4. KeptBy(filled.spec, latest.spec) BY <3>1, <3>2 DEF KeptBy
        <3> QED BY <1>3, <2>4, <3>3, <3>4
    <2> QED BY <2>5, <2>6
<1>5. ASSUME latest' = [latest EXCEPT !.conds.lateInit = "False"]
      PROVE  Kept'
    <2>1. latest'.spec = latest.spec BY <1>0, <1>5 DEF Resources
    <2> QED BY <1>0, <1>3, <2>1 DEF KeptBy
<1> QED BY <1>4, <1>5 DEF LateInitialize

LEMMA PatchSpecKept == FieldInv /\ Kept /\ PatchSpec => Kept'
<1> SUFFICES ASSUME FieldInv, Kept, PatchSpec PROVE Kept' OBVIOUS
<1>0. /\ pc = "patch" /\ desired.spec \in FieldSpec /\ latest.spec \in FieldSpec
      /\ cr \in FieldSpec
    BY DEF PatchSpec, FieldInv, TypeOK, Resources
<1>1. ASSUME cr' \in {Merge(latest.spec, desired.spec, cr), cr},
             pc' # "patch", UNCHANGED <<agent, desired, latest>>
      PROVE  Kept'
    <2>1. OnePerType(cr') BY <1>0, <1>1, MergeOnePerType DEF Kept
    <2> QED BY <1>1, <2>1 DEF Kept
<1>2. ASSUME Abandon, UNCHANGED cr
      PROVE  Kept'
    BY <1>2, AbandonKept
<1>3. CASE /\ cr' \in {Merge(latest.spec, desired.spec, cr)}
                       \cup IF Differs(desired.spec, latest.spec) THEN {} ELSE {cr}
           /\ Goto(IF late THEN "finish" ELSE "late") /\ UNCHANGED <<agent, desired, latest>>
    BY <1>1, <1>3 DEF Goto
<1>4. CASE Goto("finish") /\ UNCHANGED <<cr, agent, desired, latest>>
    BY <1>1, <1>4 DEF Goto
<1> QED BY <1>2, <1>3, <1>4 DEF PatchSpec

LEMMA FinishKept == Kept /\ Finish => Kept'
<1> SUFFICES ASSUME Kept, Finish PROVE Kept' OBVIOUS
<1>1. desired' = Blank /\ latest' = Blank /\ pc' = "idle" /\ cr' = cr BY DEF Finish, Idle, Goto
<1>2. agent' = agent \/ agent' = NoAgent BY DEF Finish
<1> QED BY <1>1, <1>2, BlankOnePerType DEF Kept

(* The other actions leave the worker's spec alone, or start from the CR.  *)
LEMMA OthersKept ==
    ASSUME \A s \in UserSpecs : OnePerType(s), FieldInv, Kept,
           Start \/ UserEdit \/ Restart \/ Resync \/ Drift
    PROVE  Kept'
<1> USE DEF crVars, workVars
<1>1. CASE Start
    <2>1. desired'.spec = cr /\ latest' = desired' /\ pc' = "read" /\ UNCHANGED <<cr, agent>>
        BY <1>1 DEF Start, Goto
    <2> QED BY <2>1 DEF Kept
<1>2. CASE UserEdit BY <1>2 DEF UserEdit, Kept
<1>3. CASE Restart BY <1>3, AbandonKept DEF Restart
<1>4. CASE Resync BY <1>4 DEF Resync, Kept
<1>5. CASE Drift
    <2>1. PICK s \in DriftSpecs : agent' = AgentAfter(NewUpdateRequestPayload(s))
        BY <1>5 DEF Drift
    <2>2. OnePerType(agent'.spec)
        BY <2>1, RequestKept, FieldReconcilerAssumption DEF NewUpdateRequestPayload
    <2> QED BY <1>5, <2>2 DEF Drift, Kept
<1> QED BY <1>1, <1>2, <1>3, <1>4, <1>5

-----------------------------------------------------------------------------
(* A patch of the spec fills in what was not set when the CR was read, or  *)
(* writes the value that was read in the form AWS gives it (sdk.go         *)
(* sdkUpdate, manager.go lateInitializeFromReadOneOutput), whatever else   *)
(* goes on meanwhile, if no user asks for two different prompts of one     *)
(* type.                                                                   *)
THEOREM PatchesKeepWhatWasRead ==
    ASSUME \A s \in UserSpecs : OnePerType(s)
    PROVE  Spec => PatchKeepsWhatWasRead
<1> DEFINE Step == pc = "patch" /\ pc' # "patch" =>
                      /\ cr'.ttl # cr.ttl => desired.spec.ttl = Nil
                      /\ cr'.memory = cr.memory
                      /\ cr'.prompts # cr.prompts /\ desired.spec.prompts # Nil =>
                            Substance(cr'.prompts) = Substance(desired.spec.prompts)
<1>1. Init => Kept
    BY BlankOnePerType DEF Init, Kept
<1>2. FieldInv /\ Kept /\ [Next]_vars => Kept'
    <2> SUFFICES ASSUME FieldInv, Kept, [Next]_vars PROVE Kept' OBVIOUS
    <2>1. CASE Worker
        BY <2>1, OthersKept, ReadOneKept, CreateKept, PrepareKept, UpdateKept,
           LateInitializeKept, PatchSpecKept, FinishKept
        DEF Worker
    <2>2. CASE UserEdit \/ Restart \/ Resync \/ Drift BY <2>2, OthersKept
    <2>3. CASE UNCHANGED vars BY <2>3 DEF Kept, vars, crVars, workVars
    <2> QED BY <2>1, <2>2, <2>3 DEF Next
<1>3. FieldInv /\ Kept /\ [Next]_vars => [Step]_vars
    <2> SUFFICES ASSUME FieldInv, Kept, [Next]_vars, pc = "patch", pc' # "patch", cr' # cr
                 PROVE  /\ cr'.ttl # cr.ttl => desired.spec.ttl = Nil
                        /\ cr'.memory = cr.memory
                        /\ cr'.prompts # cr.prompts /\ desired.spec.prompts # Nil =>
                              Substance(cr'.prompts) = Substance(desired.spec.prompts)
        OBVIOUS
    <2>1. PatchSpec
        BY DEF Next, Worker, Start, ReadOne, Create, Prepare, Update, LateInitialize, Finish,
               UserEdit, Restart, Resync, Drift, vars, crVars, workVars
    <2>2. cr' = Merge(latest.spec, desired.spec, cr)
        BY <2>1 DEF PatchSpec
    <2>3. desired.spec \in FieldSpec /\ latest.spec \in FieldSpec /\ cr \in FieldSpec
        BY DEF FieldInv, TypeOK, Resources
    <2>4. KeptBy(latest.spec, desired.spec) BY DEF Kept
    <2> QED BY <2>2, <2>3, <2>4, PatchKeeps
<1> QED BY <1>1, <1>2, <1>3, FieldsSafe, PTL DEF Spec, PatchKeepsWhatWasRead
-----------------------------------------------------------------------------
(* What the comparison finds no difference between.                        *)
LEMMA SameIsSame == ASSUME NEW a PROVE ~Differs(a, a)
BY DEF Differs, CompareMemory, ComparePrompts, PromptsDiffer

LEMMA SameAsSame ==
    ASSUME NEW a, NEW b, NEW c, ~Differs(a, b), ~Differs(b, c)
    PROVE  ~Differs(a, c)
<1>1. a.ttl = c.ttl BY DEF Differs
<1>2. /\ a.memory = Nil <=> c.memory = Nil
      /\ a.memory # Nil /\ c.memory # Nil => a.memory.days = c.memory.days
    BY DEF Differs, CompareMemory
<1>3. ~ComparePrompts(a.prompts, c.prompts)
    BY DEF Differs, CompareMemory, ComparePrompts, PromptsDiffer
<1> QED BY <1>1, <1>2, <1>3 DEF Differs, CompareMemory

(* A reply shows the draft, or the draft without its prompts.              *)
LEMMA ReplyShows ==
    ASSUME NEW draft \in FieldSpec, NEW reply \in Replies(draft)
    PROVE  SpecFromReply(reply) \in {draft, [draft EXCEPT !.prompts = Nil]}
<1>1. reply \in {draft, [draft EXCEPT !.prompts = Nil]} BY DEF Replies
<1>2. reply \in FieldSpec BY <1>1 DEF FieldSpec
<1>3. ASSUME reply.prompts # Nil
      PROVE  Map(PromptFromReply, reply.prompts) = reply.prompts
    <2>1. reply.prompts \in Seq(Prompt) BY <1>2, <1>3 DEF FieldSpec
    <2> QED BY <2>1, CopyIsExact
<1>4. SpecFromReply(reply) = [ttl |-> reply.ttl, memory |-> reply.memory, prompts |-> reply.prompts]
    BY <1>3 DEF SpecFromReply
<1> QED BY <1>1, <1>2, <1>4 DEF FieldSpec

(* What it shows is the draft up to prompts that are not there yet, and so *)
(* is a spec that does not differ from it.                                 *)
LEMMA ReplyIsNear ==
    ASSUME NEW draft \in FieldSpec, NEW reply \in Replies(draft)
    PROVE  Near(SpecFromReply(reply), draft)
<1>1. Filled(SpecFromReply(reply), draft) = draft BY ReplyShows DEF Filled, FieldSpec
<1> QED BY <1>1, SameIsSame DEF Near

LEMMA SameAsReplyIsNear ==
    ASSUME NEW draft \in FieldSpec, NEW reply \in Replies(draft), NEW spec \in FieldSpec,
           ~Differs(spec, SpecFromReply(reply))
    PROVE  Near(spec, draft)
<1> DEFINE shown == SpecFromReply(reply)
<1>1. shown \in {draft, [draft EXCEPT !.prompts = Nil]} BY ReplyShows
<1> HIDE DEF shown
<1>2. ~Differs(spec, shown) BY DEF shown
<1>3. shown.ttl = draft.ttl /\ shown.memory = draft.memory BY <1>1 DEF FieldSpec
<1>4. /\ spec.ttl = draft.ttl
      /\ (spec.memory = Nil) = (draft.memory = Nil)
      /\ spec.memory # Nil /\ draft.memory # Nil => spec.memory.days = draft.memory.days
      /\ ~ComparePrompts(spec.prompts, shown.prompts)
    BY <1>2, <1>3 DEF Differs, CompareMemory
<1>5. /\ Filled(spec, draft).ttl = spec.ttl /\ Filled(spec, draft).memory = spec.memory
      /\ Filled(spec, draft).prompts = IF spec.prompts = Nil THEN draft.prompts ELSE spec.prompts
    BY DEF Filled, FieldSpec
<1>6. ~ComparePrompts(Filled(spec, draft).prompts, draft.prompts)
    <2>1. shown.prompts \in {draft.prompts, Nil} BY <1>1 DEF FieldSpec
    <2>2. (spec.prompts = Nil) = (shown.prompts = Nil) BY <1>4 DEF ComparePrompts
    <2>3. CASE spec.prompts = Nil BY <1>5, <2>3 DEF ComparePrompts, PromptsDiffer
    <2>4. CASE spec.prompts # Nil BY <1>4, <1>5, <2>1, <2>2, <2>4
    <2> QED BY <2>3, <2>4
<1>7. ~Differs(Filled(spec, draft), draft) BY <1>4, <1>5, <1>6 DEF Differs, CompareMemory
<1> QED BY <1>7 DEF Near

(* What a patch makes of a CR that is as it was read, and of one that the  *)
(* comparison takes for what was read when only prompts are filled in.     *)
LEMMA PatchMakes ==
    ASSUME NEW new \in FieldSpec, NEW old \in FieldSpec, NEW onto \in FieldSpec
    PROVE  /\ onto = old => Merge(new, old, onto) = new
           /\ \A draft \in FieldSpec :
                 new = Filled(old, draft) /\ ~Differs(new, draft) /\ ~Differs(onto, old)
                 => ~Differs(Merge(new, old, onto), draft)
<1> DEFINE merged == Merge(new, old, onto)
<1>1. DOMAIN onto = {"ttl", "memory", "prompts"} BY DEF FieldSpec
<1>2. merged = [f \in {"ttl", "memory", "prompts"} |->
                   IF new[f] # old[f] THEN new[f] ELSE onto[f]]
    BY <1>1 DEF Merge
<1> HIDE DEF merged
<1>3. ASSUME onto = old PROVE merged = new
    BY <1>2, <1>3 DEF FieldSpec
<1>4. ASSUME NEW draft \in FieldSpec, new = Filled(old, draft), ~Differs(new, draft),
             ~Differs(onto, old)
      PROVE  ~Differs(merged, draft)
    <2>1. /\ new.ttl = old.ttl /\ new.memory = old.memory
          /\ old.prompts # Nil => new.prompts = old.prompts
        BY <1>4 DEF Filled, FieldSpec
    <2>2. /\ merged.ttl = onto.ttl /\ merged.memory = onto.memory
          /\ merged.prompts = IF new.prompts # old.prompts THEN new.prompts ELSE onto.prompts
        BY <1>2, <2>1
    <2>3. ~Differs(merged, new)
        <3>1. ~ComparePrompts(onto.prompts, old.prompts) BY <1>4 DEF Differs
        <3>2. ~ComparePrompts(new.prompts, new.prompts) BY DEF ComparePrompts, PromptsDiffer
        <3>3. ~ComparePrompts(merged.prompts, new.prompts)
            BY <2>2, <3>1, <3>2
        <3> QED BY <1>4, <2>1, <2>2, <3>3 DEF Differs
    <2> QED BY <1>4, <2>3, SameAsSame
<1> QED BY <1>3, <1>4 DEF merged
-----------------------------------------------------------------------------
(* Disturbances are only ever counted up.                                  *)
LEMMA SpentStays ==
    ASSUME used \in [Kinds -> Nat], UNCHANGED used \/ \E kind \in Kinds : Spend(kind)
    PROVE  /\ used'["drift"] = 0 => used["drift"] = 0
           /\ used'["edit"] = 0 => used["edit"] = 0
BY DEF Spend, Kinds

(* There is nothing to show at rest or after an error.                     *)
LEMMA NoSuccess ==
    ASSUME pc' = "idle" \/ (pc' = "finish" /\ err' # "none")
    PROVE  AgreeInv'
BY DEF AgreeInv, SuccessAgrees, Agreeing

LEMMA AbandonAgrees ==
    ASSUME Abandon
    PROVE  AgreeInv'
BY NoSuccess DEF Abandon, Idle, Goto

LEMMA FailureAgrees ==
    ASSUME NEW r \in Resources, NEW e \in CallErrors, Failed(r, e)
    PROVE  AgreeInv'
<1>1. r.conds \in Conditions BY DEF Resources
<1> QED BY <1>1, FailureVerdict, NoSuccess DEF Failed, Goto

(* A call that succeeded, when what it reports is near the draft.          *)
LEMMA SuccessAgreesNow ==
    ASSUME NEW r \in Resources, Succeeded(r, "patch"), ~late', Near(r.spec, agent'.spec),
           used'["drift"] = 0 => (Unedited' => cr' = desired'.spec)
    PROVE  AgreeInv'
<1>1. latest'.spec = r.spec /\ pc' = "patch" BY SucceededStep
<1> QED BY <1>1 DEF AgreeInv, SuccessAgrees, Agreeing

(* One lemma for each action of the worker.                                *)
LEMMA StartAgrees == FieldInv /\ Start => AgreeInv'
BY DEF Start, Goto, AgreeInv, SuccessAgrees, Agreeing, crVars

LEMMA ReadOneAgrees == FieldInv /\ AgreeInv /\ ReadOne => AgreeInv'
<1> SUFFICES ASSUME FieldInv, AgreeInv, ReadOne PROVE AgreeInv' OBVIOUS
<1>0. /\ pc = "read" /\ desired \in Resources /\ desired.spec \in FieldSpec /\ cr' = cr
      /\ used \in [Kinds -> Nat] /\ given \subseteq FieldSpec
    BY DEF ReadOne, FieldInv, TypeOK, Resources, crVars
<1>1. CASE Goto("create") /\ UNCHANGED <<agent, queue, desired, used>>
    BY <1>0, <1>1 DEF AgreeInv, Agreeing, SuccessAgrees, Unedited, Goto
<1>2. ASSUME ~NotFound, NEW reply \in Replies(agent.spec), Read(reply),
             LET observed == Observed(desired, reply) IN
             IF ComparePanics(desired.spec, observed.spec)
             THEN Abandon
             ELSE /\ delta' = Delta(desired, observed)
                  /\ Succeeded(observed, UpdateCall(delta'))
                  /\ UNCHANGED <<agent, queue, late, desired, err>>
      PROVE  AgreeInv'
    <2> DEFINE observed == Observed(desired, reply)
    <2>1. agent \in Agents /\ agent.spec \in FieldSpec /\ From(agent.spec, given)
        BY <1>2, AgentKnown DEF NotFound
    <2>2. observed \in Resources /\ observed.spec = SpecFromReply(reply)
        BY <1>0, <2>1, ReplyResource DEF Observed, Resources
    <2>3. CASE ComparePanics(desired.spec, observed.spec)
        BY <1>2, <2>3, AbandonAgrees
    <2>4. CASE ~ComparePanics(desired.spec, observed.spec)
        <3>1. /\ delta' = Delta(desired, observed) /\ Succeeded(observed, UpdateCall(delta'))
              /\ UNCHANGED <<agent, queue, late, desired, err>>
            BY <1>2, <2>4
        <3>2. Near(observed.spec, agent.spec) BY <2>1, <2>2, ReplyIsNear
        <3>3. "Spec" \notin delta' =>
                 ~Differs(desired.spec, observed.spec) /\ Near(desired.spec, agent.spec)
            BY <1>0, <2>1, <2>2, <3>1, SameAsReplyIsNear DEF Delta
        <3>4. /\ pc' \in {"prepare", "update", "late"}
              /\ pc' = "late" => delta' = {}
              /\ latest'.spec = observed.spec
            BY <2>2, <3>1, SucceededStep DEF Delta, UpdateCall
        <3>5. /\ used'["drift"] = 0 => used["drift"] = 0
              /\ used'["edit"] = 0 => used["edit"] = 0
            BY <1>0, <1>2, SpentStays DEF Read, Kinds
        <3>6. used'["drift"] = 0 => (Unedited' => cr' = desired'.spec)
            BY <1>0, <3>1, <3>5 DEF AgreeInv, Agreeing, Unedited
        <3>7. used'["drift"] = 0 /\ pc' = "late" => (Unedited' => ~Differs(cr', latest'.spec))
            BY <3>1, <3>3, <3>4, <3>6
        <3> HIDE DEF observed
        <3> QED BY <3>1, <3>2, <3>3, <3>4, <3>6, <3>7 DEF AgreeInv, Agreeing, SuccessAgrees
    <2> QED BY <2>3, <2>4
<1>3. ASSUME NEW e \in ReadErrors, Failed(desired, e)
      PROVE  AgreeInv'
    BY <1>0, <1>3, FailureAgrees, RequestErrorsAreCallErrors
<1> QED BY <1>1, <1>2, <1>3 DEF ReadOne

LEMMA CreateAgrees == FieldInv /\ AgreeInv /\ Create => AgreeInv'
<1> SUFFICES ASSUME FieldInv, AgreeInv, Create PROVE AgreeInv' OBVIOUS
<1> DEFINE request == NewCreateRequestPayload(desired.spec)
           errors  == RequestErrors(desired.spec, request)
<1>0. /\ pc = "create" /\ desired \in Resources /\ desired.spec \in FieldSpec
      /\ From(desired.spec, given) /\ given \subseteq FieldSpec /\ ~late
      /\ UNCHANGED <<cr, queue, late, desired>>
    BY DEF Create, FieldInv, TypeOK, Sourced, Pending, Resources, WorkerOnly, crVars
<1>1. ASSUME errors = {}, agent' = AgentAfter(request),
             NEW reply \in Replies(agent'.spec), Succeeded(Created(desired, reply), "patch"),
             UNCHANGED used
      PROVE  AgreeInv'
    <2>1. agent' \in Agents /\ agent'.spec \in FieldSpec /\ From(agent'.spec, given)
        BY <1>0, <1>1, RequestErrorsAreCallErrors, AgentAfterRequest DEF Agents
    <2>2. /\ Created(desired, reply) \in Resources
          /\ Created(desired, reply).spec = SpecFromReply(reply)
        BY <1>0, <2>1, ReplyResource DEF Created, Resources
    <2>3. used'["drift"] = 0 => (Unedited' => cr' = desired'.spec)
        BY <1>0, <1>1 DEF AgreeInv, Agreeing, Unedited
    <2> QED BY <1>0, <1>1, <2>1, <2>2, <2>3, ReplyIsNear, SuccessAgreesNow
<1>2. ASSUME NEW e \in errors \cup ReadErrors, Failed(desired, e)
      PROVE  AgreeInv'
    BY <1>0, <1>2, FailureAgrees, RequestErrorsAreCallErrors
<1> QED BY <1>1, <1>2 DEF Create

LEMMA PrepareAgrees == FieldInv /\ AgreeInv /\ Prepare => AgreeInv'
<1> SUFFICES ASSUME FieldInv, AgreeInv, Prepare PROVE AgreeInv' OBVIOUS
<1>0. /\ pc = "prepare" /\ desired \in Resources /\ latest \in Resources /\ ~late
      /\ used \in [Kinds -> Nat]
      /\ UNCHANGED <<cr, queue, late, desired>>
    BY DEF Prepare, FieldInv, TypeOK, Pending, WorkerOnly, crVars
<1>1. agent \in Agents BY <1>0, AgentKnown
<1>2. ASSUME agent' = [agent EXCEPT !.prepared = TRUE], UNCHANGED used,
             delta' = delta \ {"AgentStatus"},
             IF delta' = {} THEN Succeeded(desired, "patch")
                            ELSE Goto("update") /\ UNCHANGED latest
      PROVE  AgreeInv'
    <2>1. agent'.spec = agent.spec BY <1>1, <1>2 DEF Agents
    <2>2. used'["drift"] = 0 => (Unedited' => cr' = desired'.spec)
        BY <1>0, <1>2 DEF AgreeInv, Agreeing, Unedited
    <2>3. CASE delta' = {}
        <3>1. latest'.spec = desired.spec /\ pc' = "patch"
            BY <1>0, <1>2, <2>3, SucceededStep
        <3>2. used'["drift"] = 0 => Near(desired.spec, agent'.spec)
            BY <1>0, <1>2, <2>1, <2>3 DEF AgreeInv, Agreeing
        <3> QED BY <1>0, <2>2, <3>1, <3>2 DEF AgreeInv, Agreeing, SuccessAgrees
    <2>4. CASE delta' # {}
        <3>1. pc' = "update" BY <1>2, <2>4 DEF Goto
        <3> QED BY <2>2, <3>1 DEF AgreeInv, Agreeing, SuccessAgrees
    <2> QED BY <2>3, <2>4
<1>3. ASSUME NEW e \in ReadErrors, Failed(latest, e)
      PROVE  AgreeInv'
    BY <1>0, <1>3, FailureAgrees, RequestErrorsAreCallErrors
<1>4. ASSUME Failed(latest, "APIError")
      PROVE  AgreeInv'
    BY <1>3, <1>4 DEF ReadErrors
<1> QED BY <1>2, <1>3, <1>4 DEF Prepare

LEMMA UpdateAgrees == FieldInv /\ AgreeInv /\ Update => AgreeInv'
<1> SUFFICES ASSUME FieldInv, AgreeInv, Update PROVE AgreeInv' OBVIOUS
<1> DEFINE request == NewUpdateRequestPayload(desired.spec)
           errors  == RequestErrors(desired.spec, request)
<1>0. /\ pc = "update" /\ desired \in Resources /\ desired.spec \in FieldSpec
      /\ latest \in Resources /\ From(desired.spec, given) /\ given \subseteq FieldSpec
      /\ ~late /\ UNCHANGED <<cr, queue, late, desired>>
    BY DEF Update, FieldInv, TypeOK, Sourced, Pending, Resources, WorkerOnly, crVars
<1>1. ASSUME errors = {}, agent' = AgentAfter(request),
             NEW reply \in Replies(agent'.spec), Succeeded(Updated(desired, reply), "patch"),
             UNCHANGED used
      PROVE  AgreeInv'
    <2>1. agent' \in Agents /\ agent'.spec \in FieldSpec /\ From(agent'.spec, given)
        BY <1>0, <1>1, RequestErrorsAreCallErrors, AgentAfterRequest
        DEF Agents, NewUpdateRequestPayload
    <2>2. /\ Updated(desired, reply) \in Resources
          /\ Updated(desired, reply).spec = SpecFromReply(reply)
        BY <1>0, <2>1, ReplyResource DEF Updated, Resources
    <2>3. used'["drift"] = 0 => (Unedited' => cr' = desired'.spec)
        BY <1>0, <1>1 DEF AgreeInv, Agreeing, Unedited
    <2> QED BY <1>0, <1>1, <2>1, <2>2, <2>3, ReplyIsNear, SuccessAgreesNow
<1>2. ASSUME NEW e \in errors \cup ReadErrors, Failed(latest, e)
      PROVE  AgreeInv'
    BY <1>0, <1>2, FailureAgrees, RequestErrorsAreCallErrors
<1>3. ASSUME Failed(latest, "APIError")
      PROVE  AgreeInv'
    BY <1>2, <1>3 DEF ReadErrors
<1> QED BY <1>1, <1>2, <1>3 DEF Update
LEMMA LateInitializeAgrees == FieldInv /\ AgreeInv /\ LateInitialize => AgreeInv'
<1> SUFFICES ASSUME FieldInv, AgreeInv, LateInitialize PROVE AgreeInv' OBVIOUS
<1>0. /\ pc = "late" /\ desired \in Resources /\ latest \in Resources
      /\ latest.spec \in FieldSpec /\ latest.conds \in Conditions /\ used \in [Kinds -> Nat]
      /\ desired' = [desired EXCEPT !.spec = latest.spec] /\ late' = TRUE /\ pc' = "patch"
      /\ UNCHANGED <<cr, agent, queue>>
    BY DEF LateInitialize, FieldInv, TypeOK, Resources, crVars, Goto
<1>1. agent \in Agents /\ agent.spec \in FieldSpec /\ agent # NoAgent
    BY <1>0, AgentKnown, FieldReconcilerAssumption
<1>2. desired'.spec = latest.spec BY <1>0 DEF Resources
<1>3. ASSUME err' # "none" PROVE AgreeInv'
    BY <1>0, <1>3 DEF AgreeInv, Agreeing, SuccessAgrees
<1>4. ASSUME NEW reply \in Replies(agent.spec), Read(reply),
             LET filled == LateInitialized(latest, Observed(latest, reply))
                 done   == ~IncompleteLateInitialization(filled)
             IN  /\ latest' = [filled EXCEPT !.conds.lateInit = IF done THEN "True" ELSE "False"]
                 /\ err' = IF done THEN "none" ELSE "requeue"
      PROVE  AgreeInv'
    <2> DEFINE observed == Observed(latest, reply)
               filled   == LateInitialized(latest, observed)
    <2>1. /\ observed.spec = SpecFromReply(reply)
          /\ observed.spec \in {agent.spec, [agent.spec EXCEPT !.prompts = Nil]}
        BY <1>0, <1>1, ReplyShows DEF Observed, Resources
    <2> HIDE DEF observed
    <2>2. \/ filled = latest /\ (latest.spec.prompts # Nil \/ observed.spec.prompts = Nil)
          \/ /\ latest.spec.prompts = Nil /\ observed.spec.prompts # Nil
             /\ filled = [spec |-> [latest.spec EXCEPT !.prompts = observed.spec.prompts],
                          conds |-> latest.conds]
        BY <1>0 DEF LateInitialized, Resources
    <2>3. \E s, c : filled = [spec |-> s, conds |-> c] BY <1>0, <2>2 DEF Resources
    <2> HIDE DEF filled
    <2>4. /\ \E x : latest' = [filled EXCEPT !.conds.lateInit = x]
          /\ filled.spec.prompts = Nil => err' # "none"
        BY <1>4 DEF filled, observed, IncompleteLateInitialization
    <2>5. latest'.spec = filled.spec BY <2>3, <2>4
    <2>6. CASE filled.spec.prompts = Nil BY <1>3, <2>4, <2>6
    <2>7. CASE filled.spec.prompts # Nil
        <3>1. observed.spec.prompts # Nil => observed.spec.prompts = agent.spec.prompts
            BY <1>1, <2>1 DEF FieldSpec
        <3>2. filled.spec = Filled(latest.spec, agent.spec)
            <4>1. CASE filled = latest BY <1>0, <2>7, <4>1 DEF Filled, FieldSpec
            <4>2. CASE filled # latest BY <1>0, <2>2, <3>1, <4>2 DEF Filled, FieldSpec
            <4> QED BY <4>1, <4>2
        <3>3. /\ used'["drift"] = 0 => used["drift"] = 0
              /\ used'["edit"] = 0 => used["edit"] = 0
            BY <1>0, <1>4, SpentStays DEF Read, Kinds
        <3>4. used'["drift"] = 0 =>
                 /\ Near(desired'.spec, agent'.spec)
                 /\ Unedited' => ~Differs(cr', desired'.spec)
            BY <1>0, <1>2, <3>3 DEF AgreeInv, Agreeing, Unedited
        <3> QED BY <1>0, <1>1, <1>2, <2>5, <2>7, <3>2, <3>4
                DEF AgreeInv, Agreeing, SuccessAgrees
    <2> QED BY <2>6, <2>7
<1>5. ASSUME NEW e \in ReadErrors, err' = OnError(latest.conds, e)
      PROVE  AgreeInv'
    BY <1>0, <1>3, <1>5, FailureVerdict, RequestErrorsAreCallErrors
<1> QED BY <1>4, <1>5 DEF LateInitialize

LEMMA PatchSpecAgrees == FieldInv /\ AgreeInv /\ PatchSpec => AgreeInv'
<1> SUFFICES ASSUME FieldInv, AgreeInv, PatchSpec PROVE AgreeInv' OBVIOUS
<1>0. /\ pc = "patch" /\ desired.spec \in FieldSpec /\ latest.spec \in FieldSpec
      /\ cr \in FieldSpec /\ late \in BOOLEAN
      /\ ~late => agent \in Agents
    BY DEF PatchSpec, FieldInv, TypeOK, Known, Resources
<1>1. ASSUME cr' \in {Merge(latest.spec, desired.spec, cr)}
                       \cup IF Differs(desired.spec, latest.spec) THEN {} ELSE {cr},
             queue' = (IF cr' # cr THEN "due" ELSE queue),
             Goto(IF late THEN "finish" ELSE "late"),
             UNCHANGED <<agent, late, desired, latest, delta, err, used>>
      PROVE  AgreeInv'
    <2>1. Unedited' => Unedited BY <1>1 DEF Unedited
    <2>2. \/ cr' = Merge(latest.spec, desired.spec, cr)
          \/ cr' = cr /\ ~Differs(desired.spec, latest.spec)
        BY <1>1
    <2>3. CASE ~late
        <3>1. ASSUME used["drift"] = 0, Unedited' PROVE ~Differs(cr', latest.spec)
            <4>1. cr = desired.spec BY <1>0, <2>1, <2>3, <3>1 DEF AgreeInv, Agreeing
            <4> QED BY <1>0, <2>2, <4>1, PatchMakes, SameIsSame
        <3> QED BY <1>0, <1>1, <2>3, <3>1 DEF Goto, AgreeInv, Agreeing, SuccessAgrees
    <2>4. CASE late
        <3>1. ASSUME used["drift"] = 0, err = "none"
              PROVE  /\ agent # NoAgent /\ latest.spec.prompts # Nil
                     /\ latest.spec = Filled(desired.spec, agent.spec)
                     /\ ~Differs(latest.spec, agent.spec)
                     /\ Unedited => ~Differs(cr, desired.spec)
            BY <1>0, <2>4, <3>1 DEF AgreeInv, Agreeing, Near
        <3>2. ASSUME used["drift"] = 0, err = "none", Unedited'
              PROVE  ~Differs(cr', agent.spec)
            <4>1. agent.spec \in FieldSpec
                BY <3>1, <3>2 DEF FieldInv, TypeOK, Agents
            <4>2. ~Differs(cr, desired.spec) BY <2>1, <3>1, <3>2
            <4>3. CASE cr' = Merge(latest.spec, desired.spec, cr)
                BY <1>0, <3>1, <3>2, <4>1, <4>2, <4>3, PatchMakes
            <4>4. CASE cr' = cr /\ ~Differs(desired.spec, latest.spec)
                <5>1. ~Differs(cr, latest.spec) BY <4>2, <4>4, SameAsSame
                <5> QED BY <3>1, <3>2, <4>4, <5>1, SameAsSame
            <4> QED BY <2>2, <4>3, <4>4
        <3> QED BY <1>1, <2>4, <3>1, <3>2 DEF Goto, AgreeInv, Agreeing, SuccessAgrees
    <2> QED BY <1>0, <2>3, <2>4
<1>2. CASE err' = "patch" /\ Goto("finish")
    BY <1>2, NoSuccess DEF Goto
<1>3. CASE Abandon BY <1>3, AbandonAgrees
<1> QED BY <1>1, <1>2, <1>3 DEF PatchSpec

(* The other actions end the reconciliation, or disturb it in a way that   *)
(* the invariant makes an exception of.                                    *)
LEMMA OthersAgree ==
    ASSUME FieldInv, AgreeInv, Finish \/ UserEdit \/ Restart \/ Resync \/ Drift
    PROVE  AgreeInv'
<1> USE DEF crVars, workVars
<1>0. used \in [Kinds -> Nat] BY DEF FieldInv, TypeOK
<1>1. CASE Finish BY <1>1, NoSuccess DEF Finish, Idle, Goto
<1>2. CASE UserEdit
    <2>1. used'["edit"] # 0 /\ used'["drift"] = used["drift"] /\ queue' = "due"
        BY <1>0, <1>2 DEF UserEdit, Spend, Kinds
    <2>2. ~Unedited' BY <2>1 DEF Unedited
    <2>3. UNCHANGED <<agent, workVars>> BY <1>2 DEF UserEdit
    <2> QED BY <2>1, <2>2, <2>3 DEF AgreeInv, Agreeing, SuccessAgrees
<1>3. CASE Restart BY <1>3, AbandonAgrees DEF Restart
<1>4. CASE Resync
    <2>1. Unedited' => Unedited BY <1>4 DEF Resync, Unedited
    <2> QED BY <1>4, <2>1 DEF Resync, AgreeInv, Agreeing, SuccessAgrees
<1>5. CASE Drift
    <2>1. used'["drift"] # 0 BY <1>0, <1>5 DEF Drift, Spend, Kinds
    <2> QED BY <2>1 DEF AgreeInv, SuccessAgrees
<1> QED BY <1>1, <1>2, <1>3, <1>4, <1>5

(* A reconciliation that ends without an error leaves nothing to update    *)
(* between what it knows, the CR and the agent (sdk.go sdkUpdate,          *)
(* manager.go LateInitialize).                                             *)
THEOREM SuccessesAgree == Spec => []SuccessAgrees
<1>1. Init => AgreeInv BY DEF Init, AgreeInv, Agreeing, SuccessAgrees
<1>2. FieldInv /\ AgreeInv /\ [Next]_vars => AgreeInv'
    <2> SUFFICES ASSUME FieldInv, AgreeInv, [Next]_vars PROVE AgreeInv' OBVIOUS
    <2>1. CASE Worker
        BY <2>1, StartAgrees, ReadOneAgrees, CreateAgrees, PrepareAgrees, UpdateAgrees,
           LateInitializeAgrees, PatchSpecAgrees, OthersAgree
        DEF Worker
    <2>2. CASE UserEdit \/ Restart \/ Resync \/ Drift BY <2>2, OthersAgree
    <2>3. CASE UNCHANGED vars
        BY <2>3 DEF AgreeInv, Agreeing, SuccessAgrees, Unedited, vars, crVars, workVars
    <2> QED BY <2>1, <2>2, <2>3 DEF Next
<1>3. AgreeInv => SuccessAgrees BY DEF AgreeInv
<1> QED BY <1>1, <1>2, <1>3, FieldsSafe, PTL DEF Spec
=============================================================================
