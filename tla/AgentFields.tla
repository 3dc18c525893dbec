----------------------------- MODULE AgentFields -----------------------------
(***************************************************************************)
(* The fields of an agent as they travel between the CR and AWS: the       *)
(* requests built from a CR, the copies of the replies, and the comparison *)
(* that decides on an update (sdk.go, delta.go, hooks.go).                 *)
(*                                                                         *)
(* One field stands for all that are treated alike: ttl for numbers of the *)
(* spec itself, memory.days for numbers in a nested structure, and a       *)
(* prompt's temperature for floating-point numbers; the string fields are  *)
(* copied and compared like the ttl, but have no range. Numbers have 64    *)
(* bits in the CR and 32 in AWS. Two fields with comparisons of their own  *)
(* are left out: OverrideLambda, a string beside the list of the prompts   *)
(* (hooks.go:68-74), and the list EnabledMemoryTypes, in which nil and     *)
(* empty are the same (delta.go:145-151).                                  *)
(***************************************************************************)
EXTENDS Integers, Sequences, Functions

CONSTANTS
    Half,             \* 2^31: an int32 lies in -Half .. Half - 1
    Ints64,           \* the int64 values in use
    Floats64,         \* the float64 values in use, in units small enough to be integers
    Round32,          \* the float32 nearest to a float64
    MaxFloat32, SmallestFloat32,
    TypeOrder,        \* the prompt types, in the order in which AWS lists them
    DefaultTTL, DefaultTemperature,    \* what AWS fills in
    Nil

Modes == {"DEFAULT", "OVERRIDDEN"}

(* A prompt in the CR, and in a request, where no mode is an empty string. *)
Prompt == [type : STRING, mode : Modes \cup {Nil}, temperature : Floats64 \cup {Nil}]
RequestPrompt == [type : STRING, mode : Modes \cup {""}, temperature : Floats64 \cup {Nil}]

ASSUME FieldAssumption ==
    /\ Half \in Nat \ {0}
    /\ Ints64 \subseteq Int /\ Floats64 \subseteq Int
    /\ Round32 \in [Floats64 -> Floats64]
    /\ \A x \in Floats64 : Round32[Round32[x]] = Round32[x]
    /\ DefaultTTL \in Ints64 /\ DefaultTemperature \in Floats64
    /\ TypeOrder \in Seq(STRING)
    /\ Nil \notin Ints64 /\ Nil \notin Floats64
    /\ Nil \notin Modes \cup {""} /\ Nil \notin Seq(RequestPrompt)

FieldSpec == [ttl : Ints64 \cup {Nil},
              memory : [days : Ints64 \cup {Nil}] \cup {Nil},
              prompts : Seq(Prompt) \cup {Nil}]

Map(Op(_), s) == [i \in DOMAIN s |-> Op(s[i])]

-----------------------------------------------------------------------------
(* Requests.                                                               *)

(* Go's conversion int32(n): the low 32 bits.                              *)
ToInt32(n) == ((n + Half) % (2 * Half)) - Half

(* Mutant of FitsInt32: the lower bound is forgotten.                      *)
FitsInt32Above(n) == n = Nil \/ n <= Half - 1

FitsInt32(n) == n = Nil \/ ~(n > Half - 1 \/ n < -Half)

FitsFloat32(x) ==
    x = Nil \/ ~ \/ x > MaxFloat32
                 \/ x < -MaxFloat32
                 \/ x < SmallestFloat32 /\ ~(x <= 0)
                 \/ x > -SmallestFloat32 /\ ~(x >= 0)

(* The request builder returns an error at the first number that does not  *)
(* fit.                                                                    *)
OutOfRange(spec) ==
    \/ ~FitsInt32(spec.ttl)
    \/ spec.memory # Nil /\ ~FitsInt32(spec.memory.days)
    \/ spec.prompts # Nil /\ \E i \in DOMAIN spec.prompts :
                                 ~FitsFloat32(spec.prompts[i].temperature)

IntPayload(n) == IF n = Nil THEN Nil ELSE ToInt32(n)

(* A mode that is not set becomes the empty string.                        *)
PromptPayload(p) ==
    [p EXCEPT !.mode = IF @ = Nil THEN "" ELSE @,
              !.temperature = IF @ = Nil THEN Nil ELSE Round32[@]]

NewCreateRequestPayload(spec) ==
    [ttl |-> IntPayload(spec.ttl),
     memory |-> IF spec.memory = Nil THEN Nil
                ELSE [days |-> IntPayload(spec.memory.days)],
     prompts |-> IF spec.prompts = Nil THEN Nil ELSE Map(PromptPayload, spec.prompts)]

(* UpdateAgent gets every field, whatever the delta; the code for a field  *)
(* is that of the other builder.                                           *)
NewUpdateRequestPayload(spec) == NewCreateRequestPayload(spec)

-----------------------------------------------------------------------------
(* Replies. Each of the three copies overwrites every field of the spec,   *)
(* with nil where the reply has nothing, and leaves the rest of the        *)
(* resource alone; a mode that is the empty string becomes nil.            *)

PromptFromReply(p) == [p EXCEPT !.mode = IF @ = "" THEN Nil ELSE @]

SpecFromReply(reply) ==
    [ttl |-> reply.ttl,
     memory |-> reply.memory,
     prompts |-> IF reply.prompts = Nil THEN Nil ELSE Map(PromptFromReply, reply.prompts)]

Observed(r, reply) == [r EXCEPT !.spec = SpecFromReply(reply)]
Created(r, reply)  == [r EXCEPT !.spec = SpecFromReply(reply)]

(* Mutant of Updated: the resource keeps the spec it was asked for.        *)
UpdatedAsAsked(r, reply) == r

Updated(r, reply)  == [r EXCEPT !.spec = SpecFromReply(reply)]

-----------------------------------------------------------------------------
(* The comparison.                                                         *)

Overridden(p) == p.mode # "DEFAULT"
NonDefault(prompts) == SelectSeq(prompts, Overridden)

(* hooks.go dereferences the mode of every prompt of both sides.           *)
ComparePanics(a, b) ==
    /\ a.prompts # Nil /\ b.prompts # Nil
    /\ \E p \in {a.prompts, b.prompts} : \E i \in DOMAIN p : p[i].mode = Nil

(* Mutant of ComparePrompts: the prompts are compared by number only.      *)
ComparePromptsCount(a, b) ==
    \/ (a = Nil) # (b = Nil)
    \/ a # Nil /\ b # Nil /\ Len(NonDefault(a)) # Len(NonDefault(b))

(* Two lists of prompts: those of mode DEFAULT do not count.               *)
PromptsDiffer(a, b) ==
    LET desired == NonDefault(a)
        latest  == NonDefault(b)
    IN  \/ Len(desired) # Len(latest)
        \/ Len(desired) > 0 /\ desired # latest

ComparePrompts(a, b) ==
    \/ (a = Nil) # (b = Nil)
    \/ a # Nil /\ b # Nil /\ PromptsDiffer(a, b)

CompareMemory(a, b) ==
    \/ (a = Nil) # (b = Nil)
    \/ a # Nil /\ b # Nil /\ a.days # b.days

Differs(a, b) ==
    \/ a.ttl # b.ttl
    \/ CompareMemory(a.memory, b.memory)
    \/ ComparePrompts(a.prompts, b.prompts)

(* Mutant of LateInitialized: a value that is set is replaced as well.     *)
LateInitializedAlways(r, observed) ==
    IF observed.spec.prompts # Nil
    THEN [r EXCEPT !.spec.prompts = observed.spec.prompts]
    ELSE r

(* Late initialization: the prompts are the one field filled in this way.  *)
LateInitialized(r, observed) ==
    IF observed.spec.prompts # Nil /\ r.spec.prompts = Nil
    THEN [r EXCEPT !.spec.prompts = observed.spec.prompts]
    ELSE r

IncompleteLateInitialization(r) == r.spec.prompts = Nil

-----------------------------------------------------------------------------
(* What AWS stores for a request: defaults for what is left out, and one   *)
(* prompt per type, in its own order, its default unless overridden.       *)
Stored(request) ==
    LET Asked(type) ==
            IF request.prompts = Nil THEN {}
            ELSE {p \in Range(request.prompts) : p.type = type /\ p.mode = "OVERRIDDEN"}
        PromptOf(type) ==
            IF Asked(type) # {} THEN CHOOSE p \in Asked(type) : TRUE
            ELSE [type |-> type, mode |-> "DEFAULT", temperature |-> DefaultTemperature]
    IN  [ttl |-> IF request.ttl = Nil THEN DefaultTTL ELSE request.ttl,
         memory |-> request.memory,
         prompts |-> Map(PromptOf, TypeOrder)]
=============================================================================
