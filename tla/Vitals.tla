------------------------------- MODULE Vitals -------------------------------
(***************************************************************************)
(* mmk_init: before the first stub or mock Mimick looks up the functions   *)
(* it cannot do without, once and for all, so that it goes on reaching     *)
(* them when they are mocked (core.c:39-49, vitals.c:101-202).  Nothing    *)
(* keeps two threads from doing so at the same time.                       *)
(***************************************************************************)
EXTENDS Lookup

CONSTANT Thread    \* the threads that come to make a stub or a mock

VARIABLES
    prog,         \* the program: its format and loaded objects
    ptr,          \* mmk_vfprintf_, mmk_abort_, mmk_malloc_, ...
    common,       \* mmk___stdio_common_vfprintf_
    initialized,  \* self.initialized
    pc,           \* per thread: the step of mmk_init it is at
    dead          \* "no", or how the process ended: "abort", "null call"
                  \* or "outside" of a table

vars == <<prog, ptr, common, initialized, pc, dead>>

(* The functions looked up one by one with INIT_VITAL_FUNC. *)
Ordinary == <<"malloc", "realloc", "free">>
           \o (IF prog.fmt \in {"ELF", "MachO"} THEN <<"mprotect">> ELSE << >>)
Vital == {"vfprintf", "abort"} \union {Ordinary[i] : i \in DOMAIN Ordinary}

(* What vfprintf is when the C library only has it as an inline function. *)
Fallback == [is |-> "win32_vfprintf_fallback"]

Init ==
    /\ prog.fmt \in {"ELF", "PE", "MachO"}
    /\ Len(prog.objs) \in Nat /\ DOMAIN prog.objs = 1..Len(prog.objs)
    /\ ptr = [v \in Vital |-> NULL]
    /\ common = NULL
    /\ initialized = FALSE
    /\ pc = [t \in Thread |-> "idle"]
    /\ dead = "no"

Goto(t, step) == pc' = [pc EXCEPT ![t] = step]

(* Mutant: the flag is set before the functions are looked up. *)
mmk_init_early(t) ==
    /\ pc[t] = "idle"
    /\ initialized' = TRUE
    /\ Goto(t, IF initialized THEN "done" ELSE "vfprintf")
    /\ UNCHANGED <<ptr, common, dead>>

(* The flag is looked at; plt_init_ctx has no more than an address to take. *)
mmk_init(t) ==
    /\ pc[t] = "idle"
    /\ Goto(t, IF initialized THEN "done" ELSE "vfprintf")
    /\ UNCHANGED <<ptr, common, initialized, dead>>

(* A lookup, its result stored at once; a fault ends the process. *)
Find(t, v, next) ==
    LET fn == plt_get_real_fn(prog, v)
    IN  IF fn = Outside
        THEN /\ dead' = "outside"
             /\ UNCHANGED <<ptr, pc>>
        ELSE /\ ptr' = [ptr EXCEPT ![v] = fn]
             /\ Goto(t, next)
             /\ UNCHANGED dead

FindVfprintf(t) ==
    /\ pc[t] = "vfprintf"
    /\ Find(t, "vfprintf", "abort")
    /\ UNCHANGED <<common, initialized>>

FindAbort(t) ==
    /\ pc[t] = "abort"
    /\ Find(t, "abort", "fallback")
    /\ UNCHANGED <<common, initialized>>

(* The universal C runtime of Windows, where HAVE___STDIO_COMMON_VFPRINTF. *)
FindCommon(t) ==
    /\ pc[t] = "fallback"
    /\ Goto(t, "speech")
    /\ IF prog.fmt = "PE" /\ ptr["vfprintf"] = NULL
       THEN LET fn == plt_get_real_fn(prog, "__stdio_common_vfprintf")
            IN  /\ common' = fn
                /\ ptr' = [ptr EXCEPT !["vfprintf"] = IF fn = NULL THEN @ ELSE Fallback]
       ELSE UNCHANGED <<ptr, common>>
    /\ UNCHANGED <<initialized, dead>>

(* Mutant: only abort is checked. *)
CheckSpeechHalf(t) ==
    /\ pc[t] = "speech"
    /\ IF ptr["abort"] = NULL
       THEN dead' = "abort" /\ UNCHANGED pc
       ELSE Goto(t, "malloc") /\ UNCHANGED dead
    /\ UNCHANGED <<ptr, common, initialized>>

(* mmk_panic depends on these two: until they are there, the C library's   *)
(* own are called, through the GOT.                                        *)
CheckSpeech(t) ==
    /\ pc[t] = "speech"
    /\ IF ptr["abort"] = NULL \/ ptr["vfprintf"] = NULL
       THEN dead' = "abort" /\ UNCHANGED pc
       ELSE Goto(t, "malloc") /\ UNCHANGED dead
    /\ UNCHANGED <<ptr, common, initialized>>

(* Mutant: mprotect is looked up in every format. *)
StepAfterAll(v) ==
    LET i == CHOOSE n \in DOMAIN Ordinary : Ordinary[n] = v
    IN  IF i = Len(Ordinary) THEN "mprotect" ELSE Ordinary[i + 1]

StepAfter(v) ==
    LET i == CHOOSE n \in DOMAIN Ordinary : Ordinary[n] = v
    IN  IF i = Len(Ordinary) THEN "finish" ELSE Ordinary[i + 1]

(* Mutant: what is not there is looked up again. *)
INIT_VITAL_FUNC_retry(t, v) ==
    /\ pc[t] = v
    /\ Find(t, v, IF plt_get_real_fn(prog, v) = NULL THEN v ELSE StepAfter(v))
    /\ UNCHANGED <<common, initialized>>

INIT_VITAL_FUNC(t, v) ==
    /\ pc[t] = v
    /\ Find(t, v, IF plt_get_real_fn(prog, v) = NULL THEN "panic" ELSE StepAfter(v))
    /\ UNCHANGED <<common, initialized>>

Finish(t) ==
    /\ pc[t] = "finish"
    /\ initialized' = TRUE
    /\ Goto(t, "done")
    /\ UNCHANGED <<ptr, common, dead>>

(* Calls of the two pointers, the first perhaps through the fallback. *)
mmk_panic(t) ==
    /\ pc[t] = "panic"
    /\ dead' = IF \/ ptr["vfprintf"] = NULL
                  \/ ptr["vfprintf"] = Fallback /\ common = NULL
                  \/ ptr["abort"] = NULL
               THEN "null call" ELSE "abort"
    /\ UNCHANGED <<ptr, common, initialized, pc>>

Step(t) ==
    /\ dead = "no"
    /\ UNCHANGED prog
    /\ \/ mmk_init(t) \/ FindVfprintf(t) \/ FindAbort(t) \/ FindCommon(t)
       \/ CheckSpeech(t) \/ Finish(t) \/ mmk_panic(t)
       \/ \E i \in DOMAIN Ordinary : INIT_VITAL_FUNC(t, Ordinary[i])

Next == \E t \in Thread : Step(t)

Spec == Init /\ [][Next]_vars

-----------------------------------------------------------------------------
TypeOK ==
    /\ DOMAIN ptr = Vital
    /\ initialized \in BOOLEAN
    /\ \A t \in Thread :
          pc[t] \in Vital \union {"idle", "fallback", "speech", "finish", "panic", "done"}
    /\ dead \in {"no", "abort", "null call", "outside"}

(* No call of mmk_init, on any thread, returns before every vital function *)
(* has been found: nobody calls a null pointer (core.c:39-49).             *)
ReadyOnReturn ==
    (initialized \/ \E t \in Thread : pc[t] = "done")
        => \A v \in Vital : ptr[v] # NULL

(* When something is missing the process can still say so: mmk_panic is    *)
(* called only when what it calls itself is there (vitals.c:181-190).      *)
PanicCanSpeak ==
    /\ dead # "null call"
    /\ \A t \in Thread :
          pc[t] = "panic" => ptr["abort"] # NULL /\ ptr["vfprintf"] # NULL

(* Every call of mmk_init returns, or the process ends.                    *)
InitEnds ==
    \A t \in Thread : (pc[t] # "idle") ~> (pc[t] = "done" \/ dead # "no")
=============================================================================
