----------------------------- MODULE AtomicStore -----------------------------
(***************************************************************************)
(* What the Storage trait promises its callers about one key: every call   *)
(* takes effect at one instant between its invocation and its answer, and  *)
(* the answer is the one that instant justifies.  A call that dies may or  *)
(* may not have taken effect.  One promise is weaker on disk: a swap that  *)
(* an unconditional put or delete crosses may overrun what that one left.  *)
(***************************************************************************)
EXTENDS Naturals

CONSTANTS Tasks,      \* concurrent callers
          Calls,      \* the calls they make: [kind, bytes, want]
          NoCall,
          Gone        \* the content of a key that does not exist

VARIABLES value,      \* the key's content
          call,       \* what each task is waiting for
          answer,     \* what the call will return, once that is decided
          crossed     \* the swaps under way since whose start a put or delete took effect

storeVars == <<value, call, answer, crossed>>

\* No answer yet.  An answer is a record so that a content and a flag never meet.
Undecided == [is |-> "undecided"]
Flag(b) == [is |-> "flag", flag |-> b]
Read(v) == [is |-> "read", content |-> v]
Failure == [is |-> "failure"]

Effect(c) ==
    CASE c.kind = "put"    -> [value |-> c.bytes, answer |-> Flag(TRUE)]
      [] c.kind = "delete" -> [value |-> Gone, answer |-> Flag(TRUE)]
      [] c.kind \in {"create", "link"} ->
            [value |-> IF value = Gone THEN c.bytes ELSE value, answer |-> Flag(value = Gone)]
      [] c.kind = "swap"   ->
            [value |-> IF value = c.want THEN c.bytes ELSE value, answer |-> Flag(value = c.want)]
      [] c.kind = "get"    -> [value |-> value, answer |-> Read(value)]

StoreInit ==
    /\ value = Gone
    /\ call = [t \in Tasks |-> NoCall] /\ answer = [t \in Tasks |-> Undecided]
    /\ crossed = {}

Invoke(t, c) ==
    /\ call[t] = NoCall
    /\ call' = [call EXCEPT ![t] = c]
    /\ UNCHANGED <<value, answer, crossed>>

Crosses(t) == crossed' = crossed \cup {u \in Tasks \ {t} : call[u] # NoCall /\ call[u].kind = "swap"}

TakeEffect(t) ==
    /\ call[t] # NoCall /\ answer[t] = Undecided
    /\ value' = Effect(call[t]).value
    /\ answer' = [answer EXCEPT ![t] = Effect(call[t]).answer]
    /\ IF call[t].kind \in {"put", "delete"} THEN Crosses(t) ELSE UNCHANGED crossed
    /\ UNCHANGED call

\* A crossed swap writes over what it did not compare.
Overrun(t) ==
    /\ t \in crossed /\ call[t] # NoCall /\ call[t].kind = "swap" /\ answer[t] = Undecided
    /\ value' = call[t].bytes
    /\ answer' = [answer EXCEPT ![t] = Flag(TRUE)]
    /\ UNCHANGED <<call, crossed>>

Fail(t) ==
    /\ call[t] # NoCall /\ answer[t] = Undecided
    /\ answer' = [answer EXCEPT ![t] = Failure]
    /\ UNCHANGED <<value, call, crossed>>

Respond(t) ==
    /\ answer[t] # Undecided
    /\ call' = [call EXCEPT ![t] = NoCall]
    /\ answer' = [answer EXCEPT ![t] = Undecided]
    /\ crossed' = crossed \ {t}
    /\ UNCHANGED value

DieAll ==
    /\ call' = [t \in Tasks |-> NoCall]
    /\ answer' = [t \in Tasks |-> Undecided]
    /\ crossed' = {}
    /\ UNCHANGED value

StoreNext ==
    \/ \E t \in Tasks : TakeEffect(t) \/ Overrun(t) \/ Fail(t) \/ Respond(t) \/ \E c \in Calls : Invoke(t, c)
    \/ DieAll

StoreSpec == StoreInit /\ [][StoreNext]_storeVars
=============================================================================
