----------------------------- MODULE ErrorState ------------------------------
(***************************************************************************)
(* The error a thread can ask for after a call has failed: src/error.c on  *)
(* top of the thread-local state of src/global.c, built with pthreads.     *)
(*                                                                         *)
(* The state of a thread is a pointer `last_error', which is NULL or       *)
(* points to the record `error_t' next to it, whose `message' is heap      *)
(* memory.  Messages are numbered as they are allocated and no address is  *)
(* used twice, so that freeing memory twice is seen as such: it is         *)
(* undefined, and what the model lets it do is in Freed.  Callers may do   *)
(* anything: fail before ta_global_state_setup or without it, as the       *)
(* examples do, fail again after ta_error_clear, as src/atom.c does, or    *)
(* make a second key.  Running out of memory, where ta_error_set returns   *)
(* without effect, is left out.                                            *)
(***************************************************************************)
EXTENDS Naturals

CONSTANTS
  Threads,
  MaxMsgs    \* bound: messages allocated

ASSUME MsgAssumption == MaxMsgs \in Nat

VARIABLES
  key,       \* the thread-local storage key exists
  ended,     \* threads that have exited
  has,       \* thread -> it has its state
  last,      \* thread -> last_error is not NULL
  msg,       \* thread -> error_t.message
  made,      \* messages allocated so far
  live,      \* messages allocated and not freed
  fault,     \* some memory was freed twice or read after it was freed
  (* History, which no action reads.                                        *)
  pending,   \* thread -> the message of its last failure that it did not clear
  since,     \* messages up to this one are older than the key
  cleared,   \* threads that had an error in their state and cleared it
  resumed    \* such a thread has failed again
vars == <<key, ended, has, last, msg, made, live, fault, pending, since, cleared, resumed>>

NULL == 0
Msgs == 1..MaxMsgs

Init ==
  /\ key = FALSE
  /\ ended = {}
  /\ has = [t \in Threads |-> FALSE]
  /\ last = [t \in Threads |-> FALSE]
  /\ msg = [t \in Threads |-> NULL]
  /\ made = 0
  /\ live = {}
  /\ fault = FALSE
  /\ pending = [t \in Threads |-> NULL]
  /\ since = 0 /\ cleared = {} /\ resumed = FALSE

(* ta_global_state_setup and ta_global_state_teardown make and delete the   *)
(* key.  With a key that was just made no thread has a state, although      *)
(* there was another key; with none, no thread can get at its state.        *)
NoStates ==
  /\ has' = [t \in Threads |-> FALSE]
  /\ last' = [t \in Threads |-> FALSE]
  /\ msg' = [t \in Threads |-> NULL]
  /\ cleared' = {}

Setup ==
  /\ key' = TRUE
  /\ NoStates
  /\ since' = made
  /\ UNCHANGED <<ended, made, live, fault, pending, resumed>>

Teardown ==
  /\ key
  /\ key' = FALSE
  /\ NoStates
  /\ UNCHANGED <<ended, made, live, fault, pending, since, resumed>>

(* A thread may call the library with the key or without.  Without it       *)
(* ta_global_state_get allocates a state on every call and cannot keep it.  *)
MayCall(t) == t \notin ended

(* free(m) with `all' allocated: nothing happens to NULL.  A message that   *)
(* was freed before is a fault, which frees nothing or whatever has its     *)
(* address now.                                                             *)
Dead(m) == m # NULL /\ m \notin live
Freed(m, all) ==
  CASE m = NULL -> {all}
    [] m \in all /\ m # NULL -> {all \ {m}}
    [] m \notin all /\ m # NULL -> {all} \cup {all \ {x} : x \in all}

(* ta_error_set: the message is formatted, possibly from the text of the    *)
(* error that is already there (src/atom.c:1094-1098), and then the old one *)
(* is freed.                                                                *)
NewMsg_Reused == made
NewMsg == made + 1
Stored(t, m) ==
  /\ has' = [has EXCEPT ![t] = TRUE]
  /\ last' = [last EXCEPT ![t] = TRUE]
  /\ msg' = [msg EXCEPT ![t] = m]
Callable(t, quote) ==
  /\ MayCall(t)
  /\ made < MaxMsgs
  /\ quote => key /\ last[t]
Failing(t) ==
  /\ made' = NewMsg
  /\ pending' = [pending EXCEPT ![t] = NewMsg]
  /\ resumed' = (resumed \/ t \in cleared)
  /\ cleared' = cleared \ {t}

Set_FreesFirst(t, quote) ==
  /\ Callable(t, quote)
  /\ Failing(t)
  /\ fault' = (fault \/ Dead(msg[t]) \/ quote)
  /\ live' \in Freed(msg[t], live \cup {NewMsg})
  /\ IF key THEN Stored(t, NewMsg) ELSE UNCHANGED <<has, last, msg>>
  /\ UNCHANGED <<key, ended, since>>

Set_KeepsFirst(t, quote) ==
  /\ Callable(t, quote)
  /\ Failing(t)
  /\ live' = IF last[t] THEN live ELSE live \cup {NewMsg}
  /\ IF key /\ ~last[t] THEN Stored(t, NewMsg) ELSE UNCHANGED <<has, last, msg>>
  /\ UNCHANGED <<key, ended, fault, since>>

Set(t, quote) ==
  /\ Callable(t, quote)
  /\ Failing(t)
  /\ fault' = (fault \/ Dead(msg[t]))
  /\ live' \in Freed(msg[t], live \cup {NewMsg})
  /\ IF key THEN Stored(t, NewMsg) ELSE UNCHANGED <<has, last, msg>>
  /\ UNCHANGED <<key, ended, since>>

(* ta_error_clear frees the message and resets last_error, but leaves the   *)
(* pointer to the message in the record.                                    *)
Clear_KeepsLast(t) ==
  /\ MayCall(t)
  /\ has' = [has EXCEPT ![t] = key]
  /\ IF last[t] THEN /\ fault' = (fault \/ Dead(msg[t]))
                     /\ live' \in Freed(msg[t], live)
                     /\ cleared' = cleared \cup {t}
                ELSE UNCHANGED <<fault, live, cleared>>
  /\ pending' = [pending EXCEPT ![t] = NULL]
  /\ UNCHANGED <<key, ended, msg, last, made, since, resumed>>

Clear(t) ==
  /\ MayCall(t)
  /\ has' = [has EXCEPT ![t] = key]
  /\ IF last[t] THEN /\ fault' = (fault \/ Dead(msg[t]))
                     /\ live' \in Freed(msg[t], live)
                     /\ cleared' = cleared \cup {t}
                ELSE UNCHANGED <<fault, live, cleared>>
  /\ last' = [last EXCEPT ![t] = FALSE]
  /\ pending' = [pending EXCEPT ![t] = NULL]
  /\ UNCHANGED <<key, ended, msg, made, since, resumed>>

(* A thread exits: the key's destructor is free(), so the state goes and    *)
(* its message stays behind.                                                *)
Exit(t) ==
  /\ t \notin ended
  /\ ended' = ended \cup {t}
  /\ has' = [has EXCEPT ![t] = FALSE]
  /\ last' = [last EXCEPT ![t] = FALSE]
  /\ msg' = [msg EXCEPT ![t] = NULL]
  /\ pending' = [pending EXCEPT ![t] = NULL]
  /\ cleared' = cleared \ {t}
  /\ UNCHANGED <<key, made, live, fault, since, resumed>>

Next ==
  \/ Setup \/ Teardown
  \/ \E t \in Threads : Clear(t) \/ Exit(t)
  \/ \E t \in Threads, quote \in BOOLEAN : Set(t, quote)

Spec == Init /\ [][Next]_vars
-----------------------------------------------------------------------------
TypeOK ==
  /\ key \in BOOLEAN /\ fault \in BOOLEAN
  /\ ended \subseteq Threads
  /\ has \in [Threads -> BOOLEAN] /\ last \in [Threads -> BOOLEAN]
  /\ msg \in [Threads -> Msgs \cup {NULL}]
  /\ made \in 0..MaxMsgs
  /\ live \subseteq Msgs
  /\ pending \in [Threads -> Msgs \cup {NULL}]
  /\ since \in 0..MaxMsgs /\ cleared \subseteq Threads /\ resumed \in BOOLEAN

(* A message is freed twice as soon as a thread that had an error and       *)
(* cleared it fails again, and in no other way, however threads that fail,  *)
(* quote, clear and exit alternate and whenever the key is made or deleted: *)
(* ta_error_clear leaves error_t.message behind (error.c:36-41) and set_err *)
(* frees it (error.c:47).  The loader does that by itself (atom.c:1099,     *)
(* 1662).                                                                   *)
FaultExplained == fault = resumed

(* Until then what ta_error_last returns can be read, and belongs to one    *)
(* thread: no other thread's failure replaces or frees its message.         *)
ErrorsReadable ==
  ~fault =>
    /\ \A t \in Threads : last[t] => key /\ has[t] /\ msg[t] \in live
    /\ \A t, u \in Threads : msg[t] = msg[u] => t = u \/ msg[t] = NULL

(* ta_error_last returns the thread's last failure, not an older one, if    *)
(* the key was made before the failure, is there and the thread did not     *)
(* clear it; and it returns NULL otherwise.  So test_error_set_twice gets   *)
(* the newer of two, but a program that never calls ta_global_state_setup   *)
(* gets NULL after every failure: examples/iri.c:79-80 and 116-117 print    *)
(* ta_error_last()->message without a test.                                 *)
Reported(t) == key /\ pending[t] > since
FailureReported ==
  \A t \in Threads : (last[t] <=> Reported(t)) /\ (last[t] => msg[t] = pending[t])

(* The strengthening that makes the three inductive: messages are numbered  *)
(* as they are allocated, so a new one is not in use; only threads with the *)
(* key have a state; and a message that is in a state and not reported was  *)
(* freed when it was cleared.                                               *)
Fresh ==
  /\ since <= made
  /\ \A m \in live : m <= made
  /\ \A t \in Threads :
       msg[t] <= made /\ pending[t] <= made /\ (~key => ~has[t] /\ msg[t] = NULL)
Left ==
  ~fault => \A t \in Threads :
    /\ t \in cleared <=> ~last[t] /\ msg[t] # NULL
    /\ t \in cleared => msg[t] \notin live
IInv == FaultExplained /\ ErrorsReadable /\ FailureReported /\ Fresh /\ Left
=============================================================================
