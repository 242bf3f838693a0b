------------------------------ MODULE HaClient ------------------------------
(***************************************************************************)
(* components/ha_client/src/ha_client.c: how the body of an HTTP response, *)
(* delivered in pieces of any size, ends up in a buffer of fixed size.     *)
(* The byte at offset k of the response is modelled by the number k, so    *)
(* the buffer shows which bytes it holds.  The HTTP client is external: it *)
(* calls http_event_handler with pieces of its choice and may fail at any  *)
(* point.                                                                  *)
(***************************************************************************)
EXTENDS Integers

CONSTANTS
    Cap,         \* size of the buffer, out_cap
    ChunkSizes,  \* sizes of the pieces a response comes in
    MaxBody      \* bound: bytes of a response

ASSUME HaClientAssumption ==
    /\ Cap \in Nat \ {0}
    /\ ChunkSizes \subseteq Nat
    /\ MaxBody \in Nat

VARIABLES
    pc,       \* no request yet, one being performed, or returned from
    status,   \* what the last request returned
    buf,      \* body->buf
    len,      \* body->len
    received  \* history: bytes of the response delivered so far

vars == <<pc, status, buf, len, received>>

Nul == -1   \* the byte '\0'
Junk == -2  \* what the caller left in the buffer
Failed == -1

Init ==
    /\ pc = "none"
    /\ status = 0
    /\ buf = [i \in 0 .. Cap - 1 |-> Junk]
    /\ len = 0
    /\ received = 0

(* ha_get, up to esp_http_client_perform: an empty string in the caller's  *)
(* buffer                                                                  *)
Get ==
    /\ pc \in {"none", "returned"}
    /\ pc' = "perform"
    /\ buf' = [buf EXCEPT ![0] = Nul]
    /\ len' = 0 /\ received' = 0
    /\ UNCHANGED status

(* ha_post: a cleared buffer of its own *)
Post ==
    /\ pc \in {"none", "returned"}
    /\ pc' = "perform"
    /\ buf' = [i \in 0 .. Cap - 1 |-> Nul]
    /\ len' = 0 /\ received' = 0
    /\ UNCHANGED status

(* A mutant of Remaining: no room is kept for the terminator. *)
RemainingUnterminated == Cap - len

(* Room left in the buffer, its terminator taken off *)
Remaining == Cap - len - 1

(* http_event_handler takes as much of a piece of n bytes as there is room *)
(* for, and terminates the string.                                         *)
Copied(n) == IF n < Remaining THEN n ELSE Remaining

Filled(copy) ==
    [i \in 0 .. Cap - 1 |->
        IF i \in len .. len + copy - 1 THEN received + (i - len)
        ELSE IF i = len + copy THEN Nul
        ELSE buf[i]]

(* A mutant: a piece that does not fit is left out. *)
OnDataWhole(n) ==
    /\ pc = "perform"
    /\ received + n <= MaxBody
    /\ received' = received + n
    /\ IF n > 0 /\ n <= Remaining
       THEN buf' = Filled(n) /\ len' = len + n
       ELSE UNCHANGED <<buf, len>>
    /\ UNCHANGED <<pc, status>>

OnData(n) ==
    /\ pc = "perform"
    /\ received + n <= MaxBody
    /\ received' = received + n
    /\ IF Copied(n) > 0
       THEN buf' = Filled(Copied(n)) /\ len' = len + Copied(n)
       ELSE UNCHANGED <<buf, len>>
    /\ UNCHANGED <<pc, status>>

(* esp_http_client_perform returns: the status code, or -1 for an error.   *)
Return ==
    /\ pc = "perform"
    /\ pc' = "returned"
    /\ status' \in {200, 404, Failed}
    /\ UNCHANGED <<buf, len, received>>

Next ==
    \/ Get \/ Post \/ Return
    \/ \E n \in ChunkSizes : OnData(n)

Spec == Init /\ [][Next]_vars

-----------------------------------------------------------------------------
(* Properties *)

(* body->len leaves room for the terminator: no write past the buffer. *)
TypeOK ==
    /\ pc \in {"none", "perform", "returned"}
    /\ status \in {0, 200, 404, Failed}
    /\ buf \in [0 .. Cap - 1 -> Int]
    /\ len \in 0 .. Cap - 1
    /\ received \in 0 .. MaxBody

(* However the response is cut into pieces, the buffer holds a terminated  *)
(* string that is the beginning of it, as long as the buffer allows: no    *)
(* byte is skipped, repeated or left from an earlier response, and a body  *)
(* of less than Cap bytes is whole.                                        *)
BodyIsPrefix ==
    pc # "none" =>
        /\ len = IF received < Cap THEN received ELSE Cap - 1
        /\ \A i \in 0 .. len - 1 : buf[i] = i
        /\ buf[len] = Nul
=============================================================================
