----------------------------- MODULE OtManager -----------------------------
(***************************************************************************)
(* components/openthread_manager: one task joins the Thread network with   *)
(* ot_manager_init, waits for a role, and leaves it with                   *)
(* ot_manager_deinit.  The credentials are data the code only copies.      *)
(* elapsed is a uint32_t; its arithmetic wraps at WordSize.                *)
(*                                                                         *)
(* The OpenThread stack and the radio are external: the stack is stopped,  *)
(* started, or joining a network, and only a joining one gets or loses a   *)
(* role, at any moment.                                                    *)
(***************************************************************************)
EXTENDS Naturals

CONSTANTS
    Timeouts,      \* the timeout_ms callers pass
    PollInterval,  \* OT_POLL_INTERVAL_MS
    WordSize,      \* 2^32
    MaxInits       \* bound: calls of ot_manager_init

ASSUME OtManagerAssumption ==
    /\ WordSize \in Nat /\ Timeouts \subseteq 0 .. WordSize - 1
    /\ PollInterval \in 1 .. WordSize - 1
    /\ MaxInits \in Nat

VARIABLES
    pc,          \* the task: which call is next, or where it stands in one
    eventfd,     \* the event descriptors are registered with the VFS
    stack,       \* OpenThread: "stopped", "started", or "joining"
    role,        \* child, router or leader (TRUE), detached (FALSE)
    ranBefore,   \* history: the stack ran when ot_manager_init was called
    isAttached,  \* s_attached
    timeout,     \* timeout_ms of the call
    elapsed,     \* milliseconds waited
    ret,         \* what ot_manager_init returned last
    inits        \* calls of ot_manager_init so far

callVars == <<ranBefore, timeout, elapsed, inits>>
stackVars == <<eventfd, stack, role>>
vars == <<pc, stackVars, isAttached, callVars, ret>>

Init ==
    /\ pc = "idle"
    /\ eventfd = FALSE
    /\ stack = "stopped" /\ role = FALSE /\ ranBefore = FALSE
    /\ isAttached = FALSE
    /\ timeout = 0 /\ elapsed = 0 /\ inits = 0
    /\ ret = "NONE"

Goto(from, to) == pc = from /\ pc' = to

Fail == /\ pc' = "idle"
        /\ ret' = "FAIL"

(* esp_openthread_stop *)
StopStack == stack' = "stopped" /\ role' = FALSE

-----------------------------------------------------------------------------
(* ot_manager_init *)

(* The manager does not ask whether the stack runs already. *)
Call ==
    /\ Goto("idle", "register")
    /\ inits < MaxInits
    /\ inits' = inits + 1
    /\ timeout' \in Timeouts
    /\ elapsed' = 0
    /\ isAttached' = FALSE
    /\ ranBefore' = (stack # "stopped")
    /\ UNCHANGED <<stackVars, ret>>

(* ESP_ERR_INVALID_STATE, registered already, is as good as ESP_OK. *)
RegisterEventfd ==
    /\ Goto("register", "start")
    /\ eventfd' = TRUE
    /\ UNCHANGED <<stack, role, isAttached, callVars, ret>>

RegisterEventfdFails ==
    /\ pc = "register" /\ ~ eventfd
    /\ Fail
    /\ UNCHANGED <<stackVars, isAttached, callVars>>

(* esp_openthread_start, which refuses a stack that runs already *)
StartOpenThread ==
    /\ Goto("start", "autoStart")
    /\ stack = "stopped"
    /\ stack' = "started"
    /\ UNCHANGED <<eventfd, role, isAttached, callVars, ret>>

StartOpenThreadFails ==
    /\ pc = "start"
    /\ Fail
    /\ UNCHANGED <<stackVars, isAttached, callVars>>

(* esp_openthread_auto_start; when it fails the stack is stopped again. *)
AutoStart ==
    /\ Goto("autoStart", "look")
    /\ stack' = "joining"
    /\ UNCHANGED <<eventfd, role, isAttached, callVars, ret>>

(* A mutant: the stack is left running. *)
AutoStartFailsRunning ==
    /\ pc = "autoStart"
    /\ Fail
    /\ UNCHANGED <<stackVars, isAttached, callVars>>

AutoStartFails ==
    /\ pc = "autoStart"
    /\ Fail
    /\ StopStack
    /\ UNCHANGED <<eventfd, isAttached, callVars>>

(* while (elapsed <= timeout_ms): a role ends the wait, ... *)
SeeRole ==
    /\ Goto("look", "idle")
    /\ elapsed <= timeout
    /\ role
    /\ isAttached' = TRUE
    /\ ret' = "OK"
    /\ UNCHANGED <<stackVars, callVars>>

(* ... and a next look that would come too late does.  The sum is computed *)
(* in 32 bits.                                                             *)
Later(ms) == (ms + PollInterval) % WordSize

(* A mutant: only what has been waited already counts. *)
TooLateNow == elapsed > timeout

TooLate == elapsed > timeout \/ Later(elapsed) > timeout

SeeNoRole ==
    /\ Goto("look", "wait")
    /\ ~ role /\ ~ TooLate
    /\ UNCHANGED <<stackVars, isAttached, callVars, ret>>

(* A mutant: the wait is started over and not counted on. *)
WaitUncounted ==
    /\ Goto("wait", "look")
    /\ UNCHANGED <<stackVars, isAttached, callVars, ret>>

(* vTaskDelay *)
Wait ==
    /\ Goto("wait", "look")
    /\ elapsed' = Later(elapsed)
    /\ UNCHANGED <<stackVars, isAttached, ranBefore, timeout, inits, ret>>

TimeOut ==
    /\ Goto("look", "idle")
    /\ elapsed <= timeout => ~ role
    /\ TooLate
    /\ StopStack
    /\ ret' = "TIMEOUT"
    /\ UNCHANGED <<eventfd, isAttached, callVars>>

-----------------------------------------------------------------------------
(* ot_manager_deinit, at any time between calls: the stack goes first,     *)
(* s_attached after it.                                                    *)

Leave ==
    /\ Goto("idle", "clear")
    /\ StopStack
    /\ UNCHANGED <<eventfd, isAttached, callVars, ret>>

ClearAttached ==
    /\ Goto("clear", "idle")
    /\ isAttached' = FALSE
    /\ UNCHANGED <<stackVars, callVars, ret>>

-----------------------------------------------------------------------------
(* The device attaches to a parent or loses it. *)
ChangeRole ==
    /\ stack = "joining"
    /\ role' = ~ role
    /\ UNCHANGED <<pc, eventfd, stack, isAttached, callVars, ret>>

InitStep ==
    \/ RegisterEventfd \/ RegisterEventfdFails
    \/ StartOpenThread \/ StartOpenThreadFails
    \/ AutoStart \/ AutoStartFails
    \/ SeeRole \/ SeeNoRole \/ Wait \/ TimeOut

Next == Call \/ InitStep \/ Leave \/ ClearAttached \/ ChangeRole

(* The scheduler runs the task and ends its delays; nothing is assumed of  *)
(* the network.                                                            *)
Spec == Init /\ [][Next]_vars /\ WF_vars(InitStep) /\ WF_vars(ClearAttached)

-----------------------------------------------------------------------------
(* Properties *)

(* A call never waits longer than it was told to. *)
TypeOK ==
    /\ pc \in {"idle", "register", "start", "autoStart", "look", "wait",
               "clear"}
    /\ eventfd \in BOOLEAN
    /\ stack \in {"stopped", "started", "joining"}
    /\ role \in BOOLEAN /\ (role => stack = "joining")
    /\ ranBefore \in BOOLEAN
    /\ isAttached \in BOOLEAN
    /\ timeout \in {0} \union Timeouts
    /\ elapsed \in 0 .. timeout
    /\ ret \in {"NONE", "OK", "FAIL", "TIMEOUT"}
    /\ inits \in 0 .. MaxInits

(* Between calls the stack is stopped or joining, never left half way; a   *)
(* call that returned an error leaves it running only if it ran before;    *)
(* and s_attached does not outlive the stack.  openthread_manager.h takes  *)
(* the flag to follow the role as well: code that did would pass, too.     *)
JoinedOrUndone ==
    pc = "idle" => /\ stack # "started"
                   /\ ret \in {"FAIL", "TIMEOUT"} /\ stack # "stopped" =>
                         ranBefore
                   /\ isAttached => stack = "joining"

(* ot_manager_init returns, with whatever timeout the caller chose that is *)
(* at least an interval away from the largest uint32_t, whatever the       *)
(* network does.                                                           *)
InitReturns ==
    /\ pc \notin {"idle", "clear"}
    /\ timeout + PollInterval < WordSize
    ~> pc = "idle"

-----------------------------------------------------------------------------
(* What the header says *)

(* openthread_manager.h:28, ot_manager_is_attached: "Returns true if the   *)
(* device is currently attached to a Thread network".  The flag is set     *)
(* once and does not follow the role: this does not hold.                  *)
AttachedMeansRole == pc = "idle" /\ isAttached => role
=============================================================================
