------------------------------- MODULE Session -------------------------------
(***************************************************************************)
(* stmclient.cpp and the NotificationEngine of terminaloverlay: the life   *)
(* of a client from connecting to its last words, what it shows the user   *)
(* on the way, and what it makes of the keys.                              *)
(*                                                                         *)
(* Abstractions.                                                           *)
(*  - A timestamp is kept as its age, a deadline as the time left to it;   *)
(*    the clock stands still but in select and in the sleep after an       *)
(*    exception, as frozen_timestamp has it.                               *)
(*  - The Transport is what the loop sees of it: packets with a new state, *)
(*    with acknowledgments or with nothing new, its timers' wait, and a    *)
(*    tick that sends or does not, fails to, or throws.                    *)
(*  - A text shown is its kind.  Signals are left out (select.h registers  *)
(*    no handler), and has_remote_addr is true in every client.            *)
(*  - It begins after main_init.  Resizes are in Prediction and Screens.   *)
(***************************************************************************)
EXTENDS Integers, Sequences

CONSTANTS
    ConnectingPoll, ConnectingTimeout,           \* 250, 15000
    MessageTime, NetworkErrorTime, ErrorSleep,   \* 1000, ACK_INTERVAL + 100, 200
    ServerLate, ReplyLate, DisconnectedLong,     \* 6500, 10000, 60000
    CountupInterval, ACK_INTERVAL,               \* 1000, 3000
    ACTIVE_RETRY_TIMEOUT, SHUTDOWN_RETRIES,      \* 10000, 16
    Key, EscapeRequiresLf,    \* kinds of bytes the user types; escape_requires_lf
    MaxTyped, MaxRead,        \* bounds: bytes typed; bytes read at once
    MaxFaults,                \* bound: exceptions thrown and errors of sendto
    MaxAge, MaxConnecting     \* bounds: an age counts no further; nor, while connecting,
                              \* does the age of the first state

ASSUME SessionAssumption ==
    /\ {ConnectingPoll, ConnectingTimeout, MessageTime, NetworkErrorTime, ErrorSleep,
        ServerLate, ReplyLate, DisconnectedLong, CountupInterval, ACK_INTERVAL,
        ACTIVE_RETRY_TIMEOUT, SHUTDOWN_RETRIES} \subseteq Nat \ {0}
    /\ Key \subseteq {"escape", ".", "^", "suspend", "lf", "x"}
    /\ ConnectingPoll <= ConnectingTimeout
    /\ EscapeRequiresLf \in BOOLEAN
    /\ {MaxTyped, MaxRead, MaxFaults, MaxAge, MaxConnecting} \subseteq Nat
    /\ ACTIVE_RETRY_TIMEOUT <= MaxAge

VARIABLES
    pc,            \* where in an iteration of main
    wait,          \* what is left of select's timeout
    connected,     \* get_remote_state_num() # 0
    heard, acked,  \* ages of the latest remote state and of the last state acknowledged
    message,       \* the engine's: [text, left, network_error]
    screen,        \* what the bar shows: [text, countup, age]
    shutdown,      \* the sender's: [in_progress, age, tries, acknowledged]
    counterparty,  \* the other end's shutdown: "none", "received" or "ack sent"
    quit_sequence_started, lf_entered,
    typed, delivered,     \* bytes read while not shutting down; UserBytes pushed
    faults,
    ending         \* what shutdown() prints

clock == <<heard, acked, message, screen, shutdown>>
keyboard == <<quit_sequence_started, lf_entered, typed, delivered>>
vars == <<pc, wait, connected, clock, counterparty, keyboard, faults, ending>>

Forever == 2 * MaxAge + 1000
Least(S) == CHOOSE n \in S : \A m \in S : n <= m

Init ==
    /\ pc = "draw" /\ wait = 0
    /\ connected = FALSE /\ heard = 0 /\ acked = 0
    /\ message = [text |-> "", left |-> Forever, network_error |-> FALSE]
    /\ screen = [text |-> "", countup |-> FALSE, age |-> 0]
    /\ shutdown = [in_progress |-> FALSE, age |-> 0, tries |-> 0, acknowledged |-> FALSE]
    /\ counterparty = "none"
    /\ quit_sequence_started = FALSE /\ lf_entered = FALSE
    /\ typed = <<>> /\ delivered = <<>> /\ faults = 0 /\ ending = ""

(***************************************************************************)
(* Time passes: every age grows, every deadline comes nearer.              *)
(***************************************************************************)
Aged(age, d, limit) == Least({age + d, limit})
Nearer(left, d) == IF left = Forever THEN left ELSE IF left < d THEN -1 ELSE left - d

Elapsed(d) ==
    /\ heard' = Aged(heard, d, IF connected THEN MaxAge ELSE MaxConnecting)
    /\ acked' = Aged(acked, d, MaxAge)
    /\ screen' = [screen EXCEPT !.age = Aged(@, d, MaxAge)]
    /\ shutdown' = [shutdown EXCEPT !.age =
           IF shutdown.in_progress THEN Aged(@, d, MaxAge) ELSE @]

(***************************************************************************)
(* NotificationEngine                                                      *)
(***************************************************************************)
Permanent(text) == [text |-> text, left |-> Forever, network_error |-> FALSE]
Passing(text) == [text |-> text, left |-> MessageTime, network_error |-> FALSE]
NetworkError == [text |-> "error", left |-> NetworkErrorTime, network_error |-> TRUE]

\* clear_network_error
NetworkErrorCleared(m) ==
    IF m.network_error THEN [m EXCEPT !.left = Least({@, MessageTime})] ELSE m

\* adjust_message
Adjusted(m) == IF m.left <= 0 THEN [m EXCEPT !.text = ""] ELSE m

NeedCountup == heard > ServerLate \/ acked > ReplyLate

\* wait_time: the difference is unsigned, so that what expired is far ahead.
ExpiryWait(m) == IF m.left < 0 THEN Forever ELSE m.left

\* mutant: the bar is drawn again when the message goes, or not at all
NotificationWaitForMessage(m) == ExpiryWait(m)
NotificationWait(m) ==
    Least({ExpiryWait(m)} \cup
          (IF ~NeedCountup THEN {}
           ELSE IF heard > DisconnectedLong THEN {ACK_INTERVAL} ELSE {CountupInterval}))

(***************************************************************************)
(* output_new_frame, and the wait until the next: the sender's timers ask  *)
(* for no more than ACK_INTERVAL (NeverSilent in SenderTimers).  A poll    *)
(* returns at once, or after a while by the limit of Select.               *)
(***************************************************************************)
\* mutant: while connecting the loop sleeps as it does later
WaitTimeUnpolled(m) == Least({ACK_INTERVAL, NotificationWait(m)})
WaitTime(m) ==
    Least({ACK_INTERVAL, NotificationWait(m)} \cup (IF connected THEN {} ELSE {ConnectingPoll}))

OutputNewFrame ==
    /\ pc = "draw"
    /\ message' = Adjusted(message)
    /\ screen' = [text |-> message'.text, countup |-> NeedCountup, age |-> 0]
    /\ wait' \in IF WaitTime(message') = 0 THEN {0, 1} ELSE {WaitTime(message')}
    /\ pc' = "select"
    /\ UNCHANGED <<connected, heard, acked, shutdown, counterparty, keyboard, faults, ending>>

Select ==
    /\ pc = "select"
    /\ IF wait > 0
       THEN /\ Elapsed(1) /\ wait' = wait - 1
            /\ message' = [message EXCEPT !.left = Nearer(@, 1)]
            /\ pc' = pc
       ELSE pc' = "input" /\ UNCHANGED <<wait, clock>>
    /\ UNCHANGED <<connected, counterparty, keyboard, faults, ending>>

(***************************************************************************)
(* process_network_input: a packet that decrypts brings a new state or     *)
(* not, and acknowledges what was sent up to some age or nothing new.      *)
(***************************************************************************)
NewState(final) ==
    /\ connected' = TRUE /\ heard' = 0
    /\ counterparty' = IF final /\ counterparty = "none" THEN "received" ELSE counterparty

OldState == UNCHANGED <<connected, heard, counterparty>>

Acknowledges ==
    \/ acked' \in 0 .. acked /\ UNCHANGED shutdown
    \/ /\ shutdown.tries > 0 /\ acked' = Least({acked, shutdown.age})
       /\ shutdown' = [shutdown EXCEPT !.acknowledged = TRUE]

ProcessNetworkInput ==
    /\ pc = "select"
    /\ OldState \/ \E final \in BOOLEAN : NewState(final)
    /\ Acknowledges
    /\ pc' = "input"
    /\ UNCHANGED <<wait, message, screen, keyboard, faults, ending>>

(***************************************************************************)
(* An exception from recv, at "select", or tick skips the rest of the      *)
(* iteration.                                                              *)
(***************************************************************************)
Fault == faults < MaxFaults /\ faults' = faults + 1

NetworkException ==
    /\ pc \in {"select", "tick"} /\ Fault
    /\ LET m == IF shutdown.in_progress THEN message ELSE NetworkError
       IN  message' = [m EXCEPT !.left = Nearer(@, ErrorSleep)]
    /\ Elapsed(ErrorSleep)
    /\ pc' = "draw"
    /\ UNCHANGED <<wait, connected, counterparty, keyboard, ending>>

CryptoException ==
    /\ pc = "select" /\ Fault
    /\ message' = Passing("crypto") /\ pc' = "draw"
    /\ UNCHANGED <<wait, connected, heard, acked, screen, shutdown, counterparty, keyboard,
                   ending>>

(***************************************************************************)
(* shutdown, with what it prints.  A fatal exception is thrown on, by way  *)
(* of it; a select that fails breaks out of the loop to the same effect.   *)
(***************************************************************************)
Shutdown(clean_shutdown) ==
    /\ pc' = "ended"
    /\ message' = Passing("") /\ heard' = 0
    /\ screen' = [text |-> "", countup |-> acked > ReplyLate, age |-> 0]
    /\ ending' = IF ~connected THEN "no connection"
                 ELSE IF clean_shutdown THEN "clean" ELSE "not clean"
    /\ UNCHANGED <<wait, connected, acked, shutdown, counterparty, keyboard>>

FatalException == pc \in {"select", "tick"} /\ Fault /\ Shutdown(FALSE)

(***************************************************************************)
(* process_user_input, byte by byte: k is what it works on.                *)
(***************************************************************************)
StartedShutdown(s) == [s EXCEPT !.in_progress = TRUE]

\* mutant: a byte after the escape key that is no command stands for itself
EscapedAlone(byte) ==
    IF byte = "suspend" THEN <<>> ELSE IF byte = "^" THEN <<"escape">> ELSE <<byte>>
Escaped(byte) ==
    IF byte = "suspend" THEN <<>>
    ELSE IF byte = "^" THEN <<"escape">> ELSE <<"escape", byte>>

HelpCleared(m) == IF m.text = "help" THEN Passing("") ELSE m

SequenceEnded(k, byte) ==
    IF byte = "."
    THEN [k EXCEPT !.message = Permanent("exiting"), !.shutdown = StartedShutdown(@)]
    ELSE [k EXCEPT !.delivered = @ \o Escaped(byte), !.quit_sequence_started = FALSE,
                   !.message = HelpCleared(@)]

StartsSequence(k, byte) == byte = "escape" /\ (k.lf_entered \/ ~EscapeRequiresLf)

UserByte(k, byte) ==
    IF k.shutdown.in_progress THEN k
    ELSE LET r == [k EXCEPT !.typed = Append(@, byte)]
         IN  IF k.quit_sequence_started THEN SequenceEnded(r, byte)
             ELSE IF StartsSequence(k, byte)
             THEN [r EXCEPT !.quit_sequence_started = TRUE, !.lf_entered = FALSE,
                            !.message = Permanent("help")]
             ELSE [r EXCEPT !.lf_entered = (byte = "lf"), !.delivered = Append(@, byte)]

UserBytes(k, bytes) ==
    LET after[i \in 0 .. Len(bytes)] == IF i = 0 THEN k ELSE UserByte(after[i - 1], bytes[i])
    IN  after[Len(bytes)]

Input == UNION {[1 .. n -> Key] : n \in 0 .. MaxRead}

ProcessUserInput ==
    /\ pc = "input"
    /\ \E bytes \in Input :
          /\ bytes # <<>> => Len(typed) + Len(bytes) <= MaxTyped
          /\ LET k == UserBytes([message |-> message, shutdown |-> shutdown, typed |-> typed,
                                 delivered |-> delivered, lf_entered |-> lf_entered,
                                 quit_sequence_started |-> quit_sequence_started], bytes)
             IN  /\ message' = k.message /\ shutdown' = k.shutdown
                 /\ typed' = k.typed /\ delivered' = k.delivered
                 /\ lf_entered' = k.lf_entered
                 /\ quit_sequence_started' = k.quit_sequence_started
    /\ pc' = "check"
    /\ UNCHANGED <<wait, connected, heard, acked, screen, counterparty, faults, ending>>

(***************************************************************************)
(* The three ends of the loop, and the diagnostic message.                 *)
(***************************************************************************)
ShutdownAckTimedOut ==
    shutdown.tries >= SHUTDOWN_RETRIES \/ shutdown.age >= ACTIVE_RETRY_TIMEOUT

Acknowledged == shutdown.in_progress /\ shutdown.acknowledged
GivenUp == shutdown.in_progress /\ ~shutdown.acknowledged /\ ShutdownAckTimedOut
End == Acknowledged \/ GivenUp \/ counterparty = "ack sent"

Quit ==
    /\ pc = "check" /\ End
    /\ Shutdown(~GivenUp)
    /\ UNCHANGED faults

\* mutant: once connected, the message is left to expire
ConnectingClearedLate(m) == m
ConnectingCleared(m) == IF m.text = "connecting" THEN Passing("") ELSE m

Diagnosis ==
    /\ pc = "check" /\ ~End
    /\ IF ~connected /\ ~shutdown.in_progress /\ heard > ConnectingPoll
       THEN IF heard > ConnectingTimeout
            THEN message' = Permanent("timed out") /\ shutdown' = StartedShutdown(shutdown)
            ELSE message' = Passing("connecting") /\ UNCHANGED shutdown
       ELSE /\ message' = IF connected THEN ConnectingCleared(message) ELSE message
            /\ UNCHANGED shutdown
    /\ pc' = "tick"
    /\ UNCHANGED <<wait, connected, heard, acked, screen, counterparty, keyboard, faults,
                   ending>>

(***************************************************************************)
(* tick, and what became of its sendto.                                    *)
(***************************************************************************)
Tick ==
    /\ pc = "tick"
    /\ \/ UNCHANGED <<shutdown, counterparty>>
       \/ /\ shutdown' = [shutdown EXCEPT !.tries =
                              IF shutdown.in_progress THEN Least({@ + 1, SHUTDOWN_RETRIES}) ELSE @]
          /\ counterparty' = IF counterparty = "received" THEN "ack sent" ELSE counterparty
    /\ \/ message' = NetworkErrorCleared(message) /\ UNCHANGED faults
       \/ message' = NetworkError /\ Fault
    /\ pc' = "draw"
    /\ UNCHANGED <<wait, connected, heard, acked, screen, keyboard, ending>>

Next ==
    \/ OutputNewFrame \/ Select \/ ProcessNetworkInput \/ ProcessUserInput
    \/ NetworkException \/ CryptoException \/ FatalException
    \/ Quit \/ Diagnosis \/ Tick

Spec == Init /\ [][Next]_vars

-----------------------------------------------------------------------------
(***************************************************************************)
(* A permanent message says what is the case, however messages override    *)
(* each other: the help while its sequence is open, a farewell while the   *)
(* session shuts down.  And nobody waits at "Nothing received from server" *)
(* once something was.                                                     *)
(***************************************************************************)
MessageIsTrue ==
    /\ message.text = "help" => quit_sequence_started
    /\ message.text \in {"exiting", "timed out"} => shutdown.in_progress
    /\ pc = "select" /\ screen.text = "connecting" => ~connected

(***************************************************************************)
(* The bar is up to date while the loop sleeps: no message is shown beyond *)
(* its time, seconds shown are renewed, and a server silent or deaf for    *)
(* too long is reported within the heartbeat that wakes the loop.          *)
(***************************************************************************)
BarIsCurrent ==
    pc = "select" =>
        /\ screen.text # "" => screen.text = message.text /\ message.left >= 0
        /\ screen.countup =>
               screen.age <= IF heard > DisconnectedLong THEN ACK_INTERVAL ELSE CountupInterval
        /\ heard > ServerLate + ACK_INTERVAL \/ acked > ReplyLate + ACK_INTERVAL =>
               screen.countup

(***************************************************************************)
(* A client that never reaches its server gives up: after the timeout, the *)
(* time its shutdown takes, and a poll for each and every exception that   *)
(* made it skip its checks.                                                *)
(***************************************************************************)
GivesUpInTime ==
    ~connected /\ pc = "select" =>
        heard <= ConnectingTimeout + ACTIVE_RETRY_TIMEOUT + 2 * ConnectingPoll
                     + faults * (ErrorSleep + ConnectingPoll)

\* An escape key starts a command at the start of a line, or anywhere.
StartsAt(s, i, plain) ==
    s[i] = "escape" /\ (EscapeRequiresLf => plain /\ s[i - 1] = "lf")

Command(byte) ==
    IF byte \in {".", "suspend"} THEN <<>>
    ELSE IF byte = "^" THEN <<"escape">> ELSE <<"escape", byte>>

\* What the bytes s from the i-th on stand for; plain: the byte before was no
\* part of a command.
Reading(s) ==
    LET Read[i \in 1 .. Len(s) + 1] ==
            [plain \in BOOLEAN |->
                IF i > Len(s) THEN <<>>
                ELSE IF ~StartsAt(s, i, plain) THEN <<s[i]>> \o Read[i + 1][TRUE]
                ELSE IF i = Len(s) THEN <<>>
                ELSE Command(s[i + 1]) \o Read[i + 2][FALSE]]
    IN  Read

(***************************************************************************)
(* The server is sent what was typed, in order, once, without the commands *)
(* of the escape key: read from the left, an escape key (at the start of a *)
(* line, if it must be) takes the next byte with it.                       *)
(***************************************************************************)
KeysAreDelivered == delivered = Reading(typed)[1][FALSE]
=============================================================================
