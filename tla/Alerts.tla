------------------------------- MODULE Alerts -------------------------------
(***************************************************************************)
(* The mails that are meant to be sent once: one for a boot of the host    *)
(* that follows a power loss (power_events.py) and one for a client that   *)
(* authenticates for the first time (readonly_server.py), both sent by     *)
(* send_email (notifications.py), which retries.  The note that a mail was *)
(* sent is made before the mail: a file, and a set in Redis.  The backend  *)
(* sends in two places: the thread of the power check, and the event loop  *)
(* of the MCP server, which answers nobody while it does.                  *)
(***************************************************************************)
EXTENDS Naturals

CONSTANTS
    Visitors,   \* the clients
    Retries,    \* attempts of send_email: 3
    MaxBoots,   \* bound: boots of the host
    Cases       \* bound: the sets of conditions considered

Conditions ==
    {"crash",       \* the backend is restarted
     "refused",     \* the mail server refuses, or is not reached
     "late",        \* the mail server takes a mail and then reports an error
     "unwritable"}  \* the marker file cannot be written

VARIABLES
    odds,     \* the conditions of this behavior
    boot,     \* boot_id of the host
    recent,   \* its uptime is below _POWER_EVENT_WINDOW_SEC
    marker,   \* power_event_last_boot.txt, 0 when there is none
    known,    \* mcp:known_client_ips
    mailing,  \* thread -> the mail it sends and the attempt
    mails,    \* what a mail is about -> times the mail server took it
    cut       \* boots and clients whose mail a restart cut short

alertVars == <<odds, boot, recent, marker, known, mailing, mails, cut>>

Senders == {"check", "loop"}
BootOf(b) == [boot |-> b]
Subjects == Visitors \cup {BootOf(b) : b \in 1 .. MaxBoots}
\* Mails are tried, and no boot is a client.
AlertLimits ==
    /\ Retries \in Nat \ {0} /\ MaxBoots \in Nat \ {0}
    /\ \A b \in 1 .. MaxBoots : BootOf(b) \notin Visitors

\* The power check waits for the stack to settle first; the event loop is free.
Started == [check |-> [at |-> "settling", on |-> "nothing", try |-> 0],
            loop  |-> [at |-> "free", on |-> "nothing", try |-> 0]]
Ended(t) == [Started[t] EXCEPT !.at = IF t = "check" THEN "done" ELSE "free"]
Mailing(s) == [at |-> "mailing", on |-> s, try |-> 1]
Interrupted == {mailing[t].on : t \in {u \in Senders : mailing[u].at = "mailing"}}

AlertInit ==
    /\ odds \in Cases
    /\ boot = 1 /\ recent = TRUE
    /\ marker = 0 /\ known = {}
    /\ mailing = Started
    /\ mails = [s \in Subjects |-> 0]
    /\ cut = {}

PowerLoss ==
    /\ boot < MaxBoots
    /\ boot' = boot + 1 /\ recent' = TRUE
    /\ mailing' = Started
    /\ cut' = cut \cup Interrupted
    /\ UNCHANGED <<odds, marker, known, mails>>

\* a deploy, or the supervisor
Restart ==
    /\ "crash" \in odds
    /\ mailing' = Started
    /\ cut' = cut \cup Interrupted
    /\ UNCHANGED <<odds, boot, recent, marker, known, mails>>

\* half an hour passes
BootSettled ==
    /\ recent /\ recent' = FALSE
    /\ UNCHANGED <<odds, boot, marker, known, mailing, mails, cut>>

CheckUnmarked ==
    /\ mailing["check"].at = "settling"
    /\ mailing' = [mailing EXCEPT !["check"] = IF recent THEN Mailing(BootOf(boot)) ELSE Ended("check")]
    /\ marker' = IF recent /\ "unwritable" \notin odds THEN boot ELSE marker
    /\ UNCHANGED <<odds, boot, recent, known, mails, cut>>

\* check_and_notify_power_event, up to the mail
Check ==
    /\ mailing["check"].at = "settling"
    /\ IF recent /\ marker # boot
       THEN /\ mailing' = [mailing EXCEPT !["check"] = Mailing(BootOf(boot))]
            /\ marker' = IF "unwritable" \in odds THEN marker ELSE boot
       ELSE mailing' = [mailing EXCEPT !["check"] = Ended("check")] /\ UNCHANGED marker
    /\ UNCHANGED <<odds, boot, recent, known, mails, cut>>

\* A request that is let in.  SADD says whether its client is new.
Admit(c) ==
    /\ mailing["loop"].at = "free"
    /\ known' = known \cup {c}
    /\ mailing' = IF c \in known THEN mailing ELSE [mailing EXCEPT !["loop"] = Mailing(c)]
    /\ UNCHANGED <<odds, boot, recent, marker, mails, cut>>

\* One attempt of send_email: an error leads to the next, up to the last.
Again(t) ==
    IF mailing[t].try < Retries THEN [mailing EXCEPT ![t].try = @ + 1] ELSE [mailing EXCEPT ![t] = Ended(t)]
Taken(t) == mails' = [mails EXCEPT ![mailing[t].on] = @ + 1]

Send(t) ==
    /\ mailing[t].at = "mailing"
    /\ \/ Taken(t) /\ mailing' = [mailing EXCEPT ![t] = Ended(t)]
       \/ "refused" \in odds /\ mailing' = Again(t) /\ UNCHANGED mails
       \/ "late" \in odds /\ Taken(t) /\ mailing' = Again(t)
    /\ UNCHANGED <<odds, boot, recent, marker, known, cut>>

AlertNext ==
    \/ PowerLoss \/ Restart \/ BootSettled \/ Check
    \/ \E c \in Visitors : Admit(c)
    \/ \E t \in Senders : Send(t)

AlertSpec == AlertInit /\ [][AlertNext]_alertVars

(***************************************************************************)
(* Properties                                                              *)
(***************************************************************************)
Noted == known \cup {BootOf(b) : b \in {marker} \ {0}}

\* "deploys and backend restarts within the same boot never re-send" (power_events.py:10),
\* nor does a second request of a client, wherever a restart cuts in; an error after the
\* mail was taken costs at most one mail an attempt.  And what is noted as announced was
\* announced or is about to be, unless the server refused or a restart cut the mail short.
AnnouncedOnce ==
    /\ "unwritable" \notin odds =>
          \A s \in Subjects : mails[s] <= IF "late" \in odds THEN Retries ELSE 1
    /\ "refused" \notin odds =>
          \A s \in Noted \ cut : mails[s] >= 1 \/ s \in Interrupted
=============================================================================
