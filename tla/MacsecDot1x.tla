----------------------------- MODULE MacsecDot1x -----------------------------
(***************************************************************************)
(* run_macsec_checks() of lab/test_macsec_dot1x.py, one command after the  *)
(* other, on a link that is reauthenticated every DOT1X_REAUTH_PERIOD_SEC  *)
(* seconds.  A reauthentication is logged by RADIUS, and then each of the  *)
(* two switches replaces, at its own pace, the MKA participant of the old  *)
(* session by one with the CKN of the new session.  Sessions are numbered; *)
(* the number is the CKN and the count of "Login OK" lines at once.        *)
(*                                                                         *)
(* Time is counted in ticks.  A command of the script takes at most        *)
(* CallTicks, an EAP exchange EapTicks, and the participants are replaced  *)
(* MkaTicks after it at the latest.                                        *)
(***************************************************************************)
EXTENDS Naturals, Sequences

CONSTANTS ReauthPeriod,  \* DOT1X_REAUTH_PERIOD_SEC
          ReauthBuffer,  \* REAUTH_WAIT_BUFFER_SEC
          PollInterval,  \* MKA_POLL_INTERVAL_SEC, STATIC_MACSEC_POLL_INTERVAL_SEC
          PollAttempts,  \* MKA_POLL_ATTEMPTS, STATIC_MACSEC_POLL_ATTEMPTS
          CallTicks,     \* bound: the longest command
          EapTicks,      \* bound: the longest EAP exchange
          MkaTicks,      \* bound: the longest change of participants
          MaxOutages     \* bound: times the RADIUS server goes away

ASSUME Dot1xAssumption ==
    /\ {ReauthPeriod, PollInterval, PollAttempts, EapTicks, MkaTicks} \subseteq Nat \ {0}
    /\ {ReauthBuffer, CallTicks, MaxOutages} \subseteq Nat
    /\ EapTicks + MkaTicks < ReauthPeriod

VARIABLES session,     \* successful EAP exchanges so far
          eap,         \* an exchange is running
          timer,       \* ticks to the next reauthentication
          age,         \* ticks since the last exchange started or ended
          radius,      \* the RADIUS server answers
          outages,     \* times it went away
          authorized,  \* the port is authorized
          mka,         \* mka[e]: e's participants of the last two sessions
          verify,      \* --verify-reauth was given
          at, done,    \* the script's step of Plan, and how it ended
          sleep, call, \* ticks left of its sleep, and taken by its command
          attempt,     \* failed attempts of its polling loop
          got,         \* got[e]: the CKN last read from e
          counted,     \* baseline_ok
          baseline,    \* baseline_ckn
          moved,       \* a CKN was changing at or after the authenticator's read
          failed       \* a reauthentication, or a count of logins, failed

link   == <<session, eap, timer, age, authorized, mka>>
server == <<radius, outages>>
script == <<at, done, sleep, call, attempt, got, counted, baseline>>
hist   == <<moved, failed>>
reads  == <<got, counted, baseline>>
world  == <<link, server, verify>>
vars   == <<link, server, verify, script, hist>>

AUTHENTICATOR == "ceos1-both"
SUPPLICANT == "ceos2-pqc"
Ends == {AUTHENTICATOR, SUPPLICANT}
Generations == {"old", "new"}

\* No participant; one without success and live peers; a successful one; and
\* the one whose SAK the switch transmits with.
States == {"absent", "stale", "live", "transmits"}

Settled == [old |-> "absent", new |-> "transmits"]
Gone == [old |-> "absent", new |-> "absent"]

Init ==
    /\ session = 0 /\ eap = FALSE /\ timer \in 0..ReauthPeriod /\ age = 0
    /\ radius = TRUE /\ outages = 0 /\ authorized = TRUE
    /\ mka = [e \in Ends |-> Settled]
    /\ verify \in BOOLEAN
    /\ at = 1 /\ done = "no" /\ sleep = 0 /\ call = 0 /\ attempt = 0
    /\ got = [e \in Ends |-> 0] /\ counted = 0 /\ baseline = 0
    /\ moved = FALSE /\ failed = FALSE
-----------------------------------------------------------------------------
(* 802.1X and MKA on the link between the switches. *)

Converged == ~authorized \/ \A e \in Ends : mka[e] = Settled

Less(n) == IF n > 0 THEN n - 1 ELSE 0

Running == done = "no"

Reauthenticate ==
    /\ ~eap /\ timer = 0 /\ Converged
    /\ eap' = TRUE /\ age' = 0
    /\ UNCHANGED <<session, timer, authorized, mka, server, verify, script, hist>>

\* Access-Accept: "Auth: Login OK" is logged and the session has a new CKN.
LoginOk ==
    /\ eap /\ radius
    /\ eap' = FALSE /\ age' = 0 /\ timer' = ReauthPeriod
    /\ session' = session + 1 /\ authorized' = TRUE
    /\ mka' = [e \in Ends |-> [old |-> mka[e].new, new |-> "absent"]]
    /\ moved' = TRUE
    /\ UNCHANGED <<server, verify, script, failed>>

\* No answer: the port is closed until the next attempt.
LoginFails ==
    /\ eap /\ ~radius
    /\ eap' = FALSE /\ age' = 0 /\ timer' = ReauthPeriod
    /\ authorized' = FALSE /\ failed' = TRUE
    /\ mka' = [e \in Ends |-> Gone]
    /\ UNCHANGED <<session, server, verify, script, moved>>

Becomes(e, p, s) ==
    /\ mka' = [mka EXCEPT ![e][p] = s]
    /\ moved' = TRUE
    /\ UNCHANGED <<session, eap, timer, age, authorized, server, verify,
                   script, failed>>

Create(e) == ~eap /\ authorized /\ mka[e].new = "absent" /\ Becomes(e, "new", "stale")

\* MKA succeeds when both ends have the participant.
Join(e) ==
    /\ mka[e].new = "stale" /\ \A f \in Ends : mka[f].new # "absent"
    /\ Becomes(e, "new", "live")

\* The SAK of the new participant replaces the old one's.
Install(e) ==
    /\ mka[e].new = "live"
    /\ mka' = [mka EXCEPT ![e].new = "transmits",
                          ![e].old = IF @ = "transmits" THEN "live" ELSE @]
    /\ moved' = TRUE
    /\ UNCHANGED <<session, eap, timer, age, authorized, server, verify,
                   script, failed>>

\* Reauthentication may clear the old participant before the new one lives.
Retire(e) == ~eap /\ mka[e].old # "absent" /\ Becomes(e, "old", "absent")

RadiusStops ==
    /\ radius /\ outages < MaxOutages
    /\ radius' = FALSE /\ outages' = outages + 1
    /\ UNCHANGED <<link, verify, script, hist>>

RadiusReturns ==
    /\ ~radius
    /\ radius' = TRUE
    /\ UNCHANGED <<link, outages, verify, script, hist>>
-----------------------------------------------------------------------------
(* The order of the script, as a sequence of <<check, switch>>. *)

SwitchChecks(e) ==
    << <<"config", e>>, <<"status", e>> >>
        \o (IF e = AUTHENTICATOR THEN << <<"port", e>> >> ELSE << >>)
        \o << <<"interface", e>>, <<"ckn", e>> >>

LinkChecks ==
    << <<"compare", SUPPLICANT>>, <<"ping", AUTHENTICATOR>>, <<"ping", SUPPLICANT>> >>

\* Bug: no time.sleep().
ReauthChecksNoWait ==
    << <<"count", AUTHENTICATOR>>,
       <<"status", AUTHENTICATOR>>, <<"port", AUTHENTICATOR>>, <<"status", SUPPLICANT>>,
       <<"ckn", AUTHENTICATOR>>, <<"ckn", SUPPLICANT>>, <<"compare", SUPPLICANT>>,
       <<"recount", AUTHENTICATOR>> >>

ReauthChecks ==
    << <<"count", AUTHENTICATOR>>, <<"wait", AUTHENTICATOR>>,
       <<"status", AUTHENTICATOR>>, <<"port", AUTHENTICATOR>>, <<"status", SUPPLICANT>>,
       <<"ckn", AUTHENTICATOR>>, <<"ckn", SUPPLICANT>>, <<"compare", SUPPLICANT>>,
       <<"recount", AUTHENTICATOR>> >>

\* The QuaDRA pair is polled end by end, then each end pings the other.
StaticChecks ==
    << <<"config", "master">>, <<"static", "master">>,
       <<"config", "slave">>, <<"static", "slave">>,
       <<"static_ping", "master">>, <<"static_ping", "slave">> >>

Plan == SwitchChecks(AUTHENTICATOR) \o SwitchChecks(SUPPLICANT) \o LinkChecks
            \o (IF verify THEN ReauthChecks ELSE << >>) \o StaticChecks

\* Once the script has turned to the QuaDRA pair it never looks at the link
\* again, and the model lets it stand still.
Observed == Running /\ at <= Len(Plan) - Len(StaticChecks)

LinkTick ==
    /\ IF eap THEN age < EapTicks ELSE timer > 0
    /\ ~eap /\ ~Converged => age < MkaTicks
    /\ timer' = Less(timer)
    /\ age' = IF eap \/ ~Converged THEN age + 1 ELSE 0

Tick ==
    /\ Running
    /\ sleep = 0 => call < CallTicks
    /\ sleep' = Less(sleep) /\ call' = IF sleep = 0 THEN call + 1 ELSE 0
    /\ IF Observed THEN LinkTick ELSE UNCHANGED <<timer, age>>
    /\ UNCHANGED <<session, eap, authorized, mka, server, verify,
                   at, done, attempt, reads, hist>>

At(check) == Running /\ sleep = 0 /\ at <= Len(Plan) /\ Plan[at][1] = check
Switch == Plan[at][2]

\* The next command of the script, after a pause.
Step(pause) ==
    /\ at' = at + 1 /\ sleep' = pause /\ call' = 0 /\ attempt' = 0
    /\ UNCHANGED <<world, done>>

Advance(pause) == Step(pause) /\ UNCHANGED failed

\* An exception ends the process, and what it has read is lost.
Exit(why) ==
    /\ done' = why /\ at' = 1 /\ sleep' = 0 /\ call' = 0 /\ attempt' = 0
    /\ got' = [e \in Ends |-> 0] /\ counted' = 0 /\ baseline' = 0
    /\ UNCHANGED world

Fail(why) == Exit(why) /\ UNCHANGED hist

\* Checks whose outcome is that of one look.
LookAt(check, good) ==
    /\ At(check)
    /\ \/ good /\ Advance(0) /\ UNCHANGED <<reads, moved>>
       \/ ~good /\ Fail(check)

CheckConfig == LookAt("config", TRUE)

CheckDot1x == LookAt("status", authorized)

\* "unauthorized" contains "authorized" and case is ignored.
CheckPort == LookAt("port", TRUE)

Protected(e) == \E p \in Generations : mka[e][p] = "transmits"
CheckInterface == LookAt("interface", Protected(Switch))

\* What an end transmits with the other end must be able to receive.
Carries ==
    \A e, f \in Ends : \E p \in Generations :
        mka[e][p] = "transmits" /\ mka[f][p] \in {"live", "transmits"}
CheckPing == LookAt("ping", Carries)

\* The QuaDRA link, whose keys its agents change at any moment, is up or not.
CheckStaticPing == \E up \in BOOLEAN : LookAt("static_ping", up)
-----------------------------------------------------------------------------
(* Reading the CKN: check_mka_participants(). *)

LivePeers(e) == {p \in Generations : mka[e][p] \in {"live", "transmits"}}

\* extract_ckn_from_json() prefers the participant that transmits.
Ckns(e) ==
    LET sending == {p \in Generations : mka[e][p] = "transmits"}
    IN  {IF p = "new" THEN session ELSE session - 1 :
            p \in IF sending # {} THEN sending ELSE LivePeers(e)}

\* Bugs: one attempt only; range(PollAttempts + 1).
Once == 1
OneMore == PollAttempts + 1

Attempts == PollAttempts

\* Bug: the attempts are not counted.
TryAgainForever(why) ==
    /\ sleep' = PollInterval /\ call' = 0 /\ attempt' = 1
    /\ UNCHANGED <<world, at, done, reads, hist>>

\* One more turn of a polling loop, or its end.
TryAgain(why) ==
    IF attempt + 1 < Attempts
    THEN /\ attempt' = attempt + 1 /\ sleep' = PollInterval /\ call' = 0
         /\ UNCHANGED <<world, at, done, reads, hist>>
    ELSE Fail(why)

ReadCkn ==
    /\ At("ckn")
    /\ IF LivePeers(Switch) # {}
       THEN /\ \E c \in Ckns(Switch) : got' = [got EXCEPT ![Switch] = c]
            /\ moved' = IF Switch = AUTHENTICATOR THEN ~Converged ELSE moved
            /\ Advance(0) /\ UNCHANGED <<counted, baseline>>
       ELSE TryAgain("ckn")

\* The QuaDRA link is polled the same way, with a ping in each turn.
CheckStatic ==
    /\ At("static")
    /\ \/ Advance(0) /\ UNCHANGED <<reads, moved>>
       \/ TryAgain("static")

Agrees == got[AUTHENTICATOR] = got[SUPPLICANT]
Compare == LookAt("compare", Agrees)
-----------------------------------------------------------------------------
(* check_dot1x_reauth_cycle(). *)

\* The log has a line for the session the script finds, too.
Logins == session + 1

\* A count whose docker exec fails is taken for 0.
CountLogins ==
    /\ At("count")
    /\ baseline' = got[AUTHENTICATOR]
    /\ \/ counted' = Logins /\ UNCHANGED failed
       \/ counted' = 0 /\ failed' = TRUE
    /\ Step(0) /\ UNCHANGED <<got, moved>>

WaitForReauth ==
    /\ At("wait")
    /\ Advance(ReauthPeriod + ReauthBuffer) /\ UNCHANGED <<reads, moved>>

Recount == LookAt("recount", Logins > counted)

RecountFails ==
    /\ At("recount")
    /\ Exit("recount") /\ failed' = TRUE /\ UNCHANGED moved

Complete ==
    /\ Running /\ at > Len(Plan)
    /\ done' = "ok" /\ call' = 0
    /\ UNCHANGED <<world, at, sleep, attempt, reads, hist>>

\* ceos_cli() raises PqcConnectionError, which main() does not even catch.
CommandFails ==
    /\ Running /\ sleep = 0 /\ at <= Len(Plan)
    /\ Plan[at][1] \notin {"compare", "wait", "count", "recount"}
    /\ Fail("error")
-----------------------------------------------------------------------------
Link ==
    /\ Observed
    /\ \/ Reauthenticate \/ LoginOk \/ LoginFails
       \/ \E e \in Ends : Create(e) \/ Join(e) \/ Install(e) \/ Retire(e)
Radius == Observed /\ (RadiusStops \/ RadiusReturns)
Script == \/ CheckConfig \/ CheckDot1x \/ CheckPort \/ CheckInterface \/ ReadCkn
          \/ Compare \/ CheckPing \/ CountLogins \/ WaitForReauth \/ Recount \/ RecountFails
          \/ CheckStatic \/ CheckStaticPing \/ Complete

Next == Tick \/ Link \/ Radius \/ Script \/ CommandFails

Spec == Init /\ [][Next]_vars

\* Time passes, the switches react in time and the script runs on.
FairSpec == Spec /\ WF_vars(Tick) /\ WF_vars(Link) /\ WF_vars(Script)
-----------------------------------------------------------------------------
\* Type correctness of the link, its participants and the script.
TypeOK ==
    /\ session \in Nat /\ {eap, radius, authorized, verify, moved, failed} \subseteq BOOLEAN
    /\ timer \in 0..ReauthPeriod /\ age \in 0..(EapTicks + MkaTicks)
    /\ outages \in 0..MaxOutages
    /\ mka \in [Ends -> [Generations -> States]]
    /\ at \in 1..(Len(Plan) + 1)
    /\ sleep \in 0..(ReauthPeriod + ReauthBuffer) \cup 0..PollInterval
    /\ call \in 0..CallTicks /\ attempt \in 0..(PollAttempts - 1)
    /\ got \in [Ends -> Nat] /\ {counted, baseline} \subseteq Nat
    /\ done \in {"no", "ok", "error", "config", "status", "port", "interface", "ckn",
                 "compare", "ping", "recount", "static", "static_ping"}

\* A missing login or missing peers are reported only when an exchange, or the
\* count itself, did fail: the polling outlasts every change of participants, and the wait
\* contains a whole reauthentication (check_mka_participants(),
\* check_dot1x_reauth_cycle()).  Peers are said to disagree only when a CKN was
\* changing at the first of the two reads or after it.
AlarmsAreReal ==
    /\ done \in {"ckn", "recount"} => failed
    /\ done = "compare" => moved

\* A reauthentication check that passes has compared the CKNs of a session
\* that is newer than the one the check started with.
RotationObserved ==
    done = "ok" /\ verify => \A e \in Ends : got[e] > baseline

\* The script ends, whatever the RADIUS server and the link do.
CheckEnds == <>(done # "no")
==============================================================================
