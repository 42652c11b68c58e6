---------------------------- MODULE PeerScoring ----------------------------
(* PeerScoringManager and BanManager: reputation is kept per address, bans   *)
(* and offences per host, and both are written to files that a restart reads *)
(* back.  Durations and thresholds are parameters.                           *)
EXTENDS NetBase

CONSTANTS Penalty,        \* reason_penalties: reason -> points taken
          FailureCost,    \* 5, record_failure
          SuccessGain,    \* 10, record_success
          TempScore, LongScore, PermScore,          \* 50, 80, 120 below zero
          TempFailures, LongFailures, PermFailures, \* 8, 12, 20
          ShortOffenses, DayOffenses, PermOffenses, \* 5, 10, 20
          Hour, Day, Week,                          \* 3600, 86400, 7 * 86400
          MaxFailures, MinScore, MaxScore, MaxOffenses  \* bounds of the model

Reason == DOMAIN Penalty
Forever == 0 - 1                 \* banned_until of a permanent BanEntry

VARIABLES scores,     \* address -> PeerScore, for the addresses seen
          bans,       \* host -> banned_until, for the hosts in the ban list
          offenses,   \* host -> times of its offences, oldest first
          scoreFile,  \* peer_scores.json
          banFile     \* banlist.json

scoreVars == <<scores, bans, offenses, scoreFile, banFile>>

NewScore == [score |-> 0, seen |-> 0, failures |-> 0]
Drop(f, D) == [x \in DOMAIN f \ D |-> f[x]]
Put(f, x, v) == [y \in DOMAIN f \cup {x} |-> IF y = x THEN v ELSE f[y]]
EmptyMap == [x \in {} |-> 0]

(* get_score *)
ScoreOf(s, a) == IF a \in DOMAIN s THEN s[a] ELSE NewScore

(* BanEntry.is_active *)
IsActive(b, h, t) == h \in DOMAIN b /\ (b[h] = Forever \/ t < b[h])

Expired(b, t) == {h \in DOMAIN b : ~IsActive(b, h, t)}

(* Fault: an entry is dropped in the last unit before its time is up *)
Fault_cleanup_expired(b, t) == Drop(b, Expired(b, t + 1))

cleanup_expired(b, t) == Drop(b, Expired(b, t))

(* BanManager.ban: the new entry replaces whatever the host had *)
ban(b, a, duration, t) ==
    Put(b, HostOf[a], IF duration = Forever THEN Forever ELSE t + duration)

(* record_offense: the offences still in the window, this one added *)
OffensesWith(a, t) ==
    LET old == IF HostOf[a] \in DOMAIN offenses THEN offenses[HostOf[a]] ELSE <<>>
    IN  Append(InWindow(old, t, Hour), t)

(* The duration record_offense bans for, 0 for none *)
OffenseBan(n) ==
    CASE n >= PermOffenses  -> Forever
      [] n >= DayOffenses   -> Day
      [] n >= ShortOffenses -> Hour
      [] OTHER              -> 0

(* _apply_ban_policy, before offences count *)
PolicyBan(s) ==
    CASE s.failures >= PermFailures \/ s.score <= PermScore -> Forever
      [] s.failures >= LongFailures \/ s.score <= LongScore -> Week
      [] s.failures >= TempFailures \/ s.score <= TempScore -> Day
      [] OTHER                                              -> 0
-----------------------------------------------------------------------------
ScoreInit ==
    /\ scores = EmptyMap /\ bans = EmptyMap /\ offenses = EmptyMap
    /\ scoreFile = EmptyMap /\ banFile = EmptyMap

SaveScores == scoreFile' = scores'

(* _save is called whenever the list changed *)
SaveBans == banFile' = IF bans' # bans THEN bans' ELSE banFile

(* record_good: a success clears the failures; _cleanup forgets the          *)
(* addresses not seen for a week and the bans that ran out                   *)
RecordGood(a) ==
    LET s == ScoreOf(scores, a)
        t == [s EXCEPT !.score = @ + SuccessGain, !.failures = 0,
                       !.seen = now]
        old == {b \in DOMAIN scores \ {a} : now - scores[b].seen > Week}
    IN  /\ s.score + SuccessGain <= MaxScore
        /\ scores' = Drop(Put(scores, a, t), old)
        /\ bans' = cleanup_expired(bans, now)
        /\ SaveScores /\ SaveBans
        /\ UNCHANGED offenses

(* record_bad: the penalty, then the ban its score or failures call for, or  *)
(* else the one its host's offences call for                                 *)
RecordBad(a, reason) ==
    LET s == ScoreOf(scores, a)
        t == [s EXCEPT !.score = @ - FailureCost - Penalty[reason],
                       !.failures = @ + 1, !.seen = now]
        policy == PolicyBan(t)
        times == OffensesWith(a, now)
        length == IF policy # 0 THEN policy ELSE OffenseBan(Len(times))
    IN  /\ s.failures < MaxFailures /\ t.score >= MinScore
        /\ Len(times) <= MaxOffenses
        /\ scores' = Put(scores, a, t)
        /\ bans' = IF length = 0 THEN bans ELSE ban(bans, a, length, now)
        /\ offenses' = IF policy # 0 THEN offenses
                       ELSE Put(offenses, HostOf[a], times)
        /\ SaveScores /\ SaveBans

(* is_banned, asked through should_connect: an entry that ran out is deleted *)
AskBanned(a) ==
    /\ HostOf[a] \in Expired(bans, now)
    /\ bans' = Drop(bans, {HostOf[a]})
    /\ SaveBans
    /\ UNCHANGED <<scores, offenses, scoreFile>>

(* setban add, with a duration or for ever *)
SetBan(a, duration) ==
    /\ bans' = ban(bans, a, duration, now)
    /\ SaveBans
    /\ UNCHANGED <<scores, offenses, scoreFile>>

Unban(a) ==
    /\ HostOf[a] \in DOMAIN bans
    /\ bans' = Drop(bans, {HostOf[a]})
    /\ SaveBans
    /\ UNCHANGED <<scores, offenses, scoreFile>>

ClearBanned ==
    /\ bans' = EmptyMap /\ offenses' = EmptyMap /\ banFile' = EmptyMap
    /\ UNCHANGED <<scores, scoreFile>>

(* get_stats, list_banned *)
ListBanned ==
    /\ Expired(bans, now) # {}
    /\ bans' = cleanup_expired(bans, now)
    /\ SaveBans
    /\ UNCHANGED <<scores, offenses, scoreFile>>

(* The process ends and starts again.  A file that was being rewritten is    *)
(* cut short, which _load and _load_scores take for an empty one.  Offences  *)
(* are not kept.                                                             *)
Restart(torn) ==
    /\ scoreFile' = IF "scores" \in torn THEN EmptyMap ELSE scoreFile
    /\ scores' = scoreFile'
    /\ bans' = cleanup_expired(IF "bans" \in torn THEN EmptyMap ELSE banFile, now)
    /\ banFile' = bans'
    /\ offenses' = EmptyMap

(* the operations on a set of addresses *)
ScoreNext(Peers) ==
    \/ \E a \in Peers :
        \/ RecordGood(a) \/ AskBanned(a) \/ Unban(a)
        \/ \E r \in Reason : RecordBad(a, r)
        \/ \E d \in {Day, Forever} : SetBan(a, d)
    \/ ClearBanned \/ ListBanned
    \/ \E torn \in SUBSET {"scores", "bans"} : Restart(torn)
-----------------------------------------------------------------------------

(* A ban whose time is not up leaves the list only when the operator lifts   *)
(* it or a crash tore the file: neither the clean-ups, nor a restart, nor a  *)
(* later success of the peer lets a banned host back in.                     *)
BansHold ==
    [][\A h \in Host :
        IsActive(bans, h, now') /\ h \notin DOMAIN bans'
        => \/ ClearBanned
           \/ \E a \in Address : Unban(a)
           \/ \E torn \in SUBSET {"scores", "bans"} :
                "bans" \in torn /\ Restart(torn)]_<<scoreVars, now>>
=============================================================================
