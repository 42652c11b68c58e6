------------------------------ MODULE NetBase ------------------------------
(* What the peer-to-peer components share: addresses, the host an address    *)
(* is normalised to, its netgroup, and a clock.  A "host:port" string is a   *)
(* model value; normalising it is the function HostOf, the IPv4 /16 (or      *)
(* IPv6 /64) it lies in the function GroupOf.                                *)
EXTENDS Integers, FiniteSets, Sequences, SequencesExt

CONSTANTS Address,     \* "host:port" strings
          HostOf,      \* BanManager._normalize_address: the port is dropped
          GroupOf,     \* ConnectionManager._netgroup_for_address
          MaxTime      \* bound on the clock of a behaviour

None == "none"
Host == {HostOf[a] : a \in Address}
Group == {GroupOf[a] : a \in Address}

VARIABLE now           \* time.time(), in the unit of the durations

(* time passes *)
Tick == now < MaxTime /\ now' = now + 1

MaxOf(S) == CHOOSE m \in S : \A n \in S : n <= m
MinOf(S) == CHOOSE m \in S : \A n \in S : m <= n

(* the time stamps of a sliding-window counter that are still in the window *)
InWindow(times, t, window) == SelectSeq(times, LAMBDA s : t - s < window)
=============================================================================
