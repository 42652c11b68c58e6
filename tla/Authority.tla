----------------------------- MODULE Authority -----------------------------
(* NodeAuthorityChain with its store, and the join protocol that feeds it:   *)
(* a candidate requests, the verifier challenges, the candidate signs the    *)
(* challenge with its identity key, the verifier counts that as a vote.      *)
(* Messages may be repeated, reordered and altered on the way: what was sent *)
(* stays on the wire.  A signature is the record of what was signed.         *)
EXTENDS NetBase

CONSTANTS NodeId,         \* node_id of node_identity.json
          Key,            \* identity public keys
          IdAt,           \* the node_id of the node at an address
          NormOf,         \* NodeAuthorityChain._normalize, on node ids and addresses
          Trusted,        \* authority_trusted_nodes, normalised
          Self,           \* the verifier's own address, normalised
          MinVotes,       \* min_verifier_votes
          ChallengeLife,  \* 60 s
          MaxSkew,        \* _attestation_max_skew_secs
          JoinWindow, JoinMax,   \* _join_req_window_secs, _join_req_max_per_host
          MaxLag,         \* blocks a verifier may be behind, 2
          MaxChallenges   \* bound on challenges issued

\* min_verifier_votes is at least 1: __init__ takes max(1, ...).
ASSUME VotesAssumption == MinVotes \in Nat \ {0}

Mode == {"open", "assisted", "strict"}
VARIABLES mode,        \* admission_mode
          chain,       \* verified, verifiers, ids, votes and identities
          authFile,    \* authority_chain.json
          challenges,  \* _admission_challenges: address -> pending challenge
          answered,    \* _seen_attest_challenges: <<node, challenge id>> -> expiry
          joinTimes,   \* _join_req_times_by_host
          lag,         \* blocks the best peer is ahead of this node
          keys,        \* address -> the key its node signs with
          wire,        \* join messages sent by either side
          nextId,      \* challenge ids used so far
          accepted     \* history: join results that said accepted
authVars == <<mode, chain, authFile, challenges, answered, joinTimes, lag,
              keys, wire, nextId, accepted>>

DefaultId(n) == <<"node", n>>      \* _default_verifier_id
KeyId(k) == <<"pubkey", k>>
Votes(c, n) == IF n \in DOMAIN c.votes THEN c.votes[n] ELSE {}
With(f, x, v) == [y \in DOMAIN f \cup {x} |-> IF y = x THEN v ELSE f[y]]
Without(f, x) == [y \in DOMAIN f \ {x} |-> f[y]]
Blank == [x \in {} |-> 0]

(* __init__: the trusted nodes are added to what the store holds *)
StartChain(f) ==
    [verified   |-> f.verified \cup Trusted,
     verifiers  |-> f.verifiers \cup Trusted,
     ids        |-> f.ids \cup {DefaultId(n) : n \in Trusted},
     votes      |-> [n \in DOMAIN f.votes \cup Trusted |->
                       Votes(f, n) \cup (IF n \in Trusted THEN {DefaultId(n)} ELSE {})],
     identities |-> f.identities]
EmptyChain == [verified |-> {}, verifiers |-> {}, ids |-> {}, votes |-> Blank,
               identities |-> Blank]

(* attest: the vote of a known verifier, or any vote that is forced *)
MayAttest(c, verifier, id, force) == force \/ verifier \in c.verifiers \/ id \in c.ids

(* Fault: a node is verified by its first vote *)
Fault_attest(c, target, verifier, id, force) ==
    LET votes == Votes(c, target) \cup {id}
    IN  IF ~MayAttest(c, verifier, id, force) THEN c
        ELSE [c EXCEPT !.votes = With(@, target, votes),
                       !.ids = @ \cup {id, DefaultId(target)},
                       !.verified = @ \cup {target}, !.verifiers = @ \cup {target}]

attest(c, target, verifier, id, force) ==
    LET votes == Votes(c, target) \cup {id}
        ok == force \/ Cardinality(votes) >= MinVotes
    IN  IF ~MayAttest(c, verifier, id, force) THEN c
        ELSE [c EXCEPT !.votes = With(@, target, votes),
                       !.ids = @ \cup {id} \cup (IF ok THEN {DefaultId(target)} ELSE {}),
                       !.verified = IF ok THEN @ \cup {target} ELSE @,
                       !.verifiers = IF ok THEN @ \cup {target} ELSE @]

(* what attest returns *)
Attested(c, target, verifier, id, force) ==
    /\ MayAttest(c, verifier, id, force)
    /\ force \/ Cardinality(Votes(c, target) \cup {id}) >= MinVotes

(* Fault: another key is taken for the same node *)
Fault_validate_rejoin_identity(c, node, key) == TRUE

validate_rejoin_identity(c, node, key) ==
    node \in DOMAIN c.identities => c.identities[node] = key

can_accept(c, n, connected) ==
    \/ mode = "open"
    \/ n \in c.verified
    \/ mode = "strict" /\ Cardinality(Votes(c, n)) >= MinVotes
    \/ mode = "assisted" /\ connected \cap c.verifiers # {}
-----------------------------------------------------------------------------
AuthInit ==
    /\ mode \in Mode
    /\ chain = StartChain(EmptyChain) /\ authFile = chain
    /\ challenges = Blank /\ answered = Blank
    /\ joinTimes = [h \in Host |-> <<>>]
    /\ lag = 0 /\ nextId = 0 /\ wire = {} /\ accepted = {}
    /\ keys \in {k \in [Address -> Key] : k = [a \in Address |-> CHOOSE x \in Key : TRUE]}

Persist == authFile' = chain'
JoinStill == UNCHANGED <<mode, lag, keys, nextId, wire, accepted, challenges,
                         answered, joinTimes>>

(* a node at an address asks to join: send_join_request *)
SendJoinRequest(a) ==
    /\ wire' = wire \cup {[type |-> "request", from |-> a]}
    /\ UNCHANGED <<mode, chain, authFile, challenges, answered, joinTimes, lag,
                   keys, nextId, accepted>>

(* handle_join_request, unless the host asked too often (_allow_join_request) *)
HandleJoinRequest(a) ==
    LET recent == InWindow(joinTimes[HostOf[a]], now, JoinWindow)
        allowed == Len(recent) < JoinMax
    IN  /\ [type |-> "request", from |-> a] \in wire
        /\ nextId < MaxChallenges
        /\ joinTimes' = [joinTimes EXCEPT ![HostOf[a]] =
                           IF allowed THEN Append(recent, now) ELSE recent]
        /\ IF allowed
           THEN /\ challenges' = With(challenges, a,
                       [id |-> nextId, expires |-> now + ChallengeLife])
                /\ nextId' = nextId + 1
                /\ wire' = wire \cup {[type |-> "challenge", to |-> a, id |-> nextId]}
           ELSE UNCHANGED <<challenges, nextId, wire>>
        /\ UNCHANGED <<mode, chain, authFile, answered, lag, keys, accepted>>

(* handle_join_challenge, at the candidate: it signs with the key it has now *)
HandleJoinChallenge(m) ==
    /\ m \in wire /\ m.type = "challenge"
    /\ LET a == m.to
           signed == [node |-> IdAt[a], key |-> keys[a], id |-> m.id]
       IN  wire' = wire \cup {[type |-> "attest", from |-> a, node |-> IdAt[a],
                               key |-> keys[a], id |-> m.id, time |-> now, sig |-> signed]}
    /\ UNCHANGED <<mode, chain, authFile, challenges, answered, joinTimes, lag,
                   keys, nextId, accepted>>

(* _cleanup_seen_attestations *)
StillSeen == [k \in {x \in DOMAIN answered : answered[x] > now} |-> answered[k]]

(* The checks of handle_join_attest that end it early, in the order of the   *)
(* code; the challenge is dropped only when it expired                       *)
Refusal(a, m) ==
    IF a \notin DOMAIN challenges THEN "no_pending_challenge"
    ELSE IF now > challenges[a].expires THEN "challenge_expired"
    ELSE IF now - m.time > MaxSkew THEN "attestation_time_skew"
    ELSE IF m.id # challenges[a].id THEN "challenge_mismatch"
    ELSE IF lag > MaxLag THEN "verifier_not_synced"
    ELSE IF ~validate_rejoin_identity(chain, m.node, m.key) THEN "rejoin_identity_mismatch"
    ELSE IF m.sig # [node |-> m.node, key |-> m.key, id |-> m.id]
         THEN "invalid_attestation_signature"
    ELSE IF <<m.node, m.id>> \in DOMAIN StillSeen THEN "attestation_replay"
    ELSE "none"

RefuseAttest(a, m) ==
    /\ Refusal(a, m) # "none"
    /\ answered' = StillSeen
    /\ challenges' = IF Refusal(a, m) = "challenge_expired"
                     THEN Without(challenges, a) ELSE challenges
    /\ UNCHANGED <<mode, chain, authFile, joinTimes, lag, keys, wire, nextId, accepted>>

(* the rest of handle_join_attest: the vote is cast under the candidate's    *)
(* own key, its identity kept when it is accepted, its answer remembered     *)
(* and the challenge closed                                                  *)
CountAttest(a, m) ==
    LET id == KeyId(m.key)
        target == NormOf[m.node]
        ok == Attested(chain, target, Self, id, FALSE)
        voted == attest(chain, target, Self, id, FALSE)
    IN  /\ Refusal(a, m) = "none"
        /\ chain' = IF ok THEN [voted EXCEPT !.identities = With(@, m.node, m.key)]
                    ELSE voted
        /\ Persist
        /\ answered' = With(StillSeen, <<m.node, m.id>>, challenges[a].expires)
        /\ challenges' = Without(challenges, a)
        /\ accepted' = IF ok THEN accepted \cup {[node |-> m.node, key |-> m.key, id |-> m.id,
                                                  again |-> \E r \in accepted : r.id = m.id]}
                       ELSE accepted
        /\ UNCHANGED <<mode, joinTimes, lag, keys, wire, nextId>>

(* an attestation arrives, as it was sent or with another node id in it *)
HandleJoinAttest(a, m, node) ==
    /\ m \in wire /\ m.type = "attest"
    /\ LET got == [m EXCEPT !.node = node]
       IN  RefuseAttest(a, got) \/ CountAttest(a, got)

(* accept_connection, once the handshake is over: an admitted inbound node   *)
(* is verified by a connected verifier, or locally when none will            *)
VerifyInbound(a, connected) ==
    LET n == NormOf[a]
        by == connected \cap chain.verifiers
        verified(v) == Attested(chain, n, v, DefaultId(v), FALSE)
    IN  /\ can_accept(chain, n, connected)
        /\ \/ \E v \in by :
                chain' = IF verified(v) \/ mode = "strict"
                         THEN attest(chain, n, v, DefaultId(v), FALSE)
                         ELSE attest(attest(chain, n, v, DefaultId(v), FALSE),
                                     n, n, DefaultId(n), TRUE)
           \/ /\ by = {}
              /\ chain' = IF mode = "strict" THEN chain
                          ELSE attest(chain, n, n, DefaultId(n), TRUE)
        /\ Persist /\ JoinStill

(* _connect_outbound_address: outside strict mode what we dialled is verified *)
VerifyOutbound(a) ==
    /\ mode # "strict"
    /\ chain' = attest(chain, NormOf[a], NormOf[a], DefaultId(NormOf[a]), TRUE)
    /\ Persist /\ JoinStill

(* blocks arrive here or at the best peer *)
HeightsMove ==
    /\ lag' \in {MaxLag, MaxLag + 1} \ {lag}
    /\ UNCHANGED <<mode, chain, authFile, challenges, answered, joinTimes, keys,
                   wire, nextId, accepted>>

(* _load_or_create_node_identity at a candidate whose key does not parse: a  *)
(* new key under the old node id                                             *)
Rekey(a, k) ==
    /\ k # keys[a] /\ keys' = [keys EXCEPT ![a] = k]
    /\ UNCHANGED <<mode, chain, authFile, challenges, answered, joinTimes, lag,
                   wire, nextId, accepted>>

(* the verifier restarts; a store cut short reads as an empty one *)
RestartVerifier(torn) ==
    /\ chain' = StartChain(IF torn THEN EmptyChain ELSE authFile)
    /\ Persist
    /\ challenges' = Blank /\ answered' = Blank
    /\ joinTimes' = [h \in Host |-> <<>>]
    /\ accepted' = IF torn THEN {} ELSE accepted
    /\ UNCHANGED <<mode, lag, keys, wire, nextId>>

(* the join protocol with the nodes at a set of addresses *)
AuthNext(Nodes) ==
    \/ \E a \in Nodes :
        \/ SendJoinRequest(a) \/ HandleJoinRequest(a) \/ VerifyOutbound(a)
        \/ \E k \in Key : Rekey(a, k)
        \/ \E S \in SUBSET Trusted : VerifyInbound(a, S)
        \/ \E m \in {x \in wire : x.type = "attest"}, n \in NodeId : HandleJoinAttest(a, m, n)
    \/ \E m \in {x \in wire : x.type = "challenge"} : HandleJoinChallenge(m)
    \/ HeightsMove
    \/ \E torn \in BOOLEAN : RestartVerifier(torn)

(* a verifier, and nodes at every address, while time passes *)
AuthSpec ==
    /\ AuthInit /\ now = 0
    /\ [][\/ AuthNext(Address) /\ UNCHANGED now
          \/ Tick /\ UNCHANGED authVars]_<<now, authVars>>
-----------------------------------------------------------------------------
(* A node id that was admitted keeps its key: no second key is accepted for  *)
(* it, across repeated, altered and re-keyed attestations and restarts       *)
(* (docs/RUNBOOK_ADMISSION.md, "Rejoin Continuity").                         *)
OneKeyPerNode ==
    /\ \A r, s \in accepted : r.node = s.node => r.key = s.key
    /\ \A r \in accepted : chain.identities[r.node] = r.key

(* An attestation that arrives twice is counted once.                        *)
AnsweredOnce == \A r \in accepted : ~r.again

(* In strict mode nobody is verified without the votes, whichever of the     *)
(* paths (join, inbound, restart) the node came by.                          *)
StrictNeedsVotes ==
    mode = "strict" =>
        \A n \in chain.verified \ Trusted : Cardinality(Votes(chain, n)) >= MinVotes

(* A place in the network is earned by votes, each of which answers a        *)
(* challenge of its own.                                                     *)
VotesEarned == AnsweredOnce /\ StrictNeedsVotes
=============================================================================
