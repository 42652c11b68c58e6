----------------------------- MODULE RelayProofs -----------------------------
(***************************************************************************)
(* The version handshake (Handshake) is an agreement and costs neither end *)
(* a message, for any networks, any number of messages sent once connected *)
(* and whichever ends write garbage.  Nodes that are connected (BlockRelay)*)
(* serve the headers of their own chain, whatever heights the header       *)
(* exchange has recorded, while there is one branch.                       *)
(***************************************************************************)
EXTENDS BlockRelay, Handshake, FoldProofs, SequenceTheorems

StageName == {"new", "version", "verack", "live", "closed"}

\* What the ends of this connection may write.
Message == {Version(e) : e \in End} \cup {Msg(c) : c \in {"verack", "sendcmpct", "app", "bad"}}

ShakeTyped ==
    /\ stage \in [End -> StageName]
    /\ stream \in [End -> Seq(Message)]
    /\ reason = [e \in End |-> reason[e]]
    /\ skipped = [e \in End |-> {}]

\* The stream s of a reader in stage r, written by an end in stage w.  What a
\* handshake does not wait for yet comes after what it waits for; the writer
\* writes one version, then its verack, then what a connected end sends.
Has(s, c) == \E i \in 1..Len(s) : s[i].cmd = c
Precedes(s, c, later) ==
    \A i \in 1..Len(s) : s[i].cmd \in later => \E j \in 1..(i - 1) : s[j].cmd = c

Flow(s, r, w) ==
    /\ r \in {"new", "version"} =>
          /\ Precedes(s, "version", {"verack", "sendcmpct", "app"})
          /\ \A i, j \in 1..Len(s) : s[i].cmd = "version" /\ s[j].cmd = "version" => i = j
          /\ w \in {"version", "verack", "live"} => Has(s, "version")
    /\ r \in {"new", "version", "verack"} =>
          /\ Precedes(s, "verack", {"sendcmpct", "app"})
          /\ w \in {"verack", "live"} => Has(s, "verack")
    /\ r = "verack" => ~Has(s, "version")
    /\ w = "new" => ~Has(s, "version") /\ r # "verack"

\* What the messages on their way to an end and its stage say of the versions.
Truthful(e, m) ==
    /\ m.cmd = "version" => m = Version(Other(e))
    /\ m.cmd = "verack" => Acceptable(Other(e), Version(e))

Agreement ==
    \A e \in End :
        /\ \A i \in 1..Len(stream[e]) : Truthful(e, stream[e][i])
        /\ stage[e] \in {"verack", "live"} => Acceptable(e, Version(Other(e)))
        /\ stage[e] = "live" => Acceptable(Other(e), Version(e))

Flows == \A e \in End : Flow(stream[e], stage[e], stage[Other(e)])

ShakeInv == ShakeTyped /\ Flows /\ Agreement

-----------------------------------------------------------------------------
(* Streams                                                                 *)

\* A message more at the end.
LEMMA Written ==
  ASSUME NEW M, NEW s \in Seq(M), NEW m \in M
  PROVE  /\ \A c : Has(Append(s, m), c) <=> Has(s, c) \/ m.cmd = c
         /\ \A c, later : Precedes(s, c, later) /\ (m.cmd \in later => Has(s, c))
                          => Precedes(Append(s, m), c, later)
<1> DEFINE t == Append(s, m)
<1>1. Len(s) \in Nat /\ Len(t) = Len(s) + 1 /\ t[Len(s) + 1] = m
      /\ \A i \in 1..Len(s) : t[i] = s[i]
  OBVIOUS
<1> HIDE DEF t
<1>2. ASSUME NEW c PROVE Has(t, c) <=> Has(s, c) \/ m.cmd = c
  BY <1>1 DEF Has
<1>3. ASSUME NEW c, NEW later, Precedes(s, c, later), m.cmd \in later => Has(s, c)
      PROVE  Precedes(t, c, later)
  <2> SUFFICES ASSUME NEW i \in 1..Len(t), t[i].cmd \in later
               PROVE  \E j \in 1..(i - 1) : t[j].cmd = c
    BY DEF Precedes
  <2>1. CASE i \in 1..Len(s)
    <3>1. PICK j \in 1..(i - 1) : s[j].cmd = c
      BY <1>1, <1>3, <2>1 DEF Precedes
    <3>2. j \in 1..Len(s)
      BY <1>1, <2>1
    <3> QED BY <1>1, <3>1, <3>2
  <2>2. CASE i = Len(s) + 1
    BY <1>1, <1>3, <2>2 DEF Has
  <2> QED BY <1>1, <2>1, <2>2
<1> QED BY <1>2, <1>3 DEF t

\* The first message is read.
LEMMA Consumed ==
  ASSUME NEW M, NEW s \in Seq(M), s # <<>>
  PROVE  /\ Head(s) = s[1] /\ Len(s) \in Nat \ {0}
         /\ \A c : Has(Tail(s), c) => Has(s, c)
         /\ \A c : Has(s, c) /\ s[1].cmd # c => Has(Tail(s), c)
         /\ \A c, later : Precedes(s, c, later) => s[1].cmd \notin later
         /\ \A c, later : Precedes(s, c, later) /\ s[1].cmd # c => Precedes(Tail(s), c, later)
         /\ \A c : s[1].cmd = c /\ (\A i, j \in 1..Len(s) : s[i].cmd = c /\ s[j].cmd = c => i = j)
                   => ~Has(Tail(s), c)
<1> DEFINE t == Tail(s)
<1>1. Len(s) \in Nat \ {0} /\ Len(t) = Len(s) - 1 /\ Head(s) = s[1]
      /\ \A i \in 1..Len(t) : t[i] = s[i + 1]
  BY HeadTailProperties, EmptySeq
<1> HIDE DEF t
<1>2. ASSUME NEW c, Has(t, c) PROVE Has(s, c)
  BY <1>1, <1>2 DEF Has
<1>3. ASSUME NEW c, Has(s, c), s[1].cmd # c PROVE Has(t, c)
  <2>1. PICK i \in 1..Len(s) : s[i].cmd = c
    BY <1>3 DEF Has
  <2>2. i - 1 \in 1..Len(t)
    BY <1>1, <1>3, <2>1
  <2>3. t[i - 1] = s[i]
    BY <1>1, <2>2
  <2> QED BY <2>1, <2>2, <2>3 DEF Has
<1>4. ASSUME NEW c, NEW later, Precedes(s, c, later) PROVE s[1].cmd \notin later
  BY <1>1, <1>4 DEF Precedes
<1>5. ASSUME NEW c, NEW later, Precedes(s, c, later), s[1].cmd # c PROVE Precedes(t, c, later)
  <2> SUFFICES ASSUME NEW i \in 1..Len(t), t[i].cmd \in later
               PROVE  \E j \in 1..(i - 1) : t[j].cmd = c
    BY DEF Precedes
  <2>1. i + 1 \in 1..Len(s) /\ s[i + 1].cmd \in later
    BY <1>1
  <2>2. PICK j \in 1..((i + 1) - 1) : s[j].cmd = c
    BY <1>5, <2>1 DEF Precedes
  <2>3. j - 1 \in 1..(i - 1) /\ j - 1 \in 1..Len(t)
    BY <1>1, <1>5, <2>2
  <2>4. t[j - 1] = s[j]
    BY <1>1, <2>3
  <2> QED BY <2>2, <2>3, <2>4
<1>6. ASSUME NEW c, s[1].cmd = c, Has(t, c),
             \A i, j \in 1..Len(s) : s[i].cmd = c /\ s[j].cmd = c => i = j
      PROVE  FALSE
  <2>1. PICK i \in 1..Len(t) : t[i].cmd = c
    BY <1>6 DEF Has
  <2>2. i + 1 \in 1..Len(s) /\ s[i + 1].cmd = c /\ 1 \in 1..Len(s) /\ i + 1 # 1
    BY <1>1, <2>1
  <2> QED BY <1>6, <2>2
<1> QED BY <1>1, <1>2, <1>3, <1>4, <1>5, <1>6 DEF t

\* What a writer may append, and what stage that takes it to.
Writes(w, cmd, w2) ==
    \/ cmd = "bad" /\ w2 = w
    \/ w = "new" /\ cmd = "version" /\ w2 = "version"
    \/ w = "version" /\ cmd = "verack" /\ w2 = "verack"
    \/ w = "verack" /\ cmd = "sendcmpct" /\ w2 = "live"
    \/ w = "live" /\ cmd = "app" /\ w2 = "live"

\* Writing keeps the order.
LEMMA FlowWritten ==
  ASSUME NEW M, NEW s \in Seq(M), NEW m \in M, NEW r, NEW w \in StageName, NEW w2,
         Flow(s, r, w), Writes(w, m.cmd, w2)
  PROVE  Flow(Append(s, m), r, w2)
<1> DEFINE t == Append(s, m)
<1>1. \A c : Has(t, c) <=> Has(s, c) \/ m.cmd = c
  BY Written
<1>2. \A c, later : Precedes(s, c, later) /\ (m.cmd \in later => Has(s, c))
                    => Precedes(t, c, later)
  BY Written
<1>3. Len(s) \in Nat /\ Len(t) = Len(s) + 1 /\ t[Len(s) + 1] = m
      /\ \A i \in 1..Len(s) : t[i] = s[i]
  OBVIOUS
<1> HIDE DEF t
<1>5. ASSUME r \in {"new", "version"}
      PROVE  /\ Precedes(t, "version", {"verack", "sendcmpct", "app"})
             /\ w2 \in {"version", "verack", "live"} => Has(t, "version")
             /\ \A i, j \in 1..Len(t) : t[i].cmd = "version" /\ t[j].cmd = "version" => i = j
  <2>1. Precedes(s, "version", {"verack", "sendcmpct", "app"})
        /\ (w \in {"version", "verack", "live"} => Has(s, "version"))
        /\ \A i, j \in 1..Len(s) : s[i].cmd = "version" /\ s[j].cmd = "version" => i = j
    BY <1>5 DEF Flow
  <2>2. m.cmd \in {"verack", "sendcmpct", "app"} => Has(s, "version")
    BY <2>1 DEF Writes
  <2>3. w2 \in {"version", "verack", "live"} => Has(t, "version")
    BY <1>1, <2>1 DEF Writes
  <2>4. m.cmd = "version" => ~Has(s, "version")
    BY DEF Writes, Flow
  <2>5. \A i, j \in 1..Len(t) : t[i].cmd = "version" /\ t[j].cmd = "version" => i = j
    BY <1>3, <2>1, <2>4 DEF Has
  <2> QED BY <1>2, <2>1, <2>2, <2>3, <2>5
<1>6. ASSUME r \in {"new", "version", "verack"}
      PROVE  /\ Precedes(t, "verack", {"sendcmpct", "app"})
             /\ w2 \in {"verack", "live"} => Has(t, "verack")
  <2>1. Precedes(s, "verack", {"sendcmpct", "app"})
        /\ (w \in {"verack", "live"} => Has(s, "verack"))
    BY <1>6 DEF Flow
  <2>2. m.cmd \in {"sendcmpct", "app"} => Has(s, "verack")
    BY <2>1 DEF Writes
  <2>3. w2 \in {"verack", "live"} => Has(t, "verack")
    BY <1>1, <2>1 DEF Writes
  <2> QED BY <1>2, <2>1, <2>2, <2>3
<1>7. r = "verack" => ~Has(t, "version")
  BY <1>1 DEF Writes, Flow
<1>8. w2 = "new" => ~Has(t, "version") /\ r # "verack"
  BY <1>1 DEF Writes, Flow
<1> QED BY <1>5, <1>6, <1>7, <1>8 DEF Flow, t

\* What a reader may find first, and what stage that takes it to.
Reads(r, cmd, r2) ==
    \/ r2 \in {"live", "closed"}
    \/ r = "version" /\ cmd = "version" /\ r2 = "verack"

\* Reading keeps the order.
LEMMA FlowConsumed ==
  ASSUME NEW M, NEW s \in Seq(M), s # <<>>, NEW r, NEW w, NEW r2,
         Flow(s, r, w), Reads(r, Head(s).cmd, r2)
  PROVE  Flow(Tail(s), r2, w)
<1> DEFINE t == Tail(s)
<1>1. /\ Head(s) = s[1]
      /\ \A c : Has(t, c) => Has(s, c)
      /\ \A c : Has(s, c) /\ s[1].cmd # c => Has(t, c)
      /\ \A c, later : Precedes(s, c, later) /\ s[1].cmd # c => Precedes(t, c, later)
      /\ \A c : s[1].cmd = c /\ (\A i, j \in 1..Len(s) : s[i].cmd = c /\ s[j].cmd = c => i = j)
                   => ~Has(t, c)
  BY Consumed
<1> HIDE DEF t
<1>2. CASE r2 \in {"live", "closed"}
  BY <1>1, <1>2 DEF Flow, t
<1>3. CASE r = "version" /\ s[1].cmd = "version" /\ r2 = "verack"
  <2>1. Precedes(s, "verack", {"sendcmpct", "app"})
        /\ (w \in {"verack", "live"} => Has(s, "verack"))
        /\ (\A i, j \in 1..Len(s) : s[i].cmd = "version" /\ s[j].cmd = "version" => i = j)
    BY <1>3 DEF Flow
  <2>2. Has(s, "version")
    BY <1>1, <1>3, Consumed DEF Has
  <2>3. w # "new"
    BY <2>2 DEF Flow
  <2>4. ~Has(t, "version")
    BY <1>1, <1>3, <2>1
  <2>5. Precedes(t, "verack", {"sendcmpct", "app"})
    BY <1>1, <1>3, <2>1
  <2>6. w \in {"verack", "live"} => Has(t, "verack")
    BY <1>1, <1>3, <2>1
  <2> QED BY <1>3, <2>3, <2>4, <2>5, <2>6 DEF Flow, t
<1> QED BY <1>1, <1>2, <1>3 DEF Reads

\* A handshake finds what it waits for.
LEMMA NothingToSkip ==
  ASSUME NEW M, NEW s \in Seq(M), s # <<>>, NEW r \in {"version", "verack"}, NEW w,
         Flow(s, r, w), Head(s).cmd \in {"version", "verack", "sendcmpct", "app", "bad"}
  PROVE  Head(s).cmd \in {r, "bad"}
<1>1. /\ Head(s) = s[1] /\ 1 \in 1..Len(s)
      /\ \A c, later : Precedes(s, c, later) => s[1].cmd \notin later
  BY Consumed
<1>2. CASE r = "version"
  <2>1. Precedes(s, "version", {"verack", "sendcmpct", "app"})
    BY <1>2 DEF Flow
  <2> QED BY <1>1, <1>2, <2>1
<1>3. CASE r = "verack"
  <2>1. Precedes(s, "verack", {"sendcmpct", "app"}) /\ ~Has(s, "version")
    BY <1>3 DEF Flow
  <2> QED BY <1>1, <1>3, <2>1 DEF Has
<1> QED BY <1>2, <1>3

-----------------------------------------------------------------------------
(* The ends                                                                *)

LEMMA Ends ==
  \A e \in End : Other(e) \in End /\ Other(e) # e /\ Other(Other(e)) = e
                 /\ \A d \in End : d = e \/ d = Other(e)
BY DEF End, Other

LEMMA Commands ==
  /\ \A e \in End : Version(e) \in Message /\ Version(e).cmd = "version"
  /\ \A c \in {"verack", "sendcmpct", "app", "bad"} : Msg(c) \in Message /\ Msg(c).cmd = c
  /\ \A m \in Message : m.cmd \in {"version", "verack", "sendcmpct", "app", "bad"}
BY DEF Message, Version, Msg

\* The versions of a connection stay.
SameVersions == \A e \in End : Version(e)' = Version(e)
                               /\ \A m : Acceptable(e, m)' <=> Acceptable(e, m)

LEMMA VersionsStay ==
  ASSUME UNCHANGED ends
  PROVE  SameVersions /\ Message' = Message
<1>1. SameVersions
  BY DEF SameVersions, Version, Acceptable
<1> QED BY <1>1 DEF Message, SameVersions

\* A step of e: it goes to stage k, its own stream becomes inn and the other's
\* out.
LEMMA EndMoves ==
  ASSUME ShakeInv, NEW e \in End, NEW k \in StageName,
         NEW inn \in Seq(Message), NEW out \in Seq(Message),
         UNCHANGED <<ends, skipped>>, reason' = [d \in End |-> reason'[d]],
         stage' = [stage EXCEPT ![e] = k],
         stream' = [stream EXCEPT ![e] = inn, ![Other(e)] = out],
         Flow(inn, k, stage[Other(e)]), Flow(out, stage[Other(e)], k),
         \A i \in 1..Len(inn) : Truthful(e, inn[i]),
         \A i \in 1..Len(out) : Truthful(Other(e), out[i]),
         k \in {"verack", "live"} => Acceptable(e, Version(Other(e))),
         k = "live" => Acceptable(Other(e), Version(e))
  PROVE  ShakeInv'
<1> DEFINE o == Other(e)
<1>1. o \in End /\ o # e /\ Other(o) = e /\ \A d \in End : d = e \/ d = o
  BY Ends
<1>2. ShakeTyped /\ Flows /\ Agreement
  BY DEF ShakeInv
<1>3. SameVersions /\ Message' = Message
  BY VersionsStay
<1> HIDE DEF o
<1>4. stage'[e] = k /\ stage'[o] = stage[o] /\ stream'[e] = inn /\ stream'[o] = out
  BY <1>1, <1>2 DEF ShakeTyped, o
<1>5. ShakeTyped'
  <2>1. stage' \in [End -> StageName]
    BY <1>2 DEF ShakeTyped
  <2>2. stream' \in [End -> Seq(Message')]
    BY <1>1, <1>2, <1>3 DEF ShakeTyped, o
  <2> QED BY <2>1, <2>2, <1>2 DEF ShakeTyped
<1>6. Flows'
  <2>1. Flow(stream'[e], stage'[e], stage'[o]) /\ Flow(stream'[o], stage'[o], stage'[e])
    BY <1>4 DEF o
  <2>2. ASSUME NEW d \in End PROVE Flow(stream'[d], stage'[d], stage'[Other(d)])
    BY <2>1, <1>1 DEF o
  <2> QED BY <2>2 DEF Flows, Flow, Has, Precedes
<1>7. Agreement'
  <2>1. \A i \in 1..Len(stream'[e]) : Truthful(e, stream[e][i])'
    BY <1>1, <1>3, <1>4 DEF Truthful, SameVersions, o
  <2>2. \A i \in 1..Len(stream'[o]) : Truthful(o, stream[o][i])'
    BY <1>1, <1>3, <1>4 DEF Truthful, SameVersions, o
  <2>3. /\ stage'[e] \in {"verack", "live"} => Acceptable(e, Version(o))'
        /\ stage'[e] = "live" => Acceptable(o, Version(e))'
    BY <1>1, <1>3, <1>4 DEF o, SameVersions
  <2>4. /\ stage'[o] \in {"verack", "live"} => Acceptable(o, Version(e))'
        /\ stage'[o] = "live" => Acceptable(e, Version(o))'
    BY <1>1, <1>2, <1>3, <1>4 DEF Agreement, SameVersions
  <2>5. ASSUME NEW d \in End
        PROVE  /\ \A i \in 1..Len(stream'[d]) : Truthful(d, stream[d][i])'
               /\ stage'[d] \in {"verack", "live"} => Acceptable(d, Version(Other(d)))'
               /\ stage'[d] = "live" => Acceptable(Other(d), Version(d))'
    BY <2>1, <2>2, <2>3, <2>4, <1>1 DEF o
  <2> QED BY <2>5 DEF Agreement
<1> QED BY <1>5, <1>6, <1>7 DEF ShakeInv

\* What is known of the two ends before a step of e.
LEMMA Before ==
  ASSUME ShakeInv, NEW e \in End
  PROVE  /\ Other(e) \in End /\ Other(e) # e
         /\ stage \in [End -> StageName] /\ stream \in [End -> Seq(Message)]
         /\ stage[e] \in StageName /\ stage[Other(e)] \in StageName
         /\ stream[e] \in Seq(Message) /\ stream[Other(e)] \in Seq(Message)
         /\ Flow(stream[e], stage[e], stage[Other(e)])
         /\ Flow(stream[Other(e)], stage[Other(e)], stage[e])
         /\ \A i \in 1..Len(stream[e]) : Truthful(e, stream[e][i])
         /\ \A i \in 1..Len(stream[Other(e)]) : Truthful(Other(e), stream[Other(e)][i])
         /\ stage[e] \in {"verack", "live"} => Acceptable(e, Version(Other(e)))
         /\ stage[e] = "live" => Acceptable(Other(e), Version(e))
<1>1. Other(e) \in End /\ Other(e) # e /\ Other(Other(e)) = e
  BY Ends
<1> QED BY <1>1 DEF ShakeInv, ShakeTyped, Flows, Agreement

\* Changing one end of the streams, or none.
LEMMA StreamForms ==
  ASSUME stream \in [End -> Seq(Message)], NEW e \in End
  PROVE  /\ stream = [stream EXCEPT ![e] = stream[e], ![Other(e)] = stream[Other(e)]]
         /\ Consume(e) = [stream EXCEPT ![e] = Tail(stream[e]), ![Other(e)] = stream[Other(e)]]
         /\ \A m \in Message :
              /\ [Consume(e) EXCEPT ![Other(e)] = Append(@, m)] =
                   [stream EXCEPT ![e] = Tail(stream[e]), ![Other(e)] = Append(stream[Other(e)], m)]
              /\ [stream EXCEPT ![Other(e)] = @ \o <<m>>] =
                   [stream EXCEPT ![e] = stream[e], ![Other(e)] = Append(stream[Other(e)], m)]
<1> DEFINE o == Other(e)
<1>1. o \in End /\ o # e
  BY Ends
<1>2. ASSUME NEW m \in Message PROVE stream[o] \o <<m>> = Append(stream[o], m)
  BY <1>1, AppendIsConcat
<1> HIDE DEF o
<1>3. stream = [stream EXCEPT ![e] = stream[e], ![o] = stream[o]]
  BY <1>1
<1>4. [stream EXCEPT ![e] = Tail(stream[e])] =
        [stream EXCEPT ![e] = Tail(stream[e]), ![o] = stream[o]]
  BY <1>1
<1>5. ASSUME NEW m \in Message
      PROVE  [[stream EXCEPT ![e] = Tail(stream[e])] EXCEPT ![o] = Append(@, m)] =
               [stream EXCEPT ![e] = Tail(stream[e]), ![o] = Append(stream[o], m)]
  BY <1>1
<1>6. ASSUME NEW m \in Message
      PROVE  [stream EXCEPT ![o] = @ \o <<m>>] =
               [stream EXCEPT ![e] = stream[e], ![o] = Append(stream[o], m)]
  BY <1>1, <1>2
<1> QED BY <1>3, <1>4, <1>5, <1>6 DEF Consume, o

\* The messages left are messages that were there; one more is what it is.
LEMMA TruthKept ==
  ASSUME NEW e, NEW s \in Seq(Message), \A i \in 1..Len(s) : Truthful(e, s[i])
  PROVE  /\ s # <<>> => Tail(s) \in Seq(Message) /\ \A i \in 1..Len(Tail(s)) : Truthful(e, Tail(s)[i])
         /\ \A m \in Message : Truthful(e, m) =>
              /\ Append(s, m) \in Seq(Message)
              /\ \A i \in 1..Len(Append(s, m)) : Truthful(e, Append(s, m)[i])
<1>1. ASSUME s # <<>>
      PROVE  Tail(s) \in Seq(Message) /\ \A i \in 1..Len(Tail(s)) : Truthful(e, Tail(s)[i])
  <2> DEFINE t == Tail(s)
  <2>1. t \in Seq(Message) /\ Len(t) = Len(s) - 1 /\ Len(s) \in Nat
        /\ \A i \in 1..Len(t) : t[i] = s[i + 1]
    BY <1>1, HeadTailProperties
  <2> HIDE DEF t
  <2>2. ASSUME NEW i \in 1..Len(t) PROVE Truthful(e, t[i])
    <3>1. i + 1 \in 1..Len(s) /\ t[i] = s[i + 1]
      BY <2>1
    <3> QED BY <3>1
  <2> QED BY <2>1, <2>2 DEF t
<1>2. ASSUME NEW m \in Message, Truthful(e, m)
      PROVE  /\ Append(s, m) \in Seq(Message)
             /\ \A i \in 1..Len(Append(s, m)) : Truthful(e, Append(s, m)[i])
  <2> DEFINE t == Append(s, m)
  <2>1. t \in Seq(Message) /\ Len(t) = Len(s) + 1 /\ Len(s) \in Nat
        /\ t[Len(s) + 1] = m /\ \A i \in 1..Len(s) : t[i] = s[i]
    OBVIOUS
  <2> HIDE DEF t
  <2>2. ASSUME NEW i \in 1..Len(t) PROVE Truthful(e, t[i])
    <3>1. i \in 1..Len(s) \/ i = Len(s) + 1
      BY <2>1
    <3>2. CASE i \in 1..Len(s)
      <4>1. t[i] = s[i]
        BY <2>1, <3>2
      <4> QED BY <3>2, <4>1
    <3>3. CASE i = Len(s) + 1
      BY <2>1, <3>3, <1>2
    <3> QED BY <3>1, <3>2, <3>3
  <2> QED BY <2>1, <2>2 DEF t
<1> QED BY <1>1, <1>2

-----------------------------------------------------------------------------
(* The steps of an end                                                     *)

\* Beginning to wait, and closing, ask less of a stream.
LEMMA FlowEases ==
  ASSUME NEW s, NEW r, NEW w, Flow(s, r, w)
  PROVE  /\ Flow(s, "closed", w) /\ Flow(s, r, "closed")
         /\ r = "new" => Flow(s, "version", w)
BY DEF Flow

\* e closes, with or without having read a message.
LEMMA EndCloses ==
  ASSUME ShakeInv, NEW e \in End, NEW why, Close(e, why), UNCHANGED <<ends, skipped>>,
         UNCHANGED stream \/ (stream[e] # <<>> /\ stream' = Consume(e))
  PROVE  ShakeInv'
<1> DEFINE o == Other(e)
<1>1. stage' = [stage EXCEPT ![e] = "closed"] /\ reason' = [d \in End |-> reason'[d]]
  BY DEF Close, ShakeInv, ShakeTyped
<1>2. Flow(stream[e], "closed", stage[o]) /\ Flow(stream[o], stage[o], "closed")
      /\ "closed" \in StageName
  BY Before, FlowEases DEF StageName
<1>3. CASE UNCHANGED stream
  <2>1. stream' = [stream EXCEPT ![e] = stream[e], ![o] = stream[o]]
    BY <1>3, Before, StreamForms
  <2> QED BY <1>1, <1>2, <2>1, Before, EndMoves
<1>4. CASE stream[e] # <<>> /\ stream' = Consume(e)
  <2>1. stream' = [stream EXCEPT ![e] = Tail(stream[e]), ![o] = stream[o]]
    BY <1>4, Before, StreamForms
  <2>2. Flow(Tail(stream[e]), "closed", stage[o])
    BY <1>4, Before, FlowConsumed DEF Reads
  <2>3. Tail(stream[e]) \in Seq(Message)
        /\ \A i \in 1..Len(Tail(stream[e])) : Truthful(e, Tail(stream[e])[i])
    BY <1>4, Before, TruthKept
  <2> QED BY <1>1, <1>2, <2>1, <2>2, <2>3, Before, EndMoves
<1> QED BY <1>3, <1>4

\* e writes a message and goes to stage k.
LEMMA EndWrites ==
  ASSUME ShakeInv, NEW e \in End, NEW k \in StageName, NEW m \in Message,
         UNCHANGED <<ends, skipped, reason>>, stage' = [stage EXCEPT ![e] = k],
         SendTo(Other(e), <<m>>), Writes(stage[e], m.cmd, k), Truthful(Other(e), m),
         k = stage[e] \/ (stage[e] = "new" /\ k = "version")
  PROVE  ShakeInv'
<1> DEFINE o == Other(e)
<1>1. stream' = [stream EXCEPT ![e] = stream[e], ![o] = Append(stream[o], m)]
  BY Before, StreamForms DEF SendTo
<1>2. Flow(Append(stream[o], m), stage[o], k)
  BY Before, FlowWritten
<1>3. Flow(stream[e], k, stage[o])
  BY Before, FlowEases
<1>4. Append(stream[o], m) \in Seq(Message)
      /\ \A i \in 1..Len(Append(stream[o], m)) : Truthful(o, Append(stream[o], m)[i])
  BY Before, TruthKept
<1>5. reason' = [d \in End |-> reason'[d]]
  BY DEF ShakeInv, ShakeTyped
<1>6. (k \in {"verack", "live"} => Acceptable(e, Version(o)))
      /\ (k = "live" => Acceptable(o, Version(e)))
  BY Before
<1> QED BY <1>1, <1>2, <1>3, <1>4, <1>5, <1>6, Before, EndMoves

\* e reads what it waits for, answers with m and goes to stage k.
LEMMA EndAnswers ==
  ASSUME ShakeInv, NEW e \in End, NEW k \in {"verack", "live"}, NEW m \in Message,
         UNCHANGED <<ends, skipped, reason>>, stage' = [stage EXCEPT ![e] = k],
         stream[e] # <<>>,
         stream' = [Consume(e) EXCEPT ![Other(e)] = Append(@, m)],
         Reads(stage[e], Head(stream[e]).cmd, k), Writes(stage[e], m.cmd, k),
         Truthful(Other(e), m),
         Acceptable(e, Version(Other(e))), k = "live" => Acceptable(Other(e), Version(e))
  PROVE  ShakeInv'
<1> DEFINE o == Other(e)
<1>1. stream' = [stream EXCEPT ![e] = Tail(stream[e]), ![o] = Append(stream[o], m)]
  BY Before, StreamForms
<1>2. Flow(Append(stream[o], m), stage[o], k)
  BY Before, FlowWritten
<1>3. Flow(Tail(stream[e]), k, stage[o])
  BY Before, FlowConsumed
<1>4. Append(stream[o], m) \in Seq(Message)
      /\ \A i \in 1..Len(Append(stream[o], m)) : Truthful(o, Append(stream[o], m)[i])
  BY Before, TruthKept
<1>5. Tail(stream[e]) \in Seq(Message)
      /\ \A i \in 1..Len(Tail(stream[e])) : Truthful(e, Tail(stream[e])[i])
  BY Before, TruthKept
<1>6. reason' = [d \in End |-> reason'[d]] /\ k \in StageName
  BY DEF ShakeInv, ShakeTyped, StageName
<1> QED BY <1>1, <1>2, <1>3, <1>4, <1>5, <1>6, Before, EndMoves

\* The first message is one of the connection's, and says the truth.
LEMMA FirstMessage ==
  ASSUME ShakeInv, NEW e \in End, stream[e] # <<>>
  PROVE  Head(stream[e]) \in Message /\ Truthful(e, Head(stream[e]))
<1>1. Head(stream[e]) = stream[e][1] /\ 1 \in 1..Len(stream[e])
  BY Before, Consumed
<1>2. stream[e][1] \in Message
  BY <1>1, Before, ElementOfSeq
<1> QED BY <1>1, <1>2, Before

LEMMA SendVersionInv ==
  ASSUME ShakeInv, NEW e \in End, SendVersion(e)
  PROVE  ShakeInv'
<1>1. Version(e) \in Message /\ Version(e).cmd = "version" /\ Truthful(Other(e), Version(e))
  BY Commands, Ends DEF Truthful
<1>2. "version" \in StageName /\ Writes(stage[e], Version(e).cmd, "version")
  BY <1>1 DEF SendVersion, Writes, StageName
<1> QED BY <1>1, <1>2, EndWrites DEF SendVersion

\* A handshake never reads what it has to throw away.
LEMMA NoSkip ==
  ASSUME ShakeInv, NEW e \in End
  PROVE  ~SkipMessage(e)
<1> SUFFICES ASSUME SkipMessage(e) PROVE FALSE
  OBVIOUS
<1>1. stream[e] # <<>> /\ stage[e] \in {"version", "verack"}
      /\ Head(stream[e]).cmd \notin {stage[e], "bad"}
  BY DEF SkipMessage, Next1
<1>2. Head(stream[e]).cmd \in {"version", "verack", "sendcmpct", "app", "bad"}
  BY <1>1, FirstMessage, Commands
<1> QED BY <1>1, <1>2, Before, NothingToSkip

LEMMA ReadVersionInv ==
  ASSUME ShakeInv, NEW e \in End, ReadVersion(e)
  PROVE  ShakeInv'
<1>1. stage[e] = "version" /\ stream[e] # <<>> /\ Head(stream[e]).cmd = "version"
      /\ UNCHANGED <<ends, skipped>>
  BY DEF ReadVersion, Next1
<1>2. Head(stream[e]) = Version(Other(e))
  BY <1>1, FirstMessage DEF Truthful
<1>3. CASE ~Acceptable(e, Head(stream[e]))
  <2>1. Close(e, "invalid_version") /\ stream' = Consume(e)
    BY <1>3 DEF ReadVersion, Next1
  <2> QED BY <1>1, <2>1, EndCloses
<1>4. CASE Acceptable(e, Head(stream[e]))
  <2>1. /\ stage' = [stage EXCEPT ![e] = "verack"] /\ UNCHANGED reason
        /\ stream' = [Consume(e) EXCEPT ![Other(e)] = Append(@, Msg("verack"))]
    BY <1>4 DEF ReadVersion, Next1
  <2>2. Msg("verack") \in Message /\ Msg("verack").cmd = "verack"
    BY Commands
  <2>3. Truthful(Other(e), Msg("verack")) /\ Acceptable(e, Version(Other(e)))
    BY <1>2, <1>4, <2>2, Ends DEF Truthful
  <2>4. Reads(stage[e], Head(stream[e]).cmd, "verack")
        /\ Writes(stage[e], Msg("verack").cmd, "verack")
    BY <1>1, <2>2 DEF Reads, Writes
  <2> QED BY <1>1, <2>1, <2>2, <2>3, <2>4, EndAnswers
<1> QED BY <1>3, <1>4

LEMMA ReadVerackInv ==
  ASSUME ShakeInv, NEW e \in End, ReadVerack(e)
  PROVE  ShakeInv'
<1>1. /\ stage[e] = "verack" /\ stream[e] # <<>> /\ Head(stream[e]).cmd = "verack"
      /\ stage' = [stage EXCEPT ![e] = "live"] /\ UNCHANGED <<ends, reason, skipped>>
      /\ stream' = [Consume(e) EXCEPT ![Other(e)] = Append(@, Msg("sendcmpct"))]
  BY DEF ReadVerack, Next1
<1>2. Acceptable(Other(e), Version(e)) /\ Acceptable(e, Version(Other(e)))
  BY <1>1, FirstMessage, Before DEF Truthful
<1>3. Msg("sendcmpct") \in Message /\ Msg("sendcmpct").cmd = "sendcmpct"
  BY Commands
<1>4. Truthful(Other(e), Msg("sendcmpct"))
      /\ Reads(stage[e], Head(stream[e]).cmd, "live")
      /\ Writes(stage[e], Msg("sendcmpct").cmd, "live")
  BY <1>1, <1>3 DEF Truthful, Reads, Writes
<1> QED BY <1>1, <1>2, <1>3, <1>4, EndAnswers

LEMMA HandleMessageInv ==
  ASSUME ShakeInv, NEW e \in End, HandleMessage(e)
  PROVE  ShakeInv'
<1> DEFINE o == Other(e)
<1>1. stage[e] = "live" /\ stream[e] # <<>> /\ stream' = Consume(e)
      /\ UNCHANGED <<ends, stage, reason, skipped>>
  BY DEF HandleMessage
<1>2. stage' = [stage EXCEPT ![e] = stage[e]]
  BY <1>1, Before
<1>3. stream' = [stream EXCEPT ![e] = Tail(stream[e]), ![o] = stream[o]]
  BY <1>1, Before, StreamForms
<1>4. Flow(Tail(stream[e]), stage[e], stage[o])
  BY <1>1, Before, FlowConsumed DEF Reads
<1>5. Tail(stream[e]) \in Seq(Message)
      /\ \A i \in 1..Len(Tail(stream[e])) : Truthful(e, Tail(stream[e])[i])
  BY <1>1, Before, TruthKept
<1>6. reason' = [d \in End |-> reason'[d]]
  BY <1>1 DEF ShakeInv, ShakeTyped
<1> QED BY <1>1, <1>2, <1>3, <1>4, <1>5, <1>6, Before, EndMoves

\* A connected end sends, or the other program writes what cannot be read.
LEMMA SendsInv ==
  ASSUME ShakeInv, NEW e \in End, SendApp(e) \/ WriteGarbage(e)
  PROVE  ShakeInv'
<1>1. stage' = [stage EXCEPT ![e] = stage[e]] /\ UNCHANGED <<ends, reason, skipped>>
  BY Before DEF SendApp, WriteGarbage
<1>2. Msg("app") \in Message /\ Msg("app").cmd = "app"
      /\ Msg("bad") \in Message /\ Msg("bad").cmd = "bad"
  BY Commands
<1>3. Truthful(Other(e), Msg("app")) /\ Truthful(Other(e), Msg("bad"))
  BY <1>2 DEF Truthful
<1>4. CASE SendApp(e)
  <2>1. SendTo(Other(e), <<Msg("app")>>) /\ Writes(stage[e], Msg("app").cmd, stage[e])
    BY <1>2, <1>4 DEF SendApp, Writes
  <2> QED BY <1>1, <1>2, <1>3, <2>1, Before, EndWrites
<1>5. CASE WriteGarbage(e)
  <2>1. SendTo(Other(e), <<Msg("bad")>>) /\ Writes(stage[e], Msg("bad").cmd, stage[e])
    BY <1>2, <1>5 DEF WriteGarbage, Writes
  <2> QED BY <1>1, <1>2, <1>3, <2>1, Before, EndWrites
<1> QED BY <1>4, <1>5

\* The ways a connection ends.
LEMMA EndsInv ==
  ASSUME ShakeInv, NEW e \in End, ReadBad(e) \/ NothingArrives(e) \/ Disconnect(e)
  PROVE  ShakeInv'
<1>1. \E why : Close(e, why)
  BY Zenon DEF ReadBad, NothingArrives, Disconnect
<1>2. UNCHANGED <<ends, skipped>> /\ (UNCHANGED stream \/ (stream[e] # <<>> /\ stream' = Consume(e)))
  BY DEF ReadBad, NothingArrives, Disconnect
<1> QED BY <1>1, <1>2, EndCloses

\* A new connection.
LEMMA InitShake ==
  ASSUME NEW configs, ShakeInit(configs, "new")
  PROVE  ShakeInv
<1>1. stage = [e \in End |-> "new"] /\ stream = [e \in End |-> <<>>]
      /\ reason = [e \in End |-> ""] /\ skipped = [e \in End |-> {}]
  BY DEF ShakeInit
<1>2. ShakeTyped
  <2>1. <<>> \in Seq(Message)
    BY EmptySeq
  <2>2. stream \in [End -> Seq(Message)]
    BY <1>1, <2>1
  <2>3. stage \in [End -> StageName]
    BY <1>1 DEF StageName
  <2> QED BY <1>1, <2>2, <2>3 DEF ShakeTyped
<1>3. \A e \in End : stage[e] = "new" /\ stage[Other(e)] = "new" /\ stream[e] = <<>>
                     /\ Len(stream[e]) = 0
  BY <1>1, Ends
<1>4. Flows
  BY <1>3 DEF Flows, Flow, Has, Precedes
<1>5. Agreement
  BY <1>3 DEF Agreement
<1> QED BY <1>2, <1>4, <1>5 DEF ShakeInv

\* Every step keeps the invariant.
LEMMA ShakeStep ==
  ASSUME ShakeInv, [ShakeNext]_shakeVars
  PROVE  ShakeInv'
<1>1. CASE UNCHANGED shakeVars
  BY <1>1 DEF shakeVars, ShakeInv, ShakeTyped, Message, Flows, Flow, Has, Precedes, Agreement,
     Truthful, Acceptable, Version
<1>2. ASSUME NEW e \in End,
             \/ SendVersion(e) \/ Read(e) \/ NothingArrives(e)
             \/ SendApp(e) \/ Disconnect(e) \/ WriteGarbage(e)
      PROVE  ShakeInv'
  BY <1>2, SendVersionInv, NoSkip, ReadVersionInv, ReadVerackInv, HandleMessageInv, SendsInv,
     EndsInv DEF Read
<1> QED BY <1>1, <1>2 DEF ShakeNext

\* In every reachable state of a connection an end that is up has accepted the
\* other's version and been accepted (Peer._handshake,
\* VersionHandshake.process_version), and no handshake has read and thrown away
\* a verack, a sendcmpct or a message of a connected peer (_wait_for_message):
\* for any networks, whichever end writes garbage and whenever either closes.
THEOREM HandshakeAgrees ==
  ASSUME NEW networks
  PROVE  ShakeSpec(networks) => []HandshakeSound
<1>1. ShakeInit(Configs(networks), "new") => ShakeInv
  BY InitShake
<1>2. ShakeInv /\ [ShakeNext]_shakeVars => ShakeInv'
  BY ShakeStep
<1>3. ShakeInv => HandshakeSound
  BY DEF ShakeInv, ShakeTyped, Agreement, HandshakeSound, LiveMeansAgreed, NothingSwallowed
<1> QED BY <1>1, <1>2, <1>3, PTL DEF ShakeSpec

-----------------------------------------------------------------------------
(* Headers served by the nodes of a network                                  *)

\* The blocks that there are, all on one branch, and the tips at the start.
CONSTANTS Branch, Tips

\* One block at each height, and the tips are such blocks.
OneBranch ==
    /\ Branch \subseteq Block
    /\ \A b \in Branch : Range(PathTo[b]) \subseteq Branch
    /\ \A b, c \in Branch : Height(b) = Height(c) => b = c
    /\ Tips \in [Node -> Branch]

\* The blocks that exist at the start, and the nodes that are short of some.
Old == {b \in Branch : \E n \in Node : Height(b) <= Height(Tips[n])}
Low == {n \in Node : \E b \in Old : Height(b) > Height(Tips[n])}
New == Branch \ Old

\* The height that the row or the cache entry x of node n is really about: a
\* node that is short of blocks records headers above its own tip.
Level(n, x) == IF n \in Low /\ x > Height(Tips[n]) THEN x - Height(Tips[n]) - 1 ELSE x

\* The state of a node is a record of these.
Fields == {"index", "tip", "heights", "orphans", "known", "knownTx", "pool", "compact", "timer",
           "asked", "rows", "atHeight", "heightOf", "tally"}
IsState(s) == s = [f \in Fields |-> s[f]]

\* What a node knows about the chain.
ChainOf(n, s) ==
    /\ s.tip \in Branch
    /\ s.index = {b \in Branch : Height(b) <= Height(s.tip)}
    /\ n \in Low => s.tip = Tips[n]
    /\ n \notin Low => \A b \in Old : Height(b) <= Height(s.tip)
    /\ \A p \in Peers(n) : s.heights[p] = Height(Tips[p])

\* What waits at a node is new.
WaitsOf(s) ==
    /\ IsFiniteSet(s.orphans) /\ s.orphans \subseteq New
    /\ DOMAIN s.compact \subseteq New

\* The header rows and the caches, each at the height it is about.
HeadersOf(n, s) ==
    /\ s.index \subseteq DOMAIN s.rows
    /\ \A b \in DOMAIN s.rows : /\ b \in Branch /\ s.rows[b] \in Nat
                                /\ Level(n, s.rows[b]) = Height(b)
    /\ \A x \in DOMAIN s.atHeight : /\ x \in Nat /\ s.atHeight[x] \in Branch
                                    /\ Height(s.atHeight[x]) = Level(n, x)
    /\ \A b \in DOMAIN s.heightOf : /\ b \in Branch /\ s.heightOf[b] \in DOMAIN s.atHeight
                                    /\ Level(n, s.heightOf[b]) = Height(b)

\* The state of node n.
NodeGood(n, s) == IsState(s) /\ ChainOf(n, s) /\ WaitsOf(s) /\ HeadersOf(n, s)

\* Heights are numbers, and a path has one block for each.
LEMMA Heights ==
  ASSUME OneBranch, NEW b \in Branch
  PROVE  /\ Height(b) \in Nat /\ Len(PathTo[b]) = Height(b) + 1
         /\ \A h \in 0..Height(b) : PathTo[b][h + 1] \in Branch /\ Height(PathTo[b][h + 1]) = h
<1>1. /\ b \in Block /\ PathTo[b] \in Seq(Block) /\ PathTo[b] # <<>>
      /\ \A i \in 1..Len(PathTo[b]) : Len(PathTo[PathTo[b][i]]) = i
  BY RelayAssumption DEF OneBranch, RelayAssumption
<1>2. Len(PathTo[b]) \in Nat \ {0} /\ DOMAIN PathTo[b] = 1..Len(PathTo[b])
  BY <1>1, EmptySeq, LenProperties
<1>3. Height(b) \in Nat /\ Len(PathTo[b]) = Height(b) + 1
  BY <1>2 DEF Height
<1>4. ASSUME NEW h \in 0..Height(b) PROVE PathTo[b][h + 1] \in Branch /\ Height(PathTo[b][h + 1]) = h
  <2>1. h + 1 \in 1..Len(PathTo[b])
    BY <1>3
  <2>2. PathTo[b][h + 1] \in Range(PathTo[b])
    BY <1>2, <2>1 DEF Range
  <2>3. Len(PathTo[PathTo[b][h + 1]]) = h + 1
    BY <1>1, <2>1
  <2>4. PathTo[b][h + 1] \in Branch
    BY <2>2 DEF OneBranch
  <2>5. Height(PathTo[b][h + 1]) = h
    BY <2>3 DEF Height
  <2> QED BY <2>4, <2>5
<1> QED BY <1>3, <1>4

\* A path holds the branch up to its end.
LEMMA PathIs ==
  ASSUME OneBranch, NEW t \in Branch
  PROVE  Range(PathTo[t]) = {b \in Branch : Height(b) <= Height(t)}
<1>0. /\ Height(t) \in Nat /\ Len(PathTo[t]) = Height(t) + 1
      /\ \A h \in 0..Height(t) : PathTo[t][h + 1] \in Branch /\ Height(PathTo[t][h + 1]) = h
  BY Heights
<1>1. DOMAIN PathTo[t] = 1..(Height(t) + 1)
  <2>1. PathTo[t] \in Seq(Block)
    BY RelayAssumption DEF OneBranch, RelayAssumption
  <2> QED BY <1>0, <2>1, LenProperties
<1>2. ASSUME NEW b \in Range(PathTo[t]) PROVE b \in Branch /\ Height(b) <= Height(t)
  <2>1. PICK i \in 1..(Height(t) + 1) : b = PathTo[t][i]
    BY <1>1 DEF Range
  <2>2. i - 1 \in 0..Height(t) /\ (i - 1) + 1 = i
    BY <1>0
  <2>3. b \in Branch /\ Height(b) = i - 1
    BY <1>0, <2>1, <2>2
  <2> QED BY <1>0, <2>2, <2>3
<1>3. ASSUME NEW b \in Branch, Height(b) <= Height(t) PROVE b \in Range(PathTo[t])
  <2>1. Height(b) \in 0..Height(t)
    BY <1>0, <1>3, Heights
  <2>2. PathTo[t][Height(b) + 1] \in Branch /\ Height(PathTo[t][Height(b) + 1]) = Height(b)
    BY <1>0, <2>1
  <2>3. PathTo[t][Height(b) + 1] = b
    BY <2>2 DEF OneBranch
  <2>4. Height(b) + 1 \in DOMAIN PathTo[t]
    BY <1>0, <1>1, <2>1
  <2> QED BY <2>3, <2>4 DEF Range
<1> QED BY <1>2, <1>3

\* The block of the active chain at a height.
LEMMA MainIs ==
  ASSUME OneBranch, NEW n, NEW s, ChainOf(n, s), NEW h \in 0..Height(s.tip)
  PROVE  Main(s, h) \in s.index /\ Main(s, h) \in Branch /\ Height(Main(s, h)) = h
<1>1. s.tip \in Branch /\ Height(s.tip) \in Nat
  BY Heights DEF ChainOf
<1>2. Main(s, h) \in Branch /\ Height(Main(s, h)) = h
  BY <1>1, Heights DEF Main
<1> QED BY <1>1, <1>2 DEF ChainOf

\* What a node serves for a height of its chain is the block there.
LEMMA ServesMain ==
  ASSUME OneBranch, NEW n, NEW s, NodeGood(n, s), NEW h \in 0..Height(s.tip)
  PROVE  get_header(s, h) = {Main(s, h)}
<1>1. Main(s, h) \in Branch /\ Height(Main(s, h)) = h
  BY MainIs DEF NodeGood
<1>2. ~(h > Height(s.tip))
  BY Heights DEF NodeGood, ChainOf
<1>3. ASSUME Main(s, h) \in DOMAIN s.heightOf
      PROVE  HeaderAt(s, s.heightOf[Main(s, h)]) = {Main(s, h)}
  <2>1. PICK x : x = s.heightOf[Main(s, h)]
    OBVIOUS
  <2>2. x \in DOMAIN s.atHeight /\ Level(n, x) = Height(Main(s, h))
    BY <1>3, <2>1 DEF NodeGood, HeadersOf
  <2>3. s.atHeight[x] \in Branch /\ Height(s.atHeight[x]) = Level(n, x)
    BY <2>2 DEF NodeGood, HeadersOf
  <2>4. s.atHeight[x] = Main(s, h)
    BY <1>1, <2>2, <2>3 DEF OneBranch
  <2> QED BY <2>1, <2>2, <2>4 DEF HeaderAt
<1> QED BY <1>2, <1>3 DEF get_header

\* Nodes that are short of blocks know the height they are short of.
LEMMA OldBelow ==
  ASSUME OneBranch, NEW n \in Low
  PROVE  \A b \in Branch : Height(b) <= Height(Tips[n]) + 1 => b \in Old
<1>1. PICK c \in Old : Height(c) > Height(Tips[n])
  BY DEF Low
<1>2. PICK k \in Node : Height(c) <= Height(Tips[k])
  BY DEF Old
<1>3. n \in Node /\ Tips[n] \in Branch /\ Tips[k] \in Branch /\ c \in Branch
  BY <1>1, <1>2 DEF Low, OneBranch, Old
<1>4. Height(Tips[n]) \in Nat /\ Height(Tips[k]) \in Nat /\ Height(c) \in Nat
  BY <1>3, Heights
<1>5. ASSUME NEW b \in Branch, Height(b) <= Height(Tips[n]) + 1 PROVE b \in Old
  <2>1. Height(b) \in Nat
    BY Heights
  <2>2. Height(b) <= Height(Tips[k])
    BY <1>1, <1>2, <1>4, <1>5, <2>1
  <2> QED BY <1>2, <2>2 DEF Old
<1> QED BY <1>5

\* The parent of a new block, and that a node that is short of blocks has none.
LEMMA NewBlock ==
  ASSUME OneBranch, NEW n \in Node, NEW s, ChainOf(n, s), NEW b \in New, b \notin s.index,
         Parent(b) \in s.index
  PROVE  n \notin Low /\ Height(b) = Height(s.tip) + 1
<1>1. b \in Branch /\ b \notin Old /\ s.tip \in Branch /\ Height(b) \in Nat /\ Height(s.tip) \in Nat
  BY Heights DEF New, ChainOf
<1>2. Height(b) > Height(s.tip)
  BY <1>1 DEF ChainOf
<1>3. Parent(b) \in Branch /\ Height(Parent(b)) = Height(b) - 1
  <2>0. Len(PathTo[b]) = Height(b) + 1
    BY <1>1, Heights
  <2>1. Height(b) - 1 \in 0..Height(b) /\ (Height(b) - 1) + 1 = Len(PathTo[b]) - 1
    BY <1>1, <1>2, <2>0
  <2> QED BY <1>1, <2>1, Heights DEF Parent
<1>4. Height(Parent(b)) <= Height(s.tip)
  BY DEF ChainOf
<1>5. Height(b) = Height(s.tip) + 1
  BY <1>1, <1>2, <1>3, <1>4
<1>6. ASSUME n \in Low PROVE FALSE
  <2>1. s.tip = Tips[n]
    BY <1>6 DEF ChainOf
  <2> QED BY <1>1, <1>5, <1>6, <2>1, OldBelow
<1> QED BY <1>5, <1>6

-----------------------------------------------------------------------------
\* What a handler leaves alone when it does not touch chain or headers.
SameCore(s, t) ==
    /\ IsState(t) /\ t.index = s.index /\ t.tip = s.tip /\ t.heights = s.heights
    /\ t.orphans = s.orphans /\ t.rows = s.rows /\ t.atHeight = s.atHeight
    /\ t.heightOf = s.heightOf

\* Then the node stays good, as long as what it waits for is new.
LEMMA CoreKept ==
  ASSUME NEW n, NEW s, NEW t, NodeGood(n, s), SameCore(s, t), DOMAIN t.compact \subseteq New
  PROVE  NodeGood(n, t)
<1>1. ChainOf(n, t)
  BY DEF NodeGood, SameCore, ChainOf
<1>2. WaitsOf(t)
  BY DEF NodeGood, SameCore, WaitsOf
<1>3. HeadersOf(n, t)
  BY DEF NodeGood, SameCore, HeadersOf
<1> QED BY <1>1, <1>2, <1>3 DEF NodeGood, SameCore

\* The memories of blocks and transactions, the pool and the timers.
LEMMA KnownKept ==
  ASSUME NEW n, NEW s, NodeGood(n, s), NEW v
  PROVE  /\ NodeGood(n, [s EXCEPT !.known = v]) /\ NodeGood(n, [s EXCEPT !.knownTx = v])
         /\ NodeGood(n, [s EXCEPT !.pool = v]) /\ NodeGood(n, [s EXCEPT !.timer = v])
         /\ NodeGood(n, [s EXCEPT !.asked = v]) /\ NodeGood(n, [s EXCEPT !.tally = v])
<1>1. IsState(s) /\ DOMAIN s.compact \subseteq New
  BY DEF NodeGood, WaitsOf
<1>2. SameCore(s, [s EXCEPT !.known = v]) /\ [s EXCEPT !.known = v].compact = s.compact
  BY <1>1 DEF SameCore, IsState, Fields
<1>3. SameCore(s, [s EXCEPT !.knownTx = v]) /\ [s EXCEPT !.knownTx = v].compact = s.compact
  BY <1>1 DEF SameCore, IsState, Fields
<1>4. SameCore(s, [s EXCEPT !.pool = v]) /\ [s EXCEPT !.pool = v].compact = s.compact
  BY <1>1 DEF SameCore, IsState, Fields
<1>5. SameCore(s, [s EXCEPT !.timer = v]) /\ [s EXCEPT !.timer = v].compact = s.compact
  BY <1>1 DEF SameCore, IsState, Fields
<1>6. SameCore(s, [s EXCEPT !.asked = v]) /\ [s EXCEPT !.asked = v].compact = s.compact
  BY <1>1 DEF SameCore, IsState, Fields
<1>7. SameCore(s, [s EXCEPT !.tally = v]) /\ [s EXCEPT !.tally = v].compact = s.compact
  BY <1>1 DEF SameCore, IsState, Fields
<1> QED BY <1>1, <1>2, <1>3, <1>4, <1>5, <1>6, <1>7, CoreKept

\* A compact block is counted for or against a peer.
LEMMA CountedKept ==
  ASSUME NEW n, NEW s, NodeGood(n, s), NEW p, NEW success
  PROVE  NodeGood(n, Counted(s, p, success))
<1>1. PICK v : v = [s.tally EXCEPT ![p] = Tally(@, success)]
  OBVIOUS
<1>2. Counted(s, p, success) = [s EXCEPT !.tally = v]
  BY <1>1 DEF Counted
<1>3. NodeGood(n, [s EXCEPT !.tally = v])
  BY KnownKept
<1> QED BY <1>2, <1>3

\* A compact request is over.
LEMMA ResolvedKept ==
  ASSUME NEW n, NEW s, NodeGood(n, s), NEW b
  PROVE  NodeGood(n, Resolved(s, b))
<1>1. IsState(s) /\ DOMAIN s.compact \subseteq New
  BY DEF NodeGood, WaitsOf
<1>2. SameCore(s, Resolved(s, b)) /\ Resolved(s, b).compact = Unset(s.compact, {b})
  BY <1>1 DEF SameCore, IsState, Fields, Resolved
<1>3. DOMAIN Unset(s.compact, {b}) \subseteq New
  BY <1>1 DEF Unset
<1> QED BY <1>2, <1>3, CoreKept

\* A compact request begins.
LEMMA WaitingKept ==
  ASSUME NEW n, NEW s, NodeGood(n, s), NEW p, NEW b \in New
  PROVE  NodeGood(n, Waiting(s, p, b))
<1>1. IsState(s) /\ DOMAIN s.compact \subseteq New
  BY DEF NodeGood, WaitsOf
<1>2. PICK e : e = [peer |-> p, wanted |-> Missing(s, b),
                    have |-> [i \in DOMAIN Txs[b] \ Missing(s, b) |-> Txs[b][i]]]
  OBVIOUS
<1>3. Waiting(s, p, b) = [s EXCEPT !.compact = Set(@, b, e), !.timer = @ \cup {b}]
  BY <1>2 DEF Waiting
<1>4. SameCore(s, Waiting(s, p, b)) /\ Waiting(s, p, b).compact = Set(s.compact, b, e)
  BY <1>1, <1>3 DEF SameCore, IsState, Fields
<1>5. DOMAIN Set(s.compact, b, e) \subseteq New
  BY <1>1 DEF Set
<1> QED BY <1>4, <1>5, CoreKept

-----------------------------------------------------------------------------
\* A list of headers from genesis up.
FromGenesis(q) ==
    /\ Len(q) \in Nat /\ DOMAIN q = 1..Len(q)
    /\ \A i \in 1..Len(q) : q[i] \in Branch /\ Height(q[i]) = i - 1

\* A message from a to b.  Only new blocks are talked about, only nodes that
\* are short of blocks ask for headers, and they are answered from genesis on,
\* since no locator names a hash in the order the answer looks it up.
MsgGood(a, b, m) ==
    \/ m.type = "inv" /\ m.kind \in {"tx", "block"} /\ (m.kind = "block" => m.hash[1] \in New)
    \/ m.type = "getdata" /\ m.kind \in {"tx", "block"} /\ (m.kind = "block" => m.hash[1] \in New)
    \/ m.type = "tx"
    \/ m.type \in {"block", "cmpctblock", "blocktxn", "getblocktxn"} /\ m.block \in New
    \/ m.type = "getheaders" /\ a \in Low /\ \A i \in DOMAIN m.locator : m.locator[i][2] = "raw"
    \/ m.type = "headers" /\ b \in Low /\ FromGenesis(m.headers)

\* Messages from a to b, what n sends, and the links.
ListGood(a, b, q) == q \in Seq(Range(q)) /\ \A m \in Range(q) : MsgGood(a, b, m)
OutGood(n, out) == out = [p \in Node |-> out[p]] /\ \A p \in Node : ListGood(n, p, out[p])
ChanGood(ch) == ch = [p \in Pairs |-> ch[p]] /\ \A p \in Pairs : ListGood(p[1], p[2], ch[p])

\* A list is one of its own members.
LEMMA OwnRange ==
  ASSUME NEW X, NEW q \in Seq(X)
  PROVE  q \in Seq(Range(q))
<1>1. PICK k \in Nat : q \in [1..k -> X]
  BY SeqDef
<1>2. q \in [1..k -> Range(q)]
  BY <1>1 DEF Range
<1> QED BY <1>1, <1>2, SeqDef

\* No messages.
LEMMA NoneGood == ASSUME NEW a, NEW b PROVE ListGood(a, b, <<>>)
<1>1. Range(<<>>) = {}
  BY DEF Range
<1> QED BY <1>1 DEF ListGood

\* One message.
LEMMA OneGood ==
  ASSUME NEW a, NEW b, NEW m, MsgGood(a, b, m)
  PROVE  ListGood(a, b, <<m>>)
<1>1. Range(<<m>>) = {m}
  BY DEF Range
<1>2. <<m>> \in Seq({m})
  OBVIOUS
<1> QED BY <1>1, <1>2 DEF ListGood

\* One list after another.
LEMMA JoinGood ==
  ASSUME NEW a, NEW b, NEW q, NEW r, ListGood(a, b, q), ListGood(a, b, r)
  PROVE  ListGood(a, b, q \o r)
<1> DEFINE X == Range(q) \cup Range(r)
<1>1. q \in Seq(Range(q)) /\ r \in Seq(Range(r))
  BY DEF ListGood
<1>2. Len(q) \in Nat /\ Len(r) \in Nat /\ DOMAIN q = 1..Len(q) /\ DOMAIN r = 1..Len(r)
  BY <1>1, LenProperties
<1>3. q \in Seq(X) /\ r \in Seq(X)
  BY <1>1, <1>2, SeqDef DEF Range
<1>4. /\ q \o r \in Seq(X) /\ Len(q \o r) = Len(q) + Len(r)
      /\ \A i \in 1..(Len(q) + Len(r)) : (q \o r)[i] = IF i <= Len(q) THEN q[i] ELSE r[i - Len(q)]
  BY <1>3, ConcatProperties
<1>5. DOMAIN (q \o r) = 1..(Len(q) + Len(r))
  BY <1>4, LenProperties
<1>6. Range(q \o r) \subseteq X
  <2> SUFFICES ASSUME NEW i \in 1..(Len(q) + Len(r)) PROVE (q \o r)[i] \in X
    BY <1>5 DEF Range
  <2>1. CASE i <= Len(q)
    <3>1. i \in DOMAIN q /\ (q \o r)[i] = q[i]
      BY <1>2, <1>4, <2>1
    <3> QED BY <3>1 DEF Range
  <2>2. CASE ~(i <= Len(q))
    <3>1. i - Len(q) \in DOMAIN r /\ (q \o r)[i] = r[i - Len(q)]
      BY <1>2, <1>4, <2>2
    <3> QED BY <3>1 DEF Range
  <2> QED BY <2>1, <2>2
<1>7. q \o r \in Seq(Range(q \o r))
  <2> HIDE DEF X
  <2> QED BY <1>4, OwnRange
<1> QED BY <1>6, <1>7 DEF ListGood

\* The first message of a link, and what is left.
LEMMA TakeGood ==
  ASSUME NEW a, NEW b, NEW q, ListGood(a, b, q), q # <<>>
  PROVE  MsgGood(a, b, Head(q)) /\ ListGood(a, b, Tail(q))
<1>1. q \in Seq(Range(q)) /\ q # <<>>
  BY DEF ListGood
<1>2. Len(q) \in Nat /\ DOMAIN q = 1..Len(q) /\ Len(q) # 0
  BY <1>1, LenProperties, EmptySeq
<1>3. Head(q) = q[1] /\ 1 \in DOMAIN q
  BY <1>1, <1>2
<1>4. Head(q) \in Range(q)
  BY <1>3 DEF Range
<1>5. Tail(q) \in Seq(Range(q)) /\ Len(Tail(q)) = Len(q) - 1
      /\ \A i \in 1..(Len(q) - 1) : Tail(q)[i] = q[i + 1]
  BY <1>1, HeadTailProperties
<1>6. DOMAIN Tail(q) = 1..(Len(q) - 1)
  BY <1>5, LenProperties
<1>7. Range(Tail(q)) \subseteq Range(q)
  <2> SUFFICES ASSUME NEW i \in 1..(Len(q) - 1) PROVE Tail(q)[i] \in Range(q)
    BY <1>6 DEF Range
  <2>1. i + 1 \in DOMAIN q
    BY <1>2
  <2> QED BY <1>5, <2>1 DEF Range
<1>8. Tail(q) \in Seq(Range(Tail(q)))
  BY <1>5, OwnRange
<1> QED BY <1>4, <1>7, <1>8 DEF ListGood

\* Nothing is sent.
LEMMA SilenceGood == ASSUME NEW n PROVE OutGood(n, Silence)
  BY NoneGood DEF OutGood, Silence

\* One peer is sent something.
LEMMA ToGood ==
  ASSUME NEW n, NEW p, NEW ms, ListGood(n, p, ms)
  PROVE  OutGood(n, To(p, ms))
  BY NoneGood DEF OutGood, To

\* Two rounds of messages.
LEMMA BothGood ==
  ASSUME NEW n, NEW m1, NEW m2, OutGood(n, m1), OutGood(n, m2)
  PROVE  OutGood(n, Both(m1, m2))
  BY JoinGood DEF OutGood, Both

\* What is sent is put on the links.
LEMMA SendGood ==
  ASSUME NEW n, NEW ch, ChanGood(ch), NEW out, OutGood(n, out)
  PROVE  ChanGood(Send(ch, n, out))
<1>1. ASSUME NEW p \in Pairs PROVE ListGood(p[1], p[2], Send(ch, n, out)[p])
  <2>1. p[2] \in Node /\ ListGood(p[1], p[2], ch[p])
    BY DEF Pairs, ChanGood
  <2>2. ASSUME p[1] = n PROVE ListGood(p[1], p[2], ch[p] \o out[p[2]])
    BY <2>1, <2>2, JoinGood DEF OutGood
  <2> QED BY <2>1, <2>2 DEF Send
<1> QED BY <1>1 DEF ChanGood, Send

\* What is read leaves its link.
LEMMA TookGood ==
  ASSUME NEW n, NEW m, <<m, n>> \in Pairs, ChanGood(chan), chan[<<m, n>>] # <<>>
  PROVE  ChanGood(Take(n, m)) /\ MsgGood(m, n, Head(chan[<<m, n>>]))
<1>1. ListGood(m, n, chan[<<m, n>>])
  BY DEF ChanGood
<1>2. MsgGood(m, n, Head(chan[<<m, n>>])) /\ ListGood(m, n, Tail(chan[<<m, n>>]))
  BY <1>1, TakeGood
<1>3. chan = [p \in Pairs |-> chan[p]] /\ \A p \in Pairs : ListGood(p[1], p[2], chan[p])
  BY DEF ChanGood
<1>4. PICK t : t = Tail(chan[<<m, n>>])
  OBVIOUS
<1>5. Take(n, m) = [p \in Pairs |-> IF p = <<m, n>> THEN t ELSE chan[p]]
  BY <1>3, <1>4 DEF Take
<1>6. ListGood(m, n, t)
  BY <1>2, <1>4
<1> HIDE DEF ListGood
<1>7. ASSUME NEW p \in Pairs PROVE ListGood(p[1], p[2], Take(n, m)[p])
  <2>1. CASE p = <<m, n>>
    BY <1>5, <1>6, <2>1
  <2>2. CASE p # <<m, n>>
    BY <1>3, <1>5, <2>2
  <2> QED BY <2>1, <2>2
<1> QED BY <1>2, <1>5, <1>7 DEF ChanGood

-----------------------------------------------------------------------------
\* A new block is announced.
LEMMA AnnouncementGood ==
  ASSUME NEW n, NEW s, NEW b \in New
  PROVE  OutGood(n, Announcement(s, n, b))
<1>1. ASSUME NEW p \in Node PROVE ListGood(n, p, Announcement(s, n, b)[p])
  <2> DEFINE m1 == [type |-> "cmpctblock", block |-> b]
             m2 == [type |-> "inv", kind |-> "block", hash |-> Raw(b)]
  <2>1. MsgGood(n, p, m1)
    BY DEF MsgGood
  <2>2. MsgGood(n, p, m2)
    BY DEF MsgGood, Raw
  <2> HIDE DEF m1, m2
  <2>3. ListGood(n, p, <<m1>>) /\ ListGood(n, p, <<m2>>) /\ ListGood(n, p, <<>>)
    BY <2>1, <2>2, OneGood, NoneGood
  <2>4. Announcement(s, n, b)[p] \in {<<m1>>, <<m2>>, <<>>}
    BY DEF Announcement, m1, m2
  <2> QED BY <2>3, <2>4
<1> QED BY <1>1 DEF OutGood, Announcement

\* An orphan comes or goes.
LEMMA OrphansKept ==
  ASSUME NEW n, NEW s, NodeGood(n, s), NEW S, IsFiniteSet(S), S \subseteq New
  PROVE  NodeGood(n, [s EXCEPT !.orphans = S])
<1> DEFINE t == [s EXCEPT !.orphans = S]
<1>1. IsState(s)
  BY DEF NodeGood
<1>2. /\ IsState(t) /\ t.orphans = S /\ t.index = s.index /\ t.tip = s.tip
      /\ t.heights = s.heights /\ t.compact = s.compact /\ t.rows = s.rows
      /\ t.atHeight = s.atHeight /\ t.heightOf = s.heightOf
  BY <1>1 DEF IsState, Fields
<1> HIDE DEF t
<1>3. ChainOf(n, t)
  BY <1>2 DEF NodeGood, ChainOf
<1>4. WaitsOf(t)
  BY <1>2 DEF NodeGood, WaitsOf
<1>5. HeadersOf(n, t)
  BY <1>2 DEF NodeGood, HeadersOf
<1>6. NodeGood(n, t)
  BY <1>2, <1>3, <1>4, <1>5 DEF NodeGood
<1> QED BY <1>6 DEF t

\* on_block for a new block.
LEMMA AcceptOneGood ==
  ASSUME OneBranch, NEW n \in Node, NEW s, NodeGood(n, s), NEW b \in New
  PROVE  NodeGood(n, AcceptOne(n, s, b).s) /\ OutGood(n, AcceptOne(n, s, b).out)
<1>1. CASE b \in s.index
  <2>1. AcceptOne(n, s, b) = [s |-> s, out |-> Silence, ok |-> FALSE]
    BY <1>1 DEF AcceptOne
  <2> QED BY <2>1, SilenceGood
<1>2. CASE b \notin s.index /\ Parent(b) \notin s.index
  <2>1. AcceptOne(n, s, b) = [s |-> [s EXCEPT !.orphans = s.orphans \cup {b}], out |-> Silence, ok |-> FALSE]
    BY <1>2 DEF AcceptOne
  <2>2. IsFiniteSet(s.orphans \cup {b}) /\ s.orphans \cup {b} \subseteq New
    BY FS_AddElement DEF NodeGood, WaitsOf
  <2>3. NodeGood(n, [s EXCEPT !.orphans = s.orphans \cup {b}])
    BY <2>2, OrphansKept
  <2> QED BY <2>1, <2>3, SilenceGood
<1>3. CASE b \notin s.index /\ Parent(b) \in s.index
  <2>1. ChainOf(n, s) /\ IsState(s)
    BY DEF NodeGood
  <2>2. n \notin Low /\ Height(b) = Height(s.tip) + 1
    BY <1>3, <2>1, NewBlock
  <2>3. b \in Branch /\ s.tip \in Branch /\ Height(b) \in Nat /\ Height(s.tip) \in Nat
    BY <2>1, Heights DEF New, ChainOf
  <2>4. ~(Height(b) <= Height(s.tip))
    BY <2>2, <2>3
  <2>5. PICK pl : pl = s.pool \ UNION {Range(Txs[c]) : c \in Range(PathTo[b])}
    OBVIOUS
  <2>6. PICK t : t = [s EXCEPT !.index = @ \cup {b}, !.tip = b, !.rows = Set(@, b, Height(b)),
                               !.known = Remember(@, b), !.pool = pl]
    OBVIOUS
  <2>7. AcceptOne(n, s, b) = [s |-> t, out |-> Announcement(t, n, b), ok |-> TRUE]
    BY <1>3, <2>4, <2>5, <2>6 DEF AcceptOne
  <2>8. /\ IsState(t) /\ t.orphans = s.orphans /\ t.index = s.index \cup {b} /\ t.tip = b
        /\ t.heights = s.heights /\ t.compact = s.compact /\ t.rows = Set(s.rows, b, Height(b))
        /\ t.atHeight = s.atHeight /\ t.heightOf = s.heightOf
    BY <2>1, <2>6 DEF IsState, Fields
  <2>9. ChainOf(n, t)
    <3>1. ASSUME NEW c \in Branch PROVE c \in t.index <=> Height(c) <= Height(b)
      <4>1. Height(c) \in Nat
        BY Heights
      <4>2. c \in s.index <=> Height(c) <= Height(s.tip)
        BY <2>1 DEF ChainOf
      <4>3. Height(c) = Height(b) => c = b
        BY <2>3 DEF OneBranch
      <4> QED BY <2>2, <2>3, <2>8, <4>1, <4>2, <4>3
    <3>2. t.index \subseteq Branch
      BY <2>1, <2>3, <2>8 DEF ChainOf
    <3>3. \A c \in Old : Height(c) <= Height(b)
      <4>1. SUFFICES ASSUME NEW c \in Old PROVE Height(c) <= Height(b)
        OBVIOUS
      <4>2. Height(c) <= Height(s.tip) /\ Height(c) \in Nat
        BY <2>1, <2>2, Heights DEF ChainOf, Old
      <4> QED BY <2>2, <2>3, <4>2
    <3>4. \A p \in Peers(n) : t.heights[p] = Height(Tips[p])
      BY <2>1, <2>8 DEF ChainOf
    <3>5. t.index = {c \in Branch : Height(c) <= Height(t.tip)}
      BY <2>8, <3>1, <3>2
    <3> QED BY <2>2, <2>3, <2>8, <3>3, <3>4, <3>5 DEF ChainOf
  <2>10. WaitsOf(t)
    BY <2>8 DEF NodeGood, WaitsOf
  <2>11. HeadersOf(n, t)
    <3>1. HeadersOf(n, s)
      BY DEF NodeGood
    <3>2. DOMAIN t.rows = DOMAIN s.rows \cup {b}
          /\ \A c \in DOMAIN t.rows : t.rows[c] = IF c = b THEN Height(b) ELSE s.rows[c]
      BY <2>8 DEF Set
    <3>3. Level(n, Height(b)) = Height(b)
      BY <2>2 DEF Level
    <3>4. t.index \subseteq DOMAIN t.rows
      BY <2>8, <3>1, <3>2 DEF HeadersOf
    <3>5. \A c \in DOMAIN t.rows : /\ c \in Branch /\ t.rows[c] \in Nat
                                   /\ Level(n, t.rows[c]) = Height(c)
      BY <2>3, <3>1, <3>2, <3>3 DEF HeadersOf
    <3> QED BY <2>8, <3>1, <3>4, <3>5 DEF HeadersOf
  <2>12. NodeGood(n, t)
    BY <2>8, <2>9, <2>10, <2>11 DEF NodeGood
  <2> QED BY <2>7, <2>12, AnnouncementGood
<1> QED BY <1>1, <1>2, <1>3

\* What a handler leaves and sends.
ResultGood(n, r) == NodeGood(n, r.s) /\ OutGood(n, r.out)

\* One round over the orphans.
LEMMA RetryGood ==
  ASSUME OneBranch, NEW n \in Node, NEW r, ResultGood(n, r)
  PROVE  ResultGood(n, Retry(n, r))
<1> DEFINE children == {c \in r.s.orphans : Parent(c) = r.s.tip}
<1>1. CASE children = {}
  <2>1. Retry(n, r) = r
    BY <1>1 DEF Retry
  <2> QED BY <2>1
<1>2. CASE children # {}
  <2>1. PICK c : c = CHOOSE x \in children : TRUE
    OBVIOUS
  <2>2. c \in children
    BY <1>2, <2>1
  <2>3. c \in r.s.orphans /\ c \in New /\ IsFiniteSet(r.s.orphans) /\ r.s.orphans \subseteq New
    BY <2>2 DEF ResultGood, NodeGood, WaitsOf
  <2>4. IsFiniteSet(r.s.orphans \ {c}) /\ r.s.orphans \ {c} \subseteq New
    BY <2>3, FS_RemoveElement
  <2>5. PICK s : s = [r.s EXCEPT !.orphans = r.s.orphans \ {c}]
    OBVIOUS
  <2>6. NodeGood(n, s)
    BY <2>4, <2>5, OrphansKept DEF ResultGood
  <2>7. NodeGood(n, AcceptOne(n, s, c).s) /\ OutGood(n, AcceptOne(n, s, c).out)
    BY <2>3, <2>6, AcceptOneGood
  <2>8. OutGood(n, Both(r.out, AcceptOne(n, s, c).out))
    BY <2>7, BothGood DEF ResultGood
  <2>9. Retry(n, r) = [s |-> AcceptOne(n, s, c).s, out |-> Both(r.out, AcceptOne(n, s, c).out), ok |-> TRUE]
    BY <1>2, <2>1, <2>5 DEF Retry
  <2> QED BY <2>7, <2>8, <2>9 DEF ResultGood
<1> QED BY <1>1, <1>2

\* f is the results after each round over the orphans.
IsTried(f, n, first, k) == f = [j \in 0..k |-> IF j = 0 THEN first ELSE Retry(n, f[j - 1])]

\* on_block in terms of the rounds over the orphans.
LEMMA AcceptUnfold ==
  ASSUME NEW n, NEW s, NEW b
  PROVE  LET first == AcceptOne(n, s, b)
             k == Cardinality(s.orphans)
         IN  Accept(n, s, b) = IF first.ok THEN (CHOOSE f : IsTried(f, n, first, k))[k] ELSE first
  BY DEF Accept, IsTried

\* The rounds exist, however many: no number is the smallest without them.
LEMMA TriedExists ==
  ASSUME NEW n, NEW first, NEW k \in Nat
  PROVE  \E f : IsTried(f, n, first, k)
<1> DEFINE B == {i \in Nat : ~\E f : IsTried(f, n, first, i)}
<1>1. B = {}
  <2> SUFFICES ASSUME B # {} PROVE FALSE
    OBVIOUS
  <2>1. PICK i \in B : \A m \in B : ~(m < i)
    <3>1. B \in SUBSET Nat
      OBVIOUS
    <3> QED BY <3>1, SmallestNumber
  <2>2. CASE i = 0
    <3>1. IsTried([j \in 0..0 |-> first], n, first, 0)
      BY DEF IsTried
    <3> QED BY <2>1, <2>2, <3>1
  <2>3. CASE i # 0
    <3>1. i \in Nat /\ i - 1 \in Nat /\ i - 1 < i
      BY <2>1, <2>3
    <3>2. i - 1 \notin B
      BY <2>1, <3>1
    <3>3. PICK f : IsTried(f, n, first, i - 1)
      BY <3>2, <3>1
    <3> DEFINE g == [j \in 0..i |-> IF j < i THEN f[j] ELSE Retry(n, f[i - 1])]
    <3>4. ASSUME NEW j \in 0..i
          PROVE  g[j] = IF j = 0 THEN first ELSE Retry(n, g[j - 1])
      <4>1. CASE j = 0
        BY <2>3, <3>1, <3>3, <4>1 DEF IsTried
      <4>2. CASE j # 0 /\ j < i
        <5>1. j \in 0..(i - 1) /\ j - 1 \in 0..i /\ j - 1 < i
          BY <2>1, <4>2
        <5>2. f[j] = Retry(n, f[j - 1])
          BY <3>3, <4>2, <5>1 DEF IsTried
        <5> QED BY <4>2, <5>1, <5>2
      <4>3. CASE j = i
        <5>1. i - 1 \in 0..i /\ i - 1 < i
          BY <2>1, <3>1
        <5> QED BY <2>3, <4>3, <5>1
      <4> QED BY <2>1, <4>1, <4>2, <4>3
    <3>5. g = [j \in 0..i |-> g[j]]
      OBVIOUS
    <3> HIDE DEF g
    <3>6. IsTried(g, n, first, i)
      BY <3>4, <3>5 DEF IsTried
    <3> QED BY <2>1, <3>6
  <2> QED BY <2>2, <2>3
<1> QED BY <1>1

\* on_block with what it sets off.
LEMMA AcceptGood ==
  ASSUME OneBranch, NEW n \in Node, NEW s, NodeGood(n, s), NEW b \in New
  PROVE  ResultGood(n, Accept(n, s, b))
<1>1. PICK first : first = AcceptOne(n, s, b)
  OBVIOUS
<1>2. PICK k \in Nat : k = Cardinality(s.orphans)
  BY FS_CardinalityType DEF NodeGood, WaitsOf
<1>3. PICK f : f = CHOOSE g : IsTried(g, n, first, k)
  OBVIOUS
<1>4. IsTried(f, n, first, k)
  BY <1>3, TriedExists
<1>5. ResultGood(n, first)
  BY <1>1, AcceptOneGood DEF ResultGood
<1>6. ResultGood(n, f[k])
  <2> DEFINE B == {i \in 0..k : ~ResultGood(n, f[i])}
  <2>1. B = {}
    <3> SUFFICES ASSUME B # {} PROVE FALSE
      OBVIOUS
    <3>1. PICK i \in B : \A m \in B : ~(m < i)
      <4>1. B \in SUBSET Nat
        OBVIOUS
      <4> QED BY <4>1, SmallestNumber
    <3>2. i \in 0..k /\ ~ResultGood(n, f[i])
      BY <3>1
    <3>3. i # 0
      BY <1>4, <1>5, <3>2 DEF IsTried
    <3>4. i - 1 \in 0..k /\ i - 1 < i
      BY <3>2, <3>3
    <3>5. ResultGood(n, f[i - 1])
      BY <3>1, <3>4
    <3>6. f[i] = Retry(n, f[i - 1])
      BY <1>4, <3>2, <3>3 DEF IsTried
    <3> QED BY <3>2, <3>5, <3>6, RetryGood
  <2> QED BY <2>1
<1>7. Accept(n, s, b) = IF first.ok THEN f[k] ELSE first
  BY <1>1, <1>2, <1>3, AcceptUnfold
<1> QED BY <1>5, <1>6, <1>7

-----------------------------------------------------------------------------
\* New rows and caches, each at the height it is about.
LEMMA HeadersKept ==
  ASSUME NEW n, NEW s, NodeGood(n, s), NEW t, IsState(t), t.index = s.index, t.tip = s.tip,
         t.heights = s.heights, t.orphans = s.orphans, t.compact = s.compact, HeadersOf(n, t)
  PROVE  NodeGood(n, t)
<1>1. ChainOf(n, t)
  BY DEF NodeGood, ChainOf
<1>2. WaitsOf(t)
  BY DEF NodeGood, WaitsOf
<1> QED BY <1>1, <1>2 DEF NodeGood

\* Reading headers fills the caches with what the rows say.
LEMMA CachedGood ==
  ASSUME OneBranch, NEW n, NEW s, NodeGood(n, s), NEW H, H \subseteq 0..Height(s.tip)
  PROVE  NodeGood(n, CacheHeaders(s, H)) /\ CacheHeaders(s, H).tip = s.tip
<1> DEFINE Row(h) == s.rows[Main(s, h)]
<1>1. PICK fresh : fresh = {h \in H : h <= Height(s.tip) /\ Main(s, h) \notin DOMAIN s.heightOf}
  OBVIOUS
<1> DEFINE LastOf(x) == CHOOSE h \in fresh : Row(h) = x /\ \A k \in fresh : Row(k) = x => k <= h
<1>2. PICK A : A = [x \in {Row(h) : h \in fresh} |-> Main(s, LastOf(x))]
  OBVIOUS
<1>3. PICK B : B = [b \in {Main(s, h) : h \in fresh} |-> s.rows[b]]
  OBVIOUS
<1>4. PICK t : t = [s EXCEPT !.atHeight = Over(@, A), !.heightOf = Over(@, B)]
  OBVIOUS
<1>5. CacheHeaders(s, H) = t
  BY <1>1, <1>2, <1>3, <1>4 DEF CacheHeaders
<1>6. IsState(s) /\ ChainOf(n, s) /\ HeadersOf(n, s)
  BY DEF NodeGood
<1>7. /\ IsState(t) /\ t.index = s.index /\ t.tip = s.tip /\ t.heights = s.heights
      /\ t.orphans = s.orphans /\ t.compact = s.compact /\ t.rows = s.rows
      /\ t.atHeight = Over(s.atHeight, A) /\ t.heightOf = Over(s.heightOf, B)
  BY <1>4, <1>6 DEF IsState, Fields
<1>8. ASSUME NEW h \in fresh
      PROVE  /\ h \in 0..Height(s.tip) /\ Main(s, h) \in Branch /\ Height(Main(s, h)) = h
             /\ Main(s, h) \in DOMAIN s.rows /\ Row(h) \in Nat /\ Level(n, Row(h)) = h
  <2>1. h \in 0..Height(s.tip)
    BY <1>1
  <2>2. Main(s, h) \in s.index /\ Main(s, h) \in Branch /\ Height(Main(s, h)) = h
    BY <1>6, <2>1, MainIs
  <2>3. Main(s, h) \in DOMAIN s.rows
    BY <1>6, <2>2 DEF HeadersOf
  <2> QED BY <1>6, <2>1, <2>2, <2>3 DEF HeadersOf
<1>9. ASSUME NEW x \in DOMAIN A
      PROVE  x \in Nat /\ A[x] \in Branch /\ Height(A[x]) = Level(n, x)
  <2>1. PICK h \in fresh : x = Row(h)
    BY <1>2
  <2>2. ASSUME NEW k \in fresh, Row(k) = x PROVE k <= h
    <3>1. k = Level(n, x) /\ h = Level(n, x) /\ h \in 0..Height(s.tip)
      BY <1>8, <2>1, <2>2
    <3> QED BY <3>1
  <2>3. LastOf(x) \in fresh /\ Row(LastOf(x)) = x
    BY <2>1, <2>2
  <2>4. A[x] = Main(s, LastOf(x))
    BY <1>2
  <2> HIDE DEF LastOf
  <2>5. Main(s, LastOf(x)) \in Branch /\ Height(Main(s, LastOf(x))) = LastOf(x)
        /\ Row(LastOf(x)) \in Nat /\ Level(n, Row(LastOf(x))) = LastOf(x)
    BY <1>8, <2>3
  <2> QED BY <2>3, <2>4, <2>5
<1>10. ASSUME NEW b \in DOMAIN B
       PROVE  b \in Branch /\ B[b] \in DOMAIN A /\ Level(n, B[b]) = Height(b)
  <2>1. PICK h \in fresh : b = Main(s, h)
    BY <1>3
  <2>2. B[b] = Row(h)
    BY <1>3, <2>1
  <2> QED BY <1>2, <1>8, <2>1, <2>2
<1> HIDE DEF Row, LastOf
<1>11. HeadersOf(n, t)
  <2>1. t.index \subseteq DOMAIN t.rows
        /\ \A b \in DOMAIN t.rows : b \in Branch /\ t.rows[b] \in Nat /\ Level(n, t.rows[b]) = Height(b)
    BY <1>6, <1>7 DEF HeadersOf
  <2>2. DOMAIN t.atHeight = DOMAIN s.atHeight \cup DOMAIN A
    BY <1>7 DEF Over
  <2>3. ASSUME NEW x \in DOMAIN t.atHeight
        PROVE  x \in Nat /\ t.atHeight[x] \in Branch /\ Height(t.atHeight[x]) = Level(n, x)
    <3>1. CASE x \in DOMAIN A
      <4>1. t.atHeight[x] = A[x]
        BY <1>7, <2>2, <3>1 DEF Over
      <4> QED BY <1>9, <3>1, <4>1
    <3>2. CASE x \notin DOMAIN A
      <4>1. x \in DOMAIN s.atHeight /\ t.atHeight[x] = s.atHeight[x]
        BY <1>7, <2>2, <3>2 DEF Over
      <4> QED BY <1>6, <4>1 DEF HeadersOf
    <3> QED BY <3>1, <3>2
  <2>4. ASSUME NEW b \in DOMAIN t.heightOf
        PROVE  b \in Branch /\ t.heightOf[b] \in DOMAIN t.atHeight /\ Level(n, t.heightOf[b]) = Height(b)
    <3>1. CASE b \in DOMAIN B
      <4>1. t.heightOf[b] = B[b]
        BY <1>7, <3>1 DEF Over
      <4> QED BY <1>10, <2>2, <3>1, <4>1
    <3>2. CASE b \notin DOMAIN B
      <4>1. b \in DOMAIN s.heightOf /\ t.heightOf[b] = s.heightOf[b]
        BY <1>7, <3>2 DEF Over
      <4> QED BY <1>6, <2>2, <4>1 DEF HeadersOf
    <3> QED BY <3>1, <3>2
  <2> QED BY <2>1, <2>3, <2>4 DEF HeadersOf
<1> QED BY <1>5, <1>7, <1>11, HeadersKept

\* Headers from genesis on, recorded above the tip of a node that asked.
LEMMA AddedGood ==
  ASSUME OneBranch, NEW n \in Low, NEW s, NodeGood(n, s), NEW q, FromGenesis(q)
  PROVE  NodeGood(n, AddHeaders(s, q, Height(s.tip))) /\ AddHeaders(s, q, Height(s.tip)).tip = s.tip
<1>1. PICK best \in Nat : best = Height(s.tip)
  BY Heights DEF NodeGood, ChainOf
<1>2. best = Height(Tips[n])
  BY <1>1 DEF NodeGood, ChainOf
<1>3. Len(q) \in Nat /\ DOMAIN q = 1..Len(q)
      /\ \A i \in 1..Len(q) : q[i] \in Branch /\ Height(q[i]) = i - 1
  BY DEF FromGenesis
<1>4. PICK B : B = [b \in Range(q) |-> best + (CHOOSE i \in DOMAIN q : q[i] = b)]
  OBVIOUS
<1>5. PICK A : A = [h \in (best + 1)..(best + Len(q)) |-> q[h - best]]
  OBVIOUS
<1>6. PICK t : t = [s EXCEPT !.rows = Over(@, B), !.heightOf = Over(@, B), !.atHeight = Over(@, A)]
  OBVIOUS
<1>7. AddHeaders(s, q, Height(s.tip)) = t
  BY <1>1, <1>4, <1>5, <1>6 DEF AddHeaders
<1>8. IsState(s) /\ ChainOf(n, s) /\ HeadersOf(n, s)
  BY DEF NodeGood
<1>9. /\ IsState(t) /\ t.index = s.index /\ t.tip = s.tip /\ t.heights = s.heights
      /\ t.orphans = s.orphans /\ t.compact = s.compact /\ t.rows = Over(s.rows, B)
      /\ t.atHeight = Over(s.atHeight, A) /\ t.heightOf = Over(s.heightOf, B)
  BY <1>6, <1>8 DEF IsState, Fields
<1>10. \A i \in 1..Len(q) : Level(n, best + i) = i - 1
  BY <1>1, <1>2, <1>3 DEF Level
<1>11. ASSUME NEW x \in DOMAIN A
       PROVE  x \in Nat /\ A[x] \in Branch /\ Height(A[x]) = Level(n, x)
  <2>1. x \in (best + 1)..(best + Len(q)) /\ A[x] = q[x - best]
    BY <1>5
  <2>2. x - best \in 1..Len(q) /\ x = best + (x - best) /\ x \in Nat
    BY <1>1, <1>3, <2>1
  <2>3. Level(n, best + (x - best)) = (x - best) - 1
    BY <1>10, <2>2
  <2> QED BY <1>3, <2>1, <2>2, <2>3
<1>12. ASSUME NEW b \in DOMAIN B
       PROVE  b \in Branch /\ B[b] \in Nat /\ B[b] \in DOMAIN A /\ Level(n, B[b]) = Height(b)
  <2>1. b \in Range(q) /\ B[b] = best + (CHOOSE i \in DOMAIN q : q[i] = b)
    BY <1>4
  <2>2. PICK i : i = CHOOSE j \in DOMAIN q : q[j] = b
    OBVIOUS
  <2>3. i \in DOMAIN q /\ q[i] = b
    BY <2>1, <2>2 DEF Range
  <2>4. i \in 1..Len(q) /\ B[b] = best + i /\ b \in Branch /\ Height(b) = i - 1
    BY <1>3, <2>1, <2>2, <2>3
  <2>5. best + i \in (best + 1)..(best + Len(q)) /\ best + i \in Nat
    BY <1>1, <1>3, <2>4
  <2>6. DOMAIN A = (best + 1)..(best + Len(q))
    BY <1>5
  <2>7. Level(n, best + i) = i - 1
    BY <1>10, <2>4
  <2> QED BY <2>4, <2>5, <2>6, <2>7
<1>13. HeadersOf(n, t)
  <2>1. DOMAIN t.rows = DOMAIN s.rows \cup DOMAIN B /\ t.index \subseteq DOMAIN t.rows
    BY <1>8, <1>9 DEF Over, HeadersOf
  <2>2. ASSUME NEW b \in DOMAIN t.rows
        PROVE  b \in Branch /\ t.rows[b] \in Nat /\ Level(n, t.rows[b]) = Height(b)
    <3>1. CASE b \in DOMAIN B
      <4>1. t.rows[b] = B[b]
        BY <1>9, <3>1 DEF Over
      <4> QED BY <1>12, <3>1, <4>1
    <3>2. CASE b \notin DOMAIN B
      <4>1. b \in DOMAIN s.rows /\ t.rows[b] = s.rows[b]
        BY <1>9, <2>1, <3>2 DEF Over
      <4> QED BY <1>8, <4>1 DEF HeadersOf
    <3> QED BY <3>1, <3>2
  <2>3. DOMAIN t.atHeight = DOMAIN s.atHeight \cup DOMAIN A
    BY <1>9 DEF Over
  <2>4. ASSUME NEW x \in DOMAIN t.atHeight
        PROVE  x \in Nat /\ t.atHeight[x] \in Branch /\ Height(t.atHeight[x]) = Level(n, x)
    <3>1. CASE x \in DOMAIN A
      <4>1. t.atHeight[x] = A[x]
        BY <1>9, <2>3, <3>1 DEF Over
      <4> QED BY <1>11, <3>1, <4>1
    <3>2. CASE x \notin DOMAIN A
      <4>1. x \in DOMAIN s.atHeight /\ t.atHeight[x] = s.atHeight[x]
        BY <1>9, <2>3, <3>2 DEF Over
      <4> QED BY <1>8, <4>1 DEF HeadersOf
    <3> QED BY <3>1, <3>2
  <2>5. ASSUME NEW b \in DOMAIN t.heightOf
        PROVE  b \in Branch /\ t.heightOf[b] \in DOMAIN t.atHeight /\ Level(n, t.heightOf[b]) = Height(b)
    <3>1. CASE b \in DOMAIN B
      <4>1. t.heightOf[b] = B[b]
        BY <1>9, <3>1 DEF Over
      <4> QED BY <1>12, <2>3, <3>1, <4>1
    <3>2. CASE b \notin DOMAIN B
      <4>1. b \in DOMAIN s.heightOf /\ t.heightOf[b] = s.heightOf[b]
        BY <1>9, <3>2 DEF Over
      <4> QED BY <1>8, <2>3, <4>1 DEF HeadersOf
    <3> QED BY <3>1, <3>2
  <2> QED BY <2>1, <2>2, <2>4, <2>5 DEF HeadersOf
<1> QED BY <1>7, <1>9, <1>13, HeadersKept

-----------------------------------------------------------------------------
(* The handlers                                                              *)

\* A handler that changes nothing and answers.
LEMMA ReplyGood ==
  ASSUME NEW n, NEW s, NodeGood(n, s), NEW p, NEW m, MsgGood(n, p, m), NEW r \in Reply(s, p, <<m>>)
  PROVE  ResultGood(n, r)
<1>1. r = [s |-> s, out |-> To(p, <<m>>)]
  BY DEF Reply
<1>2. OutGood(n, To(p, <<m>>))
  BY OneGood, ToGood
<1> QED BY <1>1, <1>2 DEF ResultGood

\* A handler that changes nothing.
LEMMA DoneGood ==
  ASSUME NEW n, NEW s, NodeGood(n, s), NEW r \in Done(s)
  PROVE  ResultGood(n, r)
  BY SilenceGood DEF Done, ResultGood

\* GetBlock asks for one block.
LEMMA GetBlockGood ==
  ASSUME NEW n, NEW s, NodeGood(n, s), NEW p, NEW b \in New, NEW r \in Reply(s, p, GetBlock(b))
  PROVE  ResultGood(n, r)
<1>1. PICK m : m = [type |-> "getdata", kind |-> "block", hash |-> Raw(b)]
  OBVIOUS
<1>2. MsgGood(n, p, m)
  BY <1>1 DEF MsgGood, Raw
<1>3. GetBlock(b) = <<m>>
  BY <1>1 DEF GetBlock
<1>4. r \in Reply(s, p, <<m>>)
  BY <1>3
<1> QED BY <1>2, <1>4, ReplyGood

\* inv: the node asks for what it does not know.
LEMMA InvGood ==
  ASSUME NEW n, NEW p, NEW s, NodeGood(n, s), NEW m, m.type = "inv", MsgGood(p, n, m),
         NEW r \in OnInv(n, p, m, s)
  PROVE  ResultGood(n, r)
<1>1. PICK g : g = [type |-> "getdata", kind |-> m.kind, hash |-> m.hash]
  OBVIOUS
<1>2. MsgGood(n, p, g)
  BY <1>1 DEF MsgGood
<1>3. PICK key : key = IF m.kind = "tx" THEN m.hash ELSE Flip(m.hash)
  OBVIOUS
<1>4. \/ r \in Done(s)
      \/ r \in Done([s EXCEPT !.knownTx = Remember(@, key[1])])
      \/ r \in Done([s EXCEPT !.known = Remember(@, key[1])])
      \/ r \in Reply(s, p, <<g>>)
  BY <1>1, <1>3 DEF OnInv
<1>5. ASSUME r \in Done([s EXCEPT !.knownTx = Remember(@, key[1])]) PROVE ResultGood(n, r)
  <2>1. PICK v : v = Remember(s.knownTx, key[1])
    OBVIOUS
  <2>2. NodeGood(n, [s EXCEPT !.knownTx = v])
    BY KnownKept
  <2>3. r \in Done([s EXCEPT !.knownTx = v])
    BY <1>5, <2>1
  <2> QED BY <2>2, <2>3, DoneGood
<1>6. ASSUME r \in Done([s EXCEPT !.known = Remember(@, key[1])]) PROVE ResultGood(n, r)
  <2>1. PICK v : v = Remember(s.known, key[1])
    OBVIOUS
  <2>2. NodeGood(n, [s EXCEPT !.known = v])
    BY KnownKept
  <2>3. r \in Done([s EXCEPT !.known = v])
    BY <1>6, <2>1
  <2> QED BY <2>2, <2>3, DoneGood
<1> QED BY <1>2, <1>4, <1>5, <1>6, ReplyGood, DoneGood

\* A transaction is taken and announced.
LEMMA TxGood ==
  ASSUME NEW n, NEW p, NEW s, NodeGood(n, s), NEW m, NEW r \in OnTx(n, p, m, s)
  PROVE  ResultGood(n, r)
<1>1. CASE r \in Done(s)
  BY <1>1, DoneGood
<1>2. CASE r \notin Done(s)
  <2>1. PICK v : v = s.pool \cup {m.tx}
    OBVIOUS
  <2>2. PICK w : w = Remember(s.knownTx, m.tx)
    OBVIOUS
  <2>3. r = [s |-> [s EXCEPT !.pool = v, !.knownTx = w], out |-> TxAnnouncement(n, m.tx, p)]
    BY <1>2, <2>1, <2>2 DEF OnTx
  <2>4. PICK t : t = [s EXCEPT !.pool = v]
    OBVIOUS
  <2>5. NodeGood(n, t)
    BY <2>4, KnownKept
  <2>6. NodeGood(n, [t EXCEPT !.knownTx = w])
    BY <2>5, KnownKept
  <2>7. [s EXCEPT !.pool = v, !.knownTx = w] = [t EXCEPT !.knownTx = w]
    BY <2>4
  <2>8. OutGood(n, TxAnnouncement(n, m.tx, p))
    <3>1. PICK g : g = [type |-> "inv", kind |-> "tx", hash |-> <<m.tx, "hex">>]
      OBVIOUS
    <3>2. ASSUME NEW q \in Node PROVE ListGood(n, q, TxAnnouncement(n, m.tx, p)[q])
      <4>1. MsgGood(n, q, g)
        BY <3>1 DEF MsgGood
      <4>2. ListGood(n, q, <<g>>) /\ ListGood(n, q, <<>>)
        BY <4>1, OneGood, NoneGood
      <4>3. TxAnnouncement(n, m.tx, p)[q] \in {<<g>>, <<>>}
        BY <3>1 DEF TxAnnouncement
      <4> QED BY <4>2, <4>3
    <3> QED BY <3>2 DEF OutGood, TxAnnouncement
  <2> QED BY <2>3, <2>6, <2>7, <2>8 DEF ResultGood
<1> QED BY <1>1, <1>2

\* block: it is accepted or known.
LEMMA BlockGood ==
  ASSUME OneBranch, NEW n \in Node, NEW p, NEW s, NodeGood(n, s), NEW m, m.block \in New,
         NEW r \in OnBlock(n, p, m, s)
  PROVE  ResultGood(n, r)
<1>1. NodeGood(n, Resolved(s, m.block))
  BY ResolvedKept
<1>2. ResultGood(n, Accept(n, Resolved(s, m.block), m.block))
  BY <1>1, AcceptGood
<1>3. PICK a : a = Accept(n, Resolved(s, m.block), m.block)
  OBVIOUS
<1>4. r \in Done(Resolved(s, m.block)) \/ r = [s |-> a.s, out |-> a.out]
  BY <1>3 DEF OnBlock
<1>5. ASSUME r = [s |-> a.s, out |-> a.out] PROVE ResultGood(n, r)
  BY <1>2, <1>3, <1>5 DEF ResultGood
<1> QED BY <1>1, <1>4, <1>5, DoneGood

\* cmpctblock: known, put together from the pool, or asked for.
LEMMA CmpctBlockGood ==
  ASSUME OneBranch, NEW n \in Node, NEW p, NEW s, NodeGood(n, s), NEW m, m.block \in New,
         NEW r \in OnCmpctBlock(n, p, m, s)
  PROVE  ResultGood(n, r)
<1>1. PICK b \in New : b = m.block
  OBVIOUS
<1>2. PICK a : a = Accept(n, s, b)
  OBVIOUS
<1>3. NodeGood(n, a.s) /\ OutGood(n, a.out)
  BY <1>2, AcceptGood DEF ResultGood
<1>4. PICK g : g = [type |-> "getblocktxn", block |-> b, wanted |-> Missing(s, b)]
  OBVIOUS
<1>5. PICK v : v = Remember(s.known, b)
  OBVIOUS
<1>6. \/ r \in Done(Counted(s, p, TRUE))
      \/ r \in Done(Counted([s EXCEPT !.known = v], p, TRUE))
      \/ r = [s |-> Counted(Resolved(a.s, b), p, TRUE), out |-> a.out]
      \/ r \in Reply(Counted(Waiting(a.s, p, b), p, FALSE), p, GetBlock(b))
      \/ r \in Reply(Waiting(s, p, b), p, <<g>>)
      \/ r \in Reply(Counted(Waiting(s, p, b), p, FALSE), p, GetBlock(b))
  BY <1>1, <1>2, <1>4, <1>5 DEF OnCmpctBlock
<1>7. ASSUME r \in Done(Counted(s, p, TRUE)) PROVE ResultGood(n, r)
  BY <1>7, CountedKept, DoneGood
<1>8. ASSUME r \in Done(Counted([s EXCEPT !.known = v], p, TRUE)) PROVE ResultGood(n, r)
  <2>1. NodeGood(n, [s EXCEPT !.known = v])
    BY KnownKept
  <2>2. NodeGood(n, Counted([s EXCEPT !.known = v], p, TRUE))
    BY <2>1, CountedKept
  <2> QED BY <1>8, <2>2, DoneGood
<1>9. ASSUME r = [s |-> Counted(Resolved(a.s, b), p, TRUE), out |-> a.out] PROVE ResultGood(n, r)
  <2>1. NodeGood(n, Resolved(a.s, b))
    BY <1>3, ResolvedKept
  <2>2. NodeGood(n, Counted(Resolved(a.s, b), p, TRUE))
    BY <2>1, CountedKept
  <2> QED BY <1>3, <1>9, <2>2 DEF ResultGood
<1>10. ASSUME r \in Reply(Counted(Waiting(a.s, p, b), p, FALSE), p, GetBlock(b)) PROVE ResultGood(n, r)
  <2>1. NodeGood(n, Waiting(a.s, p, b))
    BY <1>3, WaitingKept
  <2>2. NodeGood(n, Counted(Waiting(a.s, p, b), p, FALSE))
    BY <2>1, CountedKept
  <2> QED BY <1>10, <2>2, GetBlockGood
<1>11. ASSUME r \in Reply(Waiting(s, p, b), p, <<g>>) PROVE ResultGood(n, r)
  <2>1. NodeGood(n, Waiting(s, p, b))
    BY WaitingKept
  <2>2. MsgGood(n, p, g)
    BY <1>4 DEF MsgGood
  <2> QED BY <1>11, <2>1, <2>2, ReplyGood
<1>12. ASSUME r \in Reply(Counted(Waiting(s, p, b), p, FALSE), p, GetBlock(b)) PROVE ResultGood(n, r)
  <2>1. NodeGood(n, Waiting(s, p, b))
    BY WaitingKept
  <2>2. NodeGood(n, Counted(Waiting(s, p, b), p, FALSE))
    BY <2>1, CountedKept
  <2> QED BY <1>12, <2>2, GetBlockGood
<1> QED BY <1>6, <1>7, <1>8, <1>9, <1>10, <1>11, <1>12

\* getblocktxn: the transactions wanted.
LEMMA GetBlockTxnGood ==
  ASSUME NEW n, NEW p, NEW s, NodeGood(n, s), NEW m, m.block \in New,
         NEW r \in OnGetBlockTxn(n, p, m, s)
  PROVE  ResultGood(n, r)
<1>1. CASE m.block \notin s.index
  BY <1>1, DoneGood DEF OnGetBlockTxn
<1>2. CASE m.block \in s.index
  <2>1. PICK v : r = [s |-> s, out |-> To(p, <<[type |-> "blocktxn", block |-> m.block, txs |-> v]>>)]
    BY <1>2 DEF OnGetBlockTxn
  <2>2. PICK g : g = [type |-> "blocktxn", block |-> m.block, txs |-> v]
    OBVIOUS
  <2>3. MsgGood(n, p, g)
    BY <2>2 DEF MsgGood
  <2>4. OutGood(n, To(p, <<g>>))
    BY <2>3, OneGood, ToGood
  <2> QED BY <2>1, <2>2, <2>4 DEF ResultGood
<1> QED BY <1>1, <1>2

\* blocktxn: the block is put together, asked for or dropped.
LEMMA BlockTxnGood ==
  ASSUME OneBranch, NEW n \in Node, NEW p, NEW s, NodeGood(n, s), NEW m, m.block \in New,
         NEW r \in OnBlockTxn(n, p, m, s)
  PROVE  ResultGood(n, r)
<1>1. PICK b \in New : b = m.block
  OBVIOUS
<1>2. PICK a : a = Accept(n, s, b)
  OBVIOUS
<1>3. NodeGood(n, a.s) /\ OutGood(n, a.out)
  BY <1>2, AcceptGood DEF ResultGood
<1>4. PICK v : v = s.timer \cup {b}
  OBVIOUS
<1>5. \/ r \in Done(s)
      \/ r \in Reply(Counted([s EXCEPT !.timer = v], p, FALSE), p, GetBlock(b))
      \/ r = [s |-> Counted(Resolved(a.s, b), p, a.ok), out |-> a.out]
      \/ r \in Done(Counted(Resolved(s, b), p, FALSE))
  BY <1>1, <1>2, <1>4 DEF OnBlockTxn
<1>6. ASSUME r \in Reply(Counted([s EXCEPT !.timer = v], p, FALSE), p, GetBlock(b)) PROVE ResultGood(n, r)
  <2>1. NodeGood(n, [s EXCEPT !.timer = v])
    BY KnownKept
  <2>2. NodeGood(n, Counted([s EXCEPT !.timer = v], p, FALSE))
    BY <2>1, CountedKept
  <2> QED BY <1>6, <2>2, GetBlockGood
<1>7. ASSUME r = [s |-> Counted(Resolved(a.s, b), p, a.ok), out |-> a.out] PROVE ResultGood(n, r)
  <2>1. NodeGood(n, Resolved(a.s, b))
    BY <1>3, ResolvedKept
  <2>2. NodeGood(n, Counted(Resolved(a.s, b), p, a.ok))
    BY <2>1, CountedKept
  <2> QED BY <1>3, <1>7, <2>2 DEF ResultGood
<1>8. ASSUME r \in Done(Counted(Resolved(s, b), p, FALSE)) PROVE ResultGood(n, r)
  <2>1. NodeGood(n, Resolved(s, b))
    BY ResolvedKept
  <2>2. NodeGood(n, Counted(Resolved(s, b), p, FALSE))
    BY <2>1, CountedKept
  <2> QED BY <1>8, <2>2, DoneGood
<1> QED BY <1>5, <1>6, <1>7, <1>8, DoneGood

\* getdata: the block or transaction, if it is there.
LEMMA GetDataGood ==
  ASSUME NEW n, NEW p, NEW s, NodeGood(n, s), NEW m, m.type = "getdata", MsgGood(p, n, m),
         NEW r \in OnGetData(n, p, m, s)
  PROVE  ResultGood(n, r)
<1>1. PICK g : g = [type |-> "tx", tx |-> m.hash[1]]
  OBVIOUS
<1>2. PICK h : h = [type |-> "block", block |-> m.hash[1]]
  OBVIOUS
<1>3. MsgGood(n, p, g)
  BY <1>1 DEF MsgGood
<1>4. ASSUME m.kind = "block" PROVE MsgGood(n, p, h)
  BY <1>2, <1>4 DEF MsgGood
<1>5. \/ r \in Reply(s, p, <<g>>)
      \/ m.kind = "block" /\ r \in Reply(s, p, <<h>>)
      \/ r \in Done(s)
  BY <1>1, <1>2 DEF OnGetData
<1> QED BY <1>3, <1>4, <1>5, ReplyGood, DoneGood

\* No hash of a locator is found, and the answer starts at genesis.
LEMMA FromTheStart ==
  ASSUME OneBranch, NEW n, NEW s, NodeGood(n, s), NEW locator,
         \A i \in DOMAIN locator : locator[i][2] = "raw"
  PROVE  /\ StartHeight(s, locator) = 0
         /\ \E k \in Nat : k <= Height(s.tip) + 1 /\ Served(s, locator) = 0..(k - 1)
                           /\ Cardinality(Served(s, locator)) = k
<1>1. ASSUME NEW i \in DOMAIN locator PROVE HeightFor(s, locator[i]) = {}
  <2>1. ASSUME NEW c PROVE Hex(c) # locator[i]
    <3>1. Hex(c)[2] = "hex" /\ locator[i][2] = "raw"
      BY DEF Hex
    <3> QED BY <3>1
  <2> QED BY <2>1 DEF HeightFor
<1>2. StartHeight(s, locator) = 0
  BY <1>1 DEF StartHeight
<1>3. Height(s.tip) \in Nat /\ HeadersLimit \in Nat \ {0}
  BY Heights, RelayAssumption DEF NodeGood, ChainOf, RelayAssumption
<1>4. PICK k \in Nat : k = IF HeadersLimit <= Height(s.tip) + 1 THEN HeadersLimit ELSE Height(s.tip) + 1
  BY <1>3
<1>5. k <= Height(s.tip) + 1 /\ k # 0
  BY <1>3, <1>4
<1>6. Served(s, locator) = {h \in 0..Height(s.tip) : 0 <= h /\ h < 0 + HeadersLimit}
  BY <1>2 DEF Served
<1>7. Served(s, locator) = 0..(k - 1)
  BY <1>3, <1>4, <1>6
<1>8. Cardinality(0..(k - 1)) = k
  <2>1. 0 \in Int /\ k - 1 \in Int /\ ~(0 > k - 1)
    BY <1>5
  <2>2. Cardinality(0..(k - 1)) = (k - 1) - 0 + 1
    BY <2>1, FS_Interval
  <2> QED BY <2>2
<1> QED BY <1>2, <1>5, <1>7, <1>8

\* getheaders: the headers of the active chain from genesis on.
LEMMA GetHeadersGood ==
  ASSUME OneBranch, NEW n \in Node, NEW p, NEW s, NodeGood(n, s), NEW m, m.type = "getheaders",
         MsgGood(p, n, m), NEW r \in OnGetHeaders(n, p, m, s)
  PROVE  ResultGood(n, r)
<1>1. p \in Low /\ \A i \in DOMAIN m.locator : m.locator[i][2] = "raw"
  BY DEF MsgGood
<1>2. StartHeight(s, m.locator) = 0
  BY <1>1, FromTheStart
<1>3. PICK k \in Nat : k <= Height(s.tip) + 1 /\ Served(s, m.locator) = 0..(k - 1)
                       /\ Cardinality(Served(s, m.locator)) = k
  BY <1>1, FromTheStart
<1>4. PICK t : t = CacheHeaders(s, Served(s, m.locator))
  OBVIOUS
<1>5. Height(s.tip) \in Nat
  BY Heights DEF NodeGood, ChainOf
<1>6. Served(s, m.locator) \subseteq 0..Height(s.tip)
  BY <1>3, <1>5
<1>7. NodeGood(n, t) /\ t.tip = s.tip
  BY <1>4, <1>6, CachedGood
<1>8. PICK q : q = [i \in 1..k |-> CHOOSE b \in get_header(t, 0 + i - 1) : TRUE]
  OBVIOUS
<1>9. ASSUME NEW i \in 1..k PROVE q[i] \in Branch /\ Height(q[i]) = i - 1
  <2>1. 0 + i - 1 = i - 1 /\ i - 1 \in 0..Height(t.tip)
    BY <1>3, <1>5, <1>7
  <2>2. get_header(t, i - 1) = {Main(t, i - 1)}
    BY <1>7, <2>1, ServesMain
  <2>3. Main(t, i - 1) \in Branch /\ Height(Main(t, i - 1)) = i - 1
    BY <1>7, <2>1, MainIs DEF NodeGood
  <2>4. q[i] = CHOOSE b \in get_header(t, i - 1) : TRUE
    BY <1>8, <2>1
  <2>5. q[i] = Main(t, i - 1)
    BY <2>2, <2>4
  <2> QED BY <2>3, <2>5
<1>10. Len(q) = k /\ DOMAIN q = 1..k
  BY <1>8
<1>11. FromGenesis(q)
  BY <1>9, <1>10 DEF FromGenesis
<1>12. PICK g : g = [type |-> "headers", headers |-> q]
  OBVIOUS
<1>13. MsgGood(n, p, g)
  BY <1>1, <1>11, <1>12 DEF MsgGood
<1>14. r = [s |-> t, out |-> To(p, <<g>>)]
  <2>1. PICK from, count : from = StartHeight(s, m.locator) /\ count = Cardinality(Served(s, m.locator))
    OBVIOUS
  <2>2. r = [s |-> t, out |-> To(p, <<[type |-> "headers", headers |->
               [i \in 1..count |-> CHOOSE b \in get_header(t, from + i - 1) : TRUE]]>>)]
    BY <1>4, <2>1 DEF OnGetHeaders
  <2>3. from = 0 /\ count = k
    BY <1>2, <1>3, <2>1
  <2>4. [i \in 1..count |-> CHOOSE b \in get_header(t, from + i - 1) : TRUE] = q
    BY <1>8, <2>3
  <2> QED BY <1>12, <2>2, <2>4
<1>15. OutGood(n, To(p, <<g>>))
  BY <1>13, OneGood, ToGood
<1> QED BY <1>7, <1>14, <1>15 DEF ResultGood

\* What a node asks for headers with.
LEMMA LocatorGood ==
  ASSUME OneBranch, NEW n \in Low, NEW p, NEW s, NodeGood(n, s)
  PROVE  MsgGood(n, p, [type |-> "getheaders", locator |-> Locator(s)])
<1>1. PICK h \in Nat : h = Height(s.tip)
  BY Heights DEF NodeGood, ChainOf
<1>2. PICK q : q = [i \in 1..(h + 1) |-> Raw(Main(s, h + 1 - i))]
  OBVIOUS
<1>3. PICK e : e = <<Raw(Genesis)>>
  OBVIOUS
<1>4. Locator(s) = q \o e
  BY <1>1, <1>2, <1>3 DEF Locator
<1> DEFINE X == {q[i] : i \in 1..(h + 1)} \cup {Raw(Genesis)}
<1>5. q \in Seq(X) /\ e \in Seq(X) /\ Len(q) = h + 1 /\ Len(e) = 1 /\ e[1] = Raw(Genesis)
  <2>1. q \in [1..(h + 1) -> X] /\ h + 1 \in Nat
    BY <1>2
  <2>2. q \in Seq(X) /\ Len(q) = h + 1
    <3> HIDE DEF X
    <3> QED BY <2>1, SeqDef
  <2>3. e \in Seq(X) /\ Len(e) = 1 /\ e[1] = Raw(Genesis)
    <3>1. Raw(Genesis) \in X
      OBVIOUS
    <3> HIDE DEF X
    <3> QED BY <1>3, <3>1
  <2> QED BY <2>2, <2>3
<1> HIDE DEF X
<1>6. /\ q \o e \in Seq(X) /\ Len(q \o e) = h + 2
      /\ \A i \in 1..(h + 2) : (q \o e)[i] = IF i <= h + 1 THEN q[i] ELSE e[i - (h + 1)]
  <2>1. /\ q \o e \in Seq(X) /\ Len(q \o e) = Len(q) + Len(e)
        /\ \A i \in 1..(Len(q) + Len(e)) : (q \o e)[i] = IF i <= Len(q) THEN q[i] ELSE e[i - Len(q)]
    BY <1>5, ConcatProperties
  <2>2. Len(q) + Len(e) = h + 2
    BY <1>5
  <2> QED BY <1>5, <2>1, <2>2
<1>7. ASSUME NEW i \in DOMAIN (q \o e) PROVE (q \o e)[i][2] = "raw"
  <2>1. i \in 1..(h + 2)
    BY <1>6, LenProperties
  <2>2. CASE i <= h + 1
    <3>1. i \in 1..(h + 1) /\ (q \o e)[i] = q[i]
      BY <1>6, <2>1, <2>2
    <3> QED BY <1>2, <3>1 DEF Raw
  <2>3. CASE ~(i <= h + 1)
    <3>1. i - (h + 1) = 1 /\ (q \o e)[i] = e[i - (h + 1)]
      BY <1>6, <2>1, <2>3
    <3> QED BY <1>5, <3>1 DEF Raw
  <2> QED BY <2>2, <2>3
<1> QED BY <1>4, <1>7 DEF MsgGood

\* No header above the tip is found, so no block is asked for.
LEMMA NothingRequested ==
  ASSUME OneBranch, NEW n \in Node, NEW p \in Peers(n), NEW s, NodeGood(n, s),
         NEW r \in RequestBlocks(s, p)
  PROVE  ResultGood(n, r)
<1>1. PICK best \in Nat : best = Height(s.tip)
  BY Heights DEF NodeGood, ChainOf
<1>2. PICK top \in Nat : top = s.heights[p]
  <2>1. p \in Node /\ Tips[p] \in Branch
    BY DEF Peers, OneBranch
  <2> QED BY <2>1, Heights DEF NodeGood, ChainOf
<1>3. PICK W : W = {h \in (best + 1)..top : get_header(s, h) # {}}
  OBVIOUS
<1>4. W = {}
  <2>1. ASSUME NEW h \in (best + 1)..top PROVE get_header(s, h) = {}
    <3>1. h > Height(s.tip)
      BY <1>1
    <3> QED BY <3>1 DEF get_header
  <2> QED BY <1>3, <2>1
<1>5. PICK q : q = InOrder({})
  OBVIOUS
<1>6. DOMAIN q = {}
  <2>1. Cardinality({}) = 0
    BY FS_EmptySet
  <2>2. [i \in 1..0 |-> 0] \in [1..0 -> {}]
    OBVIOUS
  <2>3. \A i, j \in 1..0 : i < j => [k \in 1..0 |-> 0][i] < [k \in 1..0 |-> 0][j]
    OBVIOUS
  <2>4. q \in [1..0 -> {}]
    BY <1>5, <2>1, <2>2, <2>3 DEF InOrder
  <2> QED BY <2>4
<1>7. PICK as, e : r = [s |-> [s EXCEPT !.asked = as], out |-> To(p, e)] /\ e = <<>>
  <2> DEFINE hash(h) == Raw(CHOOSE b \in get_header(s, h) : TRUE)
             msgs == [i \in DOMAIN q |-> [type |-> "getdata", kind |-> "block", hash |-> hash(q[i])]]
             as == s.asked \cup {hash(h) : h \in W}
  <2>1. r = [s |-> [s EXCEPT !.asked = as], out |-> To(p, msgs)]
    BY <1>1, <1>2, <1>3, <1>4, <1>5 DEF RequestBlocks
  <2>2. msgs = <<>>
    BY <1>6
  <2> HIDE DEF msgs, as
  <2> QED BY <2>1, <2>2
<1>8. NodeGood(n, [s EXCEPT !.asked = as])
  BY KnownKept
<1>9. OutGood(n, To(p, e))
  BY <1>7, NoneGood, ToGood
<1> QED BY <1>7, <1>8, <1>9 DEF ResultGood

\* headers: they are recorded, and more or no blocks are asked for.
LEMMA OnHeadersGood ==
  ASSUME OneBranch, NEW n \in Node, NEW p \in Peers(n), NEW s, NodeGood(n, s), NEW m,
         m.type = "headers", MsgGood(p, n, m), NEW r \in OnHeaders(n, p, m, s)
  PROVE  ResultGood(n, r)
<1>1. n \in Low /\ FromGenesis(m.headers)
  BY DEF MsgGood
<1>2. Height(s.tip) \in Nat
  BY Heights DEF NodeGood, ChainOf
<1>3. PICK u : u = CacheHeaders(s, {Height(s.tip)})
  OBVIOUS
<1>4. NodeGood(n, u) /\ u.tip = s.tip
  <2>1. {Height(s.tip)} \subseteq 0..Height(s.tip)
    BY <1>2
  <2> QED BY <1>3, <2>1, CachedGood
<1>5. PICK t : t = AddHeaders(u, m.headers, Height(s.tip))
  OBVIOUS
<1>6. NodeGood(n, t)
  <2>1. NodeGood(n, AddHeaders(u, m.headers, Height(u.tip)))
    BY <1>1, <1>4, AddedGood
  <2> QED BY <1>4, <1>5, <2>1
<1>7. PICK g : g = [type |-> "getheaders", locator |-> Locator(t)]
  OBVIOUS
<1>8. MsgGood(n, p, g)
  BY <1>1, <1>6, <1>7, LocatorGood
<1>9. r \in Done(s) \/ r \in Reply(t, p, <<g>>) \/ r \in RequestBlocks(t, p)
  BY <1>3, <1>5, <1>7 DEF OnHeaders
<1> QED BY <1>6, <1>8, <1>9, DoneGood, ReplyGood, NothingRequested

\* Whatever arrives.
LEMMA HandleGood ==
  ASSUME OneBranch, NEW n \in Node, NEW p \in Peers(n), NEW s, NodeGood(n, s), NEW m,
         MsgGood(p, n, m), NEW r \in Handle(n, p, m, s)
  PROVE  ResultGood(n, r)
<1>1. CASE m.type = "inv"
  <2>1. r \in OnInv(n, p, m, s)
    BY <1>1 DEF Handle
  <2> QED BY <1>1, <2>1, InvGood
<1>2. CASE m.type = "tx"
  <2>1. r \in OnTx(n, p, m, s)
    BY <1>2 DEF Handle
  <2> QED BY <2>1, TxGood
<1>3. CASE m.type = "block"
  <2>1. r \in OnBlock(n, p, m, s) /\ m.block \in New
    BY <1>3 DEF Handle, MsgGood
  <2> QED BY <2>1, BlockGood
<1>4. CASE m.type = "cmpctblock"
  <2>1. r \in OnCmpctBlock(n, p, m, s) /\ m.block \in New
    BY <1>4 DEF Handle, MsgGood
  <2> QED BY <2>1, CmpctBlockGood
<1>5. CASE m.type = "getblocktxn"
  <2>1. r \in OnGetBlockTxn(n, p, m, s) /\ m.block \in New
    BY <1>5 DEF Handle, MsgGood
  <2> QED BY <2>1, GetBlockTxnGood
<1>6. CASE m.type = "blocktxn"
  <2>1. r \in OnBlockTxn(n, p, m, s) /\ m.block \in New
    BY <1>6 DEF Handle, MsgGood
  <2> QED BY <2>1, BlockTxnGood
<1>7. CASE m.type = "getdata"
  <2>1. r \in OnGetData(n, p, m, s)
    BY <1>7 DEF Handle
  <2> QED BY <1>7, <2>1, GetDataGood
<1>8. CASE m.type = "getheaders"
  <2>1. r \in OnGetHeaders(n, p, m, s)
    BY <1>8 DEF Handle
  <2> QED BY <1>8, <2>1, GetHeadersGood
<1>9. CASE m.type = "headers"
  <2>1. r \in OnHeaders(n, p, m, s)
    BY <1>9 DEF Handle
  <2> QED BY <1>9, <2>1, OnHeadersGood
<1>10. m.type \in {"inv", "tx", "block", "cmpctblock", "getblocktxn", "blocktxn", "getdata",
                   "getheaders", "headers"}
  BY DEF MsgGood
<1> QED BY <1>1, <1>2, <1>3, <1>4, <1>5, <1>6, <1>7, <1>8, <1>9, <1>10

-----------------------------------------------------------------------------
(* The network                                                               *)

\* The blocks that a node mines are on the branch, wherever it mines and
\* whatever transactions are submitted.
ServeNext == \E source \in Node : RelayNext(source, Tx, Branch)
ServeInit == \E compact \in BOOLEAN : RelayInit(Tips, compact)

\* The inductive invariant.
ServeInv ==
    /\ node = [n \in Node |-> node[n]]
    /\ \A n \in Node : NodeGood(n, node[n])
    /\ ChanGood(chan)
    /\ Old \subseteq mined

\* One node moves.
LEMMA NodeMoves ==
  ASSUME ServeInv, NEW n \in Node, NEW s, NodeGood(n, s), node' = [node EXCEPT ![n] = s],
         ChanGood(chan'), mined \subseteq mined'
  PROVE  ServeInv'
<1>1. node' = [k \in Node |-> node'[k]]
  BY DEF ServeInv
<1>2. ASSUME NEW k \in Node PROVE NodeGood(k, node'[k])
  <2>1. CASE k = n
    <3>1. node'[k] = s
      BY <2>1 DEF ServeInv
    <3> QED BY <2>1, <3>1
  <2>2. CASE k # n
    <3>1. node'[k] = node[k]
      BY <2>2 DEF ServeInv
    <3> QED BY <3>1 DEF ServeInv
  <2> QED BY <2>1, <2>2
<1>3. Old \subseteq mined'
  BY DEF ServeInv
<1> QED BY <1>1, <1>2, <1>3 DEF ServeInv

\* A message is read and handled.
LEMMA ReceiveInv ==
  ASSUME OneBranch, ServeInv, NEW n, NEW p, <<n, p>> \in Pairs, Receive(n, p)
  PROVE  ServeInv'
<1>1. n \in Node /\ p \in Node /\ p \in Peers(n) /\ <<p, n>> \in Pairs
  <2>1. {n, p} \in Links /\ n \in Node /\ p \in Node
    BY DEF Pairs
  <2>2. {p, n} = {n, p}
    OBVIOUS
  <2> QED BY <2>1, <2>2 DEF Pairs, Peers
<1>2. NodeGood(n, node[n]) /\ ChanGood(chan)
  BY <1>1 DEF ServeInv
<1>3. chan[<<p, n>>] # <<>>
  BY DEF Receive
<1>4. ChanGood(Take(n, p)) /\ MsgGood(p, n, Head(chan[<<p, n>>]))
  BY <1>1, <1>2, <1>3, TookGood
<1>5. PICK m : m = Head(chan[<<p, n>>])
  OBVIOUS
<1>6. PICK r : /\ r \in Done(node[n]) \/ r \in Handle(n, p, m, node[n])
               /\ node' = [node EXCEPT ![n] = r.s]
               /\ chan' = Send(Take(n, p), n, r.out)
  BY <1>5 DEF Receive
<1>7. ResultGood(n, r)
  BY <1>1, <1>2, <1>4, <1>5, <1>6, DoneGood, HandleGood
<1>8. NodeGood(n, r.s) /\ OutGood(n, r.out)
  BY <1>7 DEF ResultGood
<1>9. ChanGood(chan')
  BY <1>4, <1>6, <1>8, SendGood
<1>10. mined' = mined
  BY DEF Receive
<1> QED BY <1>1, <1>6, <1>8, <1>9, <1>10, NodeMoves

\* A block is mined: it was not there before.
LEMMA MineInv ==
  ASSUME OneBranch, ServeInv, NEW n \in Node, NEW b \in Branch, Mine(n, b)
  PROVE  ServeInv'
<1>1. b \in New
  BY DEF Mine, ServeInv, New
<1>2. NodeGood(n, node[n]) /\ ChanGood(chan)
  BY DEF ServeInv
<1>3. PICK r : r = Accept(n, node[n], b)
  OBVIOUS
<1>4. NodeGood(n, r.s) /\ OutGood(n, r.out)
  BY <1>1, <1>2, <1>3, AcceptGood DEF ResultGood
<1>5. node' = [node EXCEPT ![n] = r.s] /\ chan' = Send(chan, n, r.out) /\ mined \subseteq mined'
  BY <1>3 DEF Mine
<1>6. ChanGood(chan')
  BY <1>2, <1>4, <1>5, SendGood
<1> QED BY <1>4, <1>5, <1>6, NodeMoves

\* A wallet submits a transaction.
LEMMA SubmitInv ==
  ASSUME OneBranch, ServeInv, NEW n \in Node, NEW t, SubmitTx(n, t)
  PROVE  ServeInv'
<1>1. NodeGood(n, node[n]) /\ ChanGood(chan)
  BY DEF ServeInv
<1>2. PICK r \in OnTx(n, n, [tx |-> t], node[n]) :
         node' = [node EXCEPT ![n] = r.s] /\ chan' = Send(chan, n, r.out)
  BY DEF SubmitTx
<1>3. ResultGood(n, r)
  BY <1>1, TxGood
<1>4. ChanGood(chan')
  BY <1>1, <1>2, <1>3, SendGood DEF ResultGood
<1>5. mined' = mined
  BY DEF SubmitTx
<1> QED BY <1>2, <1>3, <1>4, <1>5, NodeMoves DEF ResultGood

\* A pool loses an entry.
LEMMA LosesInv ==
  ASSUME OneBranch, ServeInv, NEW n \in Node, NEW t, PoolLoses(n, t)
  PROVE  ServeInv'
<1>1. NodeGood(n, node[n])
  BY DEF ServeInv
<1>2. PICK v : v = node[n].pool \ {t}
  OBVIOUS
<1>3. PICK s : s = [node[n] EXCEPT !.pool = v]
  OBVIOUS
<1>4. NodeGood(n, s)
  BY <1>1, <1>3, KnownKept
<1>5. node' = [node EXCEPT ![n] = s]
  BY <1>2, <1>3 DEF PoolLoses
<1>6. chan' = chan /\ mined' = mined
  BY DEF PoolLoses
<1>7. ChanGood(chan')
  BY <1>6 DEF ServeInv
<1> QED BY <1>4, <1>5, <1>6, <1>7, NodeMoves

\* A compact request times out.
LEMMA StaleInv ==
  ASSUME OneBranch, ServeInv, NEW n \in Node, NEW b, StaleCompact(n, b)
  PROVE  ServeInv'
<1>1. NodeGood(n, node[n]) /\ ChanGood(chan) /\ mined' = mined
  BY DEF ServeInv, StaleCompact
<1>2. PICK v : v = node[n].timer \ {b}
  OBVIOUS
<1>3. PICK s : s = [node[n] EXCEPT !.timer = v]
  OBVIOUS
<1>4. NodeGood(n, s)
  BY <1>1, <1>3, KnownKept
<1>5. PICK p : p = node[n].compact[b].peer
  OBVIOUS
<1>6. CASE b \in DOMAIN node[n].compact
  <2>1. b \in New
    BY <1>1, <1>6 DEF NodeGood, WaitsOf
  <2>2. node' = [node EXCEPT ![n] = Counted(s, p, FALSE)] /\ chan' = Send(chan, n, To(p, GetBlock(b)))
    BY <1>2, <1>3, <1>5, <1>6 DEF StaleCompact
  <2>3. NodeGood(n, Counted(s, p, FALSE))
    BY <1>4, CountedKept
  <2>4. OutGood(n, To(p, GetBlock(b)))
    <3>1. PICK r : r = [s |-> s, out |-> To(p, GetBlock(b))]
      OBVIOUS
    <3>2. r \in Reply(s, p, GetBlock(b))
      BY <3>1 DEF Reply
    <3>3. ResultGood(n, r)
      BY <1>4, <2>1, <3>2, GetBlockGood
    <3> QED BY <3>1, <3>3 DEF ResultGood
  <2>5. ChanGood(chan')
    BY <1>1, <2>2, <2>4, SendGood
  <2> QED BY <1>1, <2>2, <2>3, <2>5, NodeMoves
<1>7. CASE b \notin DOMAIN node[n].compact
  <2>1. node' = [node EXCEPT ![n] = s] /\ chan' = chan
    BY <1>2, <1>3, <1>7 DEF StaleCompact
  <2> QED BY <1>1, <1>4, <2>1, NodeMoves
<1> QED BY <1>6, <1>7

\* A sync round: only a node that is short of blocks asks.
LEMMA SyncInv ==
  ASSUME OneBranch, ServeInv, NEW n \in Node, SyncRound(n)
  PROVE  ServeInv'
<1>1. NodeGood(n, node[n]) /\ ChanGood(chan)
  BY DEF ServeInv
<1>2. n \in Low
  <2>1. PICK p \in Peers(n) : node[n].heights[p] > Height(node[n].tip)
    BY DEF SyncRound, Behind
  <2>2. p \in Node /\ Tips[p] \in Branch /\ node[n].heights[p] = Height(Tips[p])
    BY <1>1 DEF Peers, OneBranch, NodeGood, ChainOf
  <2>3. Height(Tips[p]) \in Nat /\ node[n].tip \in Branch /\ Height(node[n].tip) \in Nat
    BY <1>1, <2>2, Heights DEF NodeGood, ChainOf
  <2>4. Tips[p] \in Old
    BY <2>2, <2>3 DEF Old
  <2> QED BY <1>1, <2>1, <2>2, <2>3, <2>4 DEF NodeGood, ChainOf
<1>3. PICK p : chan' = Send(chan, n, To(p, <<[type |-> "getheaders", locator |-> Locator(node[n])]>>))
  BY DEF SyncRound
<1>4. PICK g : g = [type |-> "getheaders", locator |-> Locator(node[n])]
  OBVIOUS
<1>5. MsgGood(n, p, g)
  BY <1>1, <1>2, <1>4, LocatorGood
<1>6. OutGood(n, To(p, <<g>>))
  BY <1>5, OneGood, ToGood
<1>7. ChanGood(chan')
  BY <1>1, <1>3, <1>4, <1>6, SendGood
<1>8. node' = node /\ mined' = mined
  BY DEF SyncRound
<1> QED BY <1>7, <1>8 DEF ServeInv

\* A message is over the rate limit.
LEMMA LimitedInv ==
  ASSUME OneBranch, ServeInv, NEW n, NEW p, <<n, p>> \in Pairs, RateLimited(n, p)
  PROVE  ServeInv'
<1>1. <<p, n>> \in Pairs
  <2>1. {n, p} \in Links /\ n \in Node /\ p \in Node
    BY DEF Pairs
  <2>2. {p, n} = {n, p}
    OBVIOUS
  <2> QED BY <2>1, <2>2 DEF Pairs
<1>2. chan[<<p, n>>] # <<>> /\ ChanGood(chan)
  BY DEF RateLimited, ServeInv
<1>3. ChanGood(Take(n, p))
  BY <1>1, <1>2, TookGood
<1>4. node' = node /\ mined' = mined /\ chan' = Take(n, p)
  BY DEF RateLimited
<1> QED BY <1>3, <1>4 DEF ServeInv

\* Every step keeps the invariant.
LEMMA ServeInvStep ==
  ASSUME OneBranch, ServeInv, [ServeNext]_relayVars
  PROVE  ServeInv'
<1>1. ASSUME NEW p \in Pairs, Receive(p[1], p[2]) \/ RateLimited(p[1], p[2]) PROVE ServeInv'
  <2>1. <<p[1], p[2]>> \in Pairs
    BY DEF Pairs
  <2> QED BY <1>1, <2>1, ReceiveInv, LimitedInv
<1>2. ASSUME NEW source \in Node, NEW t, SubmitTx(source, t) PROVE ServeInv'
  BY <1>2, SubmitInv
<1>3. ASSUME NEW source \in Node, NEW b \in Branch, Mine(source, b) PROVE ServeInv'
  BY <1>3, MineInv
<1>4. ASSUME NEW n \in Node, NEW t, PoolLoses(n, t) PROVE ServeInv'
  BY <1>4, LosesInv
<1>5. ASSUME NEW n \in Node, NEW b, StaleCompact(n, b) PROVE ServeInv'
  BY <1>5, StaleInv
<1>6. ASSUME NEW n \in Node, SyncRound(n) PROVE ServeInv'
  BY <1>6, SyncInv
<1>7. CASE UNCHANGED relayVars
  BY <1>7 DEF relayVars, ServeInv
<1> QED BY <1>1, <1>2, <1>3, <1>4, <1>5, <1>6, <1>7 DEF ServeNext, RelayNext

\* The nodes start with their own paths and no headers recorded.
LEMMA ServeInitial ==
  ASSUME OneBranch, ServeInit
  PROVE  ServeInv
<1>1. PICK compact : RelayInit(Tips, compact)
  BY DEF ServeInit
<1>2. ASSUME NEW n \in Node PROVE NodeGood(n, node[n])
  <2>1. PICK s : s = node[n]
    OBVIOUS
  <2>2. s = StartState(n, Tips, compact)
    BY <1>1, <2>1 DEF RelayInit
  <2>3. Tips[n] \in Branch /\ Height(Tips[n]) \in Nat
    BY Heights DEF OneBranch
  <2>4. PICK ch : ch = Range(PathTo[Tips[n]])
    OBVIOUS
  <2>5. ch = {b \in Branch : Height(b) <= Height(Tips[n])}
    BY <2>3, <2>4, PathIs
  <2>6. /\ IsState(s) /\ s.index = ch /\ s.tip = Tips[n] /\ s.orphans = {} /\ s.compact = Nothing
        /\ s.heights = [p \in Peers(n) |-> Height(Tips[p])] /\ s.rows = [b \in ch |-> Height(b)]
        /\ s.atHeight = Nothing /\ s.heightOf = Nothing
    BY <2>2, <2>4 DEF StartState, IsState, Fields
  <2>7. DOMAIN Nothing = {}
    BY DEF Nothing
  <2>8. ChainOf(n, s)
    <3>1. ASSUME n \notin Low, NEW b \in Old PROVE Height(b) <= Height(s.tip)
      <4>1. Height(b) \in Nat
        BY Heights DEF Old
      <4> QED BY <2>3, <2>6, <3>1, <4>1 DEF Low
    <3> QED BY <2>3, <2>5, <2>6, <3>1 DEF ChainOf
  <2>9. WaitsOf(s)
    BY <2>6, <2>7, FS_EmptySet DEF WaitsOf
  <2>10. ASSUME NEW b \in ch PROVE b \in Branch /\ Height(b) \in Nat /\ Level(n, Height(b)) = Height(b)
    <3>1. b \in Branch /\ Height(b) <= Height(Tips[n]) /\ Height(b) \in Nat
      BY <2>5, Heights
    <3> QED BY <2>3, <3>1 DEF Level
  <2>11. HeadersOf(n, s)
    BY <2>6, <2>7, <2>10 DEF HeadersOf
  <2> QED BY <2>1, <2>6, <2>8, <2>9, <2>11 DEF NodeGood
<1>3. node = [n \in Node |-> node[n]]
  BY <1>1 DEF RelayInit
<1>4. ChanGood(chan)
  <2>1. chan = [p \in Pairs |-> <<>>]
    BY <1>1 DEF RelayInit
  <2> QED BY <2>1, NoneGood DEF ChanGood
<1>5. Old \subseteq mined
  <2> SUFFICES ASSUME NEW b \in Old PROVE b \in mined
    OBVIOUS
  <2>1. PICK n \in Node : Height(b) <= Height(Tips[n])
    BY DEF Old
  <2>2. b \in Range(PathTo[Tips[n]])
    BY <2>1, PathIs DEF Old, OneBranch
  <2> QED BY <1>1, <2>2 DEF RelayInit
<1> QED BY <1>2, <1>3, <1>4, <1>5 DEF ServeInv

\* While all blocks are of one branch, every node serves for each height of its
\* chain the header of its block there (ChainState.get_header), although a node
\* that is behind records the headers it is sent above its own tip, where they do
\* not belong: any number of nodes, links, blocks and batches of headers.
THEOREM AlwaysServesOwnChain ==
  ASSUME OneBranch
  PROVE  ServeInit /\ [][ServeNext]_relayVars => []ServesOwnChain
<1>1. ServeInit => ServeInv
  BY ServeInitial
<1>2. ServeInv /\ [ServeNext]_relayVars => ServeInv'
  BY ServeInvStep
<1>3. ServeInv => ServesOwnChain
  BY ServesMain DEF ServeInv, ServesOwnChain
<1> QED BY <1>1, <1>2, <1>3, PTL
=============================================================================
