------------------------------ MODULE Handshake ------------------------------
(***************************************************************************)
(* The handshakes of a TCP connection between two peers of this program,   *)
(* up to the extended handshakes: peer.ts, the parsers of                  *)
(* protocol/src/index.ts and the onPe3 and onHandshake of conn-pool.ts.    *)
(* A first attempt may be encrypted (PE/MSE), the next ones are plain.     *)
(*                                                                         *)
(* A stream is a sequence of tokens, each of which one parser is made for; *)
(* what matters of their lengths is whether a padding is long enough to    *)
(* fill a parser that is still armed.  TCP delivers any number of tokens   *)
(* as one write; hashes and searches are awaited.                          *)
(***************************************************************************)
EXTENDS Naturals, Sequences

CONSTANTS
    Keys,     \* the public keys: "key", and "key19" whose first byte is 19
    Setups,   \* the options tried, see Setup
    Splits,   \* TCP may deliver a part of what was pushed at once
    LongPads, \* paddings may be long enough to fill a parser
    Attempts  \* the connections of the outgoing peer, RECONNECT_WAIT

Sides == {"out", "in"}
Other(e) == IF e = "out" THEN "in" ELSE "out"

(* enableSecure, and the Fast bit of the handshake.                        *)
Setup == [secure : [Sides -> BOOLEAN], fast : [Sides -> BOOLEAN]]

ASSUME HandshakeAssumption == Keys \subseteq {"key", "key19"} /\ Setups \subseteq Setup

VARIABLES
    setup,    \* who encrypts and who has the Fast Extension
    wire,     \* the two ends of the connection, see Wire
    stream,   \* the tokens on their way to each end
    tasks,    \* what each end awaits: kind and secret
    looping,  \* the end whose _write runs its parsers, or "none"
    retries,  \* peer.retries of the outgoing peer
    misread,  \* history: an end found that the other does not speak BitTorrent
    crashed   \* a callback met a null field

handshakeVars == <<setup, wire, stream, tasks, looping, retries, misread, crashed>>

-----------------------------------------------------------------------------
(* `s` is the secret a token was made with, or "plain".                    *)
Tok(t, s) == [t |-> t, s |-> s]

Pads == {<< >>, <<Tok("pad", "plain")>>} \cup IF LongPads THEN {<<Tok("long", "plain")>>} ELSE {}

(* Whether the wire of an end begins with PE/MSE at the n-th retry.        *)
Encrypts(e, n) == setup.secure[e] /\ (e = "in" \/ n = 0)

(* A peer with its wire.  `secret` and `gens` tell whether the shared       *)
(* secret and the RC4 generators are those of the peer's key; `waiters`     *)
(* counts the parsers that wait for the generators.                         *)
NewWire(e, n) ==
    [open |-> TRUE, swarm |-> e = "out", buffer |-> << >>, sync |-> "none",
     parser |-> IF ~Encrypts(e, n) THEN "handshake" ELSE IF e = "in" THEN "type" ELSE "pe2",
     secret |-> "none", gens |-> "none", waiters |-> 0, method |-> FALSE, done |-> FALSE,
     pe |-> FALSE, sent |-> FALSE, got |-> FALSE, sentExt |-> 0, gotExt |-> FALSE,
     hasFast |-> FALSE, handled |-> 0]

(* The state a handler works on.                                           *)
Now == [wire |-> wire, stream |-> stream, tasks |-> tasks, misread |-> misread, crashed |-> crashed]

Becomes(x) ==
    /\ wire' = x.wire /\ stream' = x.stream /\ tasks' = x.tasks
    /\ misread' = x.misread /\ crashed' = x.crashed

Await(x, e, k, s) == [x EXCEPT !.tasks[e] = @ \cup {[k |-> k, s |-> s]}]

(* peer.destroy of one end: the connection is closed, and with it the      *)
(* other end is destroyed as soon as it notices.                           *)
DestroyPeer(x, e) == [x EXCEPT !.wire[e].open = FALSE, !.stream = [f \in Sides |-> << >>]]

(* _encrypt and _decrypt: once the crypto handshake is done, and by the    *)
(* method the ends agreed on.                                              *)
Encrypt(x, t) == IF x.method /\ x.done THEN Tok(t.t, x.gens) ELSE t

Decrypt(x, t) ==
    IF ~(x.method /\ x.done) THEN t
    ELSE Tok(t.t, IF t.s = x.gens /\ t.s = "good" THEN "plain" ELSE "junk")

(* Wire._push: nothing after the end.                                      *)
Push(x, e, toks) ==
    IF ~x.wire[e].open THEN x
    ELSE [x EXCEPT !.stream[Other(e)] = @ \o [i \in DOMAIN toks |-> Encrypt(x.wire[e], toks[i])]]

(* _sendExtendedHandshake.                                                 *)
SendExtended(x, e) == Push([x EXCEPT !.wire[e].sentExt = @ + 1], e, <<Tok("ext", "plain")>>)

(* Mutant: the Fast bit of the other end is not looked at.                 *)
FastBoth_Own(e) == setup.fast[e]

FastBoth(e) == setup.fast[e] /\ setup.fast[Other(e)]

(* peer.handshake and Wire.handshake.                                      *)
SendHandshake(x, e) ==
    LET y == Push([x EXCEPT !.wire[e].sent = TRUE,
                            !.wire[e].hasFast = x.wire[e].got /\ FastBoth(e)],
                  e, <<Tok("hs", "plain")>>)
    IN  IF x.wire[e].got /\ x.wire[e].sentExt = 0 THEN SendExtended(y, e) ELSE y

Joined(x, e) == x.wire[e].swarm /\ x.wire[e].open

(* peer.onHandshake: without a swarm nothing happens.                      *)
PeerOnHandshake(x, e) ==
    IF ~Joined(x, e) THEN x
    ELSE LET y == [x EXCEPT !.wire[e].handled = @ + 1]
         IN  IF x.wire[e].sent THEN y ELSE SendHandshake(y, e)

(* Wire._onHandshake and its listeners: the peer and, for an incoming      *)
(* connection, the pool, which looks for the torrent.                      *)
OnHandshake(x, e) ==
    LET y == [x EXCEPT !.wire[e].got = TRUE, !.wire[e].hasFast = x.wire[e].sent /\ FastBoth(e),
                       !.wire[e].parser = "messages"]
        z == PeerOnHandshake(y, e)
        v == IF e = "in" THEN Await(z, e, "get", "none") ELSE z
    IN  IF v.wire[e].sent /\ v.wire[e].sentExt = 0 THEN SendExtended(v, e) ELSE v

Refuse(x, e) == [DestroyPeer(x, e) EXCEPT !.misread = TRUE]

-----------------------------------------------------------------------------
HandshakeInit ==
    /\ setup \in Setups
    /\ retries = 0
    /\ wire = [e \in Sides |-> NewWire(e, 0)]
    /\ stream = [e \in Sides |-> << >>]
    /\ tasks = [e \in Sides |-> {}]
    /\ looping = "none" /\ misread = FALSE /\ crashed = FALSE

(* peer.onConnect of the outgoing end: its first message.                  *)
OnConnect ==
    /\ looping = "none"
    /\ wire["out"].open /\ ~wire["out"].pe /\ ~wire["out"].sent
    /\ IF Encrypts("out", retries)
       THEN \E pad \in Pads : \E key \in Keys :
                Becomes(Push([Now EXCEPT !.wire["out"].pe = TRUE], "out",
                             <<Tok(key, "plain")>> \o pad))
       ELSE Becomes(SendHandshake(Now, "out"))
    /\ UNCHANGED <<setup, looping, retries>>

(* What may be so long that an end that synchronises gives up.             *)
Lengthy == {"long", "encL", "select"}

(* _write: what was encrypted is decrypted, if the crypto handshake is     *)
(* done by now, the rest stays as it is.  While it synchronises, an end    *)
(* drops all before the pattern, and gives up when too much has come.      *)
Write(e) ==
    /\ looping = "none"
    /\ wire[e].open /\ stream[e] # << >>
    /\ \E n \in 1 .. Len(stream[e]) :
        LET new == [i \in 1 .. n |-> Decrypt(wire[e], stream[e][i])]
            all == wire[e].buffer \o new
            mark == Tok(IF e = "out" THEN "vc" ELSE "req1", "good")
            at == {i \in DOMAIN all : all[i] = mark}
            x == [Now EXCEPT !.stream[e] = SubSeq(@, n + 1, Len(@)), !.wire[e].buffer = all]
            found == wire[e].sync = "good" /\ at # {}
        IN  /\ Splits \/ n = Len(stream[e])
            /\ \/ /\ wire[e].sync = "none"
                  /\ Becomes(x)
                  /\ looping' = e
               \/ /\ found
                  /\ \E i \in at :
                        Becomes([x EXCEPT !.wire[e].buffer = SubSeq(all, i + 1, Len(all)),
                                          !.wire[e].sync = "none"])
                  /\ looping' = e
               \/ /\ wire[e].sync # "none" /\ ~found
                  /\ \/ Becomes(x)
                     \/ (\E i \in DOMAIN all : all[i].t \in Lengthy) /\ Becomes(DestroyPeer(x, e))
                  /\ UNCHANGED looping
    /\ UNCHANGED <<setup, retries>>

-----------------------------------------------------------------------------
(* What the parsers do; the head of the buffer is theirs.                  *)

FirstToken(e) == wire[e].buffer[1]
Taken(e) == [Now EXCEPT !.wire[e].buffer = Tail(@)]

(* The secret that a public key leads to.                                  *)
Secret(t) == IF t.t = "long" THEN "junk" ELSE "good"

(* A parser that must wait for the generators, or goes on at once.         *)
WaitFor(x, e) == [x EXCEPT !.wire[e].waiters = @ + 1]

(* The generators are set: the parsers that waited go on.  Each that        *)
(* synchronises on VC takes the next bytes of the key stream as pattern.   *)
Generators(x, e, s) ==
    LET n == x.wire[e].waiters
    IN  [x EXCEPT !.wire[e].gens = s, !.wire[e].waiters = 0,
                  !.wire[e].parser = IF n = 0 THEN @ ELSE IF e = "out" THEN "pe4" ELSE "pe3enc",
                  !.wire[e].sync = IF e = "in" \/ n = 0 THEN @
                                ELSE IF n = 1 /\ s = "good" THEN "good" ELSE "junk"]

(* _parsePe2: the parser stays armed until the generators are set, and a   *)
(* long padding is taken for another key.  Only the first key is answered. *)
ParsePe2(e) ==
    /\ wire[e].parser = "pe2" /\ FirstToken(e).t \in {"key", "key19", "long"}
    /\ LET x == WaitFor([Taken(e) EXCEPT !.wire[e].secret = Secret(FirstToken(e))], e)
       IN  Becomes(IF wire[e].secret = "none" THEN Await(x, e, "encrypt3", "good") ELSE x)

(* _determineHandshakeType, and _parsePe1 with onPe1: the answer is a key  *)
(* and a padding, and the secret is hashed for _parsePe3.                  *)
DetermineHandshakeType(e) ==
    /\ wire[e].parser = "type"
    /\ CASE FirstToken(e).t = "key" ->
                \E pad \in Pads : \E key \in Keys :
                    Becomes(Push(Await([Taken(e) EXCEPT !.wire[e].parser = "pe1",
                                                        !.wire[e].secret = "good"],
                                       e, "hash1", "good"),
                                 e, <<Tok(key, "plain")>> \o pad))
         [] FirstToken(e).t = "hs" -> Becomes(OnHandshake(Taken(e), e))
         [] OTHER -> Becomes(Refuse(Taken(e), e))

(* The parser of the key takes a long padding that follows it, too.        *)
ParsePe1(e) ==
    /\ wire[e].parser = "pe1" /\ FirstToken(e).t = "long"
    /\ Becomes(Await([Taken(e) EXCEPT !.wire[e].secret = "junk"], e, "hash1", "junk"))

(* _parsePe3 and _onPe3; armed until the generators are set, it takes the  *)
(* beginning of what follows for a second one if that is long enough.      *)
ParsePe3(e) ==
    /\ wire[e].parser = "pe3" /\ FirstToken(e).t \in {"xor", "encL"}
    /\ LET ok == FirstToken(e).t = "xor" /\ FirstToken(e).s = wire[e].secret
           x  == IF FirstToken(e).t = "xor" THEN Taken(e)
                 ELSE [Now EXCEPT !.wire[e].buffer = <<Tok("rest", "junk")>> \o Tail(@)]
       IN  Becomes(Await(WaitFor(x, e), e, "hash3", IF ok THEN "good" ELSE "junk"))

(* _parsePe3Encrypted and _onPe3Encrypted; what is left of an eaten part   *)
(* fails the check of VC, or leaves the parser waiting for more.           *)
ParsePe3Encrypted(e) ==
    /\ wire[e].parser = "pe3enc" /\ FirstToken(e).t \in {"enc", "encL", "rest"}
    /\ IF FirstToken(e).t # "rest" /\ FirstToken(e).s = wire[e].gens
       THEN Becomes([Taken(e) EXCEPT !.wire[e].method = TRUE, !.wire[e].parser = "handshake"])
       ELSE Becomes(DestroyPeer(Now, e)) \/ Becomes([Now EXCEPT !.wire[e].parser = "stuck"])

(* _parsePe4, _onPe4, onPe4.                                               *)
ParsePe4(e) ==
    /\ wire[e].parser = "pe4" /\ FirstToken(e).t = "select"
    /\ Becomes(SendHandshake([Taken(e) EXCEPT !.wire[e].method = TRUE, !.wire[e].done = TRUE,
                                              !.wire[e].parser = "handshake"], e))

(* _parseHandshake and _onHandshakeBuffer.                                 *)
ParseHandshake(e) ==
    /\ wire[e].parser = "handshake"
    /\ IF FirstToken(e) = Tok("hs", "plain") THEN Becomes(OnHandshake(Taken(e), e))
       ELSE Becomes(Refuse(Taken(e), e))

(* _onMessageLength, _onMessage, _onExtended: the extended handshake.      *)
OnExtended(e) ==
    /\ wire[e].parser = "messages" /\ FirstToken(e) = Tok("ext", "plain")
    /\ Becomes([Taken(e) EXCEPT !.wire[e].gotExt = TRUE])

Loops(e) == looping = e /\ wire[e].open /\ wire[e].sync = "none" /\ wire[e].buffer # << >>

ParseStep(e) ==
    /\ Loops(e)
    /\ \/ ParsePe2(e) \/ DetermineHandshakeType(e) \/ ParsePe1(e) \/ ParsePe3(e)
       \/ ParsePe3Encrypted(e) \/ ParsePe4(e) \/ ParseHandshake(e) \/ OnExtended(e)
    /\ UNCHANGED <<setup, looping, retries>>

(* The bytes that each parser is content with.                             *)
Feeds(e) ==
    CASE wire[e].parser = "pe2" -> {"key", "key19", "long"}
      [] wire[e].parser = "pe1" -> {"long"}
      [] wire[e].parser = "pe3" -> {"xor", "encL"}
      [] wire[e].parser = "pe3enc" -> {"enc", "encL", "rest"}
      [] wire[e].parser = "pe4" -> {"select"}
      [] wire[e].parser \in {"type", "handshake"} -> {FirstToken(e).t}
      [] wire[e].parser = "messages" -> {"ext"}
      [] OTHER -> {}

(* The parsers have too few bytes, and _write returns.                     *)
WriteEnds(e) ==
    /\ looping = e
    /\ Loops(e) => FirstToken(e).t \notin Feeds(e)
    /\ looping' = "none"
    /\ UNCHANGED <<setup, wire, stream, tasks, retries, misread, crashed>>

-----------------------------------------------------------------------------
(* What was awaited arrives.  No parser runs until the next _write.        *)
Done(e, k, s) == [Now EXCEPT !.tasks[e] = @ \ {[k |-> k, s |-> s]}]

(* The kinds of a token that stands for a part with a padding.             *)
Parts == {"enc"} \cup IF LongPads THEN {"encL"} ELSE {}

(* sendPe3: setEncrypt, then the hashes of the secret as it is then.       *)
SendPe3(e) ==
    \/ /\ [k |-> "encrypt3", s |-> "good"] \in tasks[e]
       /\ Becomes(Await(Generators(Done(e, "encrypt3", "good"), e, "good"), e, "hashes3",
                        wire[e].secret))
    \/ \E s \in {"good", "junk"} :
          /\ [k |-> "hashes3", s |-> s] \in tasks[e]
          /\ \E part \in Parts :
                Becomes(Push(Done(e, "hashes3", s), e,
                             <<Tok("req1", s), Tok("xor", s), Tok(part, wire[e].gens)>>))

(* _parsePe3 has the hash to synchronise on.                               *)
Synchronise(e) ==
    \E s \in {"good", "junk"} :
        /\ [k |-> "hash1", s |-> s] \in tasks[e]
        /\ Becomes([Done(e, "hash1", s) EXCEPT !.wire[e].sync = s, !.wire[e].parser = "pe3"])

(* _onPe3 has its hash: 'pe3', of which the pool hears the first, looks    *)
(* for the torrent.                                                        *)
EmitPe3(e) ==
    \E s \in {"good", "junk"} :
        /\ [k |-> "hash3", s |-> s] \in tasks[e]
        /\ Becomes(IF wire[e].pe THEN Done(e, "hash3", s)
                   ELSE Await([Done(e, "hash3", s) EXCEPT !.wire[e].pe = TRUE], e, "get3", s))

(* onPe3 of the pool: the peer joins the torrent and sends its part, even  *)
(* a peer that was destroyed and has no wire; or there is no such torrent. *)
PoolOnPe3(e) ==
    \E s \in {"good", "junk"} :
        /\ [k |-> "get3", s |-> s] \in tasks[e]
        /\ LET x == Done(e, "get3", s)
           IN  CASE s = "junk" -> Becomes(DestroyPeer(x, e))
                 [] s = "good" /\ ~wire[e].open -> Becomes([x EXCEPT !.crashed = TRUE])
                 [] OTHER -> Becomes(Await([x EXCEPT !.wire[e].swarm = TRUE], e, "encrypt4",
                                           wire[e].secret))

(* sendPe4: setEncrypt, and the parsers that wait.                         *)
SendPe4(e) ==
    \E s \in {"good", "junk"} :
        /\ [k |-> "encrypt4", s |-> s] \in tasks[e]
        /\ LET x == Generators(Done(e, "encrypt4", s), e, s)
           IN  Becomes([Push(x, e, <<Tok("vc", s), Tok("select", s)>>)
                           EXCEPT !.wire[e].done = TRUE])

(* onHandshake of the pool.                                                *)
PoolOnHandshake(e) ==
    /\ [k |-> "get", s |-> "none"] \in tasks[e]
    /\ LET x == Done(e, "get", "none")
       IN  Becomes(PeerOnHandshake([x EXCEPT !.wire[e].swarm = TRUE], e))

Awaited(e) ==
    /\ looping = "none"
    /\ \/ SendPe3(e) \/ Synchronise(e) \/ EmitPe3(e) \/ PoolOnPe3(e) \/ SendPe4(e)
       \/ PoolOnHandshake(e)
    /\ UNCHANGED <<setup, looping, retries>>

-----------------------------------------------------------------------------
(* The connection breaks; a bound: only the first does.                    *)
Break ==
    /\ looping = "none" /\ retries = 0 /\ wire["out"].open
    /\ Becomes(DestroyPeer(Now, "out"))
    /\ UNCHANGED <<setup, looping, retries>>

(* An end notices that the other is gone.                                  *)
OnPeerClose(e) ==
    /\ looping = "none" /\ wire[e].open /\ ~wire[Other(e)].open
    /\ Becomes(DestroyPeer(Now, e))
    /\ UNCHANGED <<setup, looping, retries>>

Quiet == looping = "none" /\ \A e \in Sides : stream[e] = << >> /\ tasks[e] = {}

(* The handshake timeout, long after everything else.                      *)
OnHandshakeTimeout(e) ==
    /\ Quiet /\ (wire["out"].pe \/ wire["out"].sent \/ ~wire["out"].open)
    /\ wire[e].open /\ wire[e].handled = 0
    /\ Becomes(DestroyPeer(Now, e))
    /\ UNCHANGED <<setup, looping, retries>>

(* Mutant: the next attempt is encrypted again.                            *)
NextRetry_Same == retries

(* peer.retries of the next attempt; a handshake sets it to 0.             *)
NextRetry == IF wire["out"].handled > 0 THEN 1 ELSE retries + 1

(* #drain reconnects: two new ends.                                        *)
Redial ==
    /\ Quiet /\ ~crashed
    /\ \A e \in Sides : ~wire[e].open
    /\ retries < Attempts
    /\ retries' = NextRetry
    /\ wire' = [e \in Sides |-> NewWire(e, NextRetry)]
    /\ misread' = FALSE
    /\ UNCHANGED <<setup, stream, tasks, looping, crashed>>

(* Data arrives, awaits end, timers fire.                                  *)
HandshakeStep ==
    \/ OnConnect \/ Redial
    \/ \E e \in Sides : \/ Write(e) \/ ParseStep(e) \/ WriteEnds(e) \/ Awaited(e)
                        \/ OnPeerClose(e) \/ OnHandshakeTimeout(e)

HandshakeNext == HandshakeStep \/ Break

(* A connection that is not broken goes on, and each attempt has an end.   *)
HandshakeFairness == WF_handshakeVars(HandshakeStep)

HandshakeSpec == HandshakeInit /\ [][HandshakeNext]_handshakeVars /\ HandshakeFairness

-----------------------------------------------------------------------------
(* However the encrypted attempt goes, the peers are connected in the end: *)
(* both handshakes and both extended handshakes are through, unless the    *)
(* process has met a null field.                                           *)
PeersConnect ==
    <>[](crashed \/ \A e \in Sides : wire[e].open /\ wire[e].handled > 0 /\ wire[e].gotExt)

(* Two ends that know each other's handshake agree on the cipher and on    *)
(* the Fast Extension, and told their extensions at most once.             *)
SameTerms ==
    /\ (\A e \in Sides : wire[e].open /\ wire[e].got) =>
          /\ wire["in"].method = wire["out"].method
          /\ (\A e \in Sides : wire[e].sent) => wire["in"].hasFast = wire["out"].hasFast
    /\ \A e \in Sides : wire[e].sentExt <= 1

(* Nobody who speaks plainly is told not to speak BitTorrent.              *)
PlainIsUnderstood == misread => retries = 0

(* A torrent gets a wire once, but for an incoming peer whose torrent was  *)
(* known before its handshake: the peer and the pool both hand it over.    *)
HandledOnce == \A e \in Sides : wire[e].handled > 1 => e = "in" /\ wire[e].method

(* All three: what a torrent is handed, in which terms, and once.          *)
Agreed == SameTerms /\ PlainIsUnderstood /\ HandledOnce
=============================================================================
