------------------------------- MODULE Client -------------------------------
(***************************************************************************)
(* The client and the lives of its torrents: add, the way from an id over  *)
(* the info hash and the metadata to 'ready', remove and destroy           *)
(* (client.ts, torrent.ts), the shutdown of the client, and the search for *)
(* the torrent an encrypted connection asks for (getTorrentByPe3Hash).     *)
(*                                                                         *)
(* All torrents are of one hybrid content, the hard case for telling them  *)
(* apart: an id may name it by its v1 hash, by its v2 hash, or hold all of *)
(* it.  Every step is what runs between two awaits.                        *)
(***************************************************************************)
EXTENDS Integers, Sequences, FiniteSets, SequencesExt

CONSTANTS
    Torrents,  \* the torrent objects
    Utp,       \* the connection pool has a uTP server beside its TCP server
    Null

ASSUME ClientAssumption ==
    /\ Null \notin Torrents \cup {"", "v1", "v2", "full"}
    /\ Torrents \cap {"pool", "dht", "utp"} = {}

HashKinds == {"v1", "v2"}
Ids == [v1 |-> {"v1"}, v2 |-> {"v2"}, full |-> HashKinds]

VARIABLES
    list,       \* client.torrents
    id,         \* of a torrent: the id it was added with, or Null
    stage,      \* how far it is
    known,      \* its hashes, infoHash and infoHashV2
    discovery,  \* torrent.discovery runs
    remove,     \* its client.remove call: "no", "found", "waiting", "called", "lost"
    hashed,     \* torrent.infoHashHash: Null, or the infoHash it was made of
    listening,  \* client.listening
    shutdown,   \* of the client: "no", "running", "called"
    pending,    \* the tasks of shutdownWithError that are not counted off
    servers,    \* the servers and sockets of the client that are open
    search,     \* the search that runs
    twins       \* history: the torrents whose metadata told that they are another one

lifeVars == <<list, id, stage, known, discovery, remove>>
clientVars == <<listening, shutdown, pending, servers>>
lifecycleVars == <<lifeVars, clientVars, hashed, search, twins>>

-----------------------------------------------------------------------------
Listed == {list[i] : i \in DOMAIN list}

(* infoHash: the v1 hash, or without one what the v2 hash is cut to.       *)
InfoHash(k) == IF "v1" \in k THEN "v1" ELSE IF "v2" \in k THEN "v2" ELSE ""

(* sameTorrentIdentity.                                                    *)
Same(k, l) ==
    \/ "v2" \in k \cap l
    \/ ~("v2" \in k /\ "v2" \in l) /\ InfoHash(k) # "" /\ InfoHash(k) = InfoHash(l)

Destroyed(t) == stage[t] \in {"destroyed", "closed"}

Idle == [step |-> "idle", want |-> "", at |-> 0, over |-> Null, hash |-> "", shrunk |-> FALSE,
         late |-> {}]

ClientInit ==
    /\ list = << >>
    /\ id = [t \in Torrents |-> Null]
    /\ stage = [t \in Torrents |-> "none"]
    /\ known = [t \in Torrents |-> {}]
    /\ discovery = [t \in Torrents |-> FALSE]
    /\ remove = [t \in Torrents |-> "no"]
    /\ hashed = [t \in Torrents |-> Null]
    /\ listening = FALSE
    /\ shutdown = "no"
    /\ pending = 0
    /\ servers = {"pool", "dht"} \cup IF Utp THEN {"utp"} ELSE {}
    /\ search = Idle
    /\ twins = {}

-----------------------------------------------------------------------------
(* #destroyTorrent and detachTorrent of the torrents ts: off the list, of  *)
(* which `rest` is left, the discovery destroyed, the store closing.  What *)
(* they were is forgotten.                                                 *)
End(ts, rest) ==
    /\ stage' = [t \in Torrents |-> IF t \in ts THEN "destroyed" ELSE stage[t]]
    /\ known' = [t \in Torrents |-> IF t \in ts THEN {} ELSE known[t]]
    /\ hashed' = [t \in Torrents |-> IF t \in ts THEN Null ELSE hashed[t]]
    /\ discovery' = [t \in Torrents |-> t \notin ts /\ discovery[t]]
    /\ list' = rest
    /\ search' = [search EXCEPT !.shrunk = @ \/ (search # Idle /\ ts \cap Listed # {})]
    /\ twins' = twins \ ts

(* client.add.                                                             *)
Add(t, i) ==
    /\ shutdown = "no"
    /\ id[t] = Null
    /\ id' = [id EXCEPT ![t] = i]
    /\ stage' = [stage EXCEPT ![t] = "parsing"]
    /\ list' = Append(list, t)
    /\ UNCHANGED <<known, discovery, remove, clientVars, hashed, search, twins>>

(* #onListening: a torrent that has its info opens its store and verifies  *)
(* it, the others look for peers who have the metadata.                    *)
Begin(ts) ==
    LET whole == {t \in ts : id[t] = "full"}
    IN  /\ stage' = [t \in Torrents |-> IF t \in whole THEN "verifying"
                                        ELSE IF t \in ts THEN "magnet" ELSE stage[t]]
        /\ discovery' = [t \in Torrents |-> t \in ts \ whole \/ discovery[t]]

(* onInfoHash of client.add: the older torrents of the same content.       *)
Older(t) == {u \in Listed \ {t} : Same(known[u], Ids[id[t]])}

(* The id is parsed: #onParsedTorrent, with onInfoHash, which destroys the *)
(* newer torrent.                                                          *)
OnParsedTorrent(t) ==
    /\ stage[t] = "parsing"
    /\ \/ /\ Older(t) # {}
          /\ End({t}, RemoveFirst(list, t))
       \/ /\ Older(t) = {}
          /\ known' = [known EXCEPT ![t] = Ids[id[t]]]
          /\ IF listening THEN Begin({t})
             ELSE stage' = [stage EXCEPT ![t] = "hashed"] /\ UNCHANGED discovery
          /\ UNCHANGED <<list, hashed, search, twins>>
    /\ UNCHANGED <<id, remove, clientVars>>

(* The id is not one of a torrent, or torrent.destroy is called by the     *)
(* user or after an error.                                                 *)
DestroyTorrent(t) ==
    /\ stage[t] # "none" /\ ~Destroyed(t)
    /\ End({t}, RemoveFirst(list, t))
    /\ UNCHANGED <<id, remove, clientVars>>

(* notifyListening: the torrents that wait for 'listening' begin.          *)
NotifyListening ==
    /\ ~listening /\ shutdown = "no"
    /\ listening' = TRUE
    /\ Begin({t \in Torrents : stage[t] = "hashed"})
    /\ UNCHANGED <<list, id, known, remove, shutdown, pending, servers, hashed, search, twins>>

(* The metadata comes, from a wire or a server: both hashes are known, and *)
(* nobody compares them with those of the other torrents.                  *)
OnMetadata(t) ==
    /\ stage[t] = "magnet"
    /\ stage' = [stage EXCEPT ![t] = "verifying"]
    /\ known' = [known EXCEPT ![t] = HashKinds]
    /\ twins' = IF \E u \in Listed \ {t} : known[u] # {} THEN twins \cup {t} ELSE twins
    /\ UNCHANGED <<list, id, discovery, remove, clientVars, hashed, search>>

(* The store is verified: #onStore, with its #startDiscovery.              *)
OnStore(t) ==
    /\ stage[t] = "verifying"
    /\ stage' = [stage EXCEPT ![t] = "ready"]
    /\ discovery' = [discovery EXCEPT ![t] = TRUE]
    /\ UNCHANGED <<list, id, known, remove, clientVars, hashed, search, twins>>

(* The discovery and the store of a destroyed torrent are closed: 'close', *)
(* the callbacks of destroy and remove, a task of shutdownWithError.       *)
Closed(t) ==
    /\ stage[t] = "destroyed"
    /\ stage' = [stage EXCEPT ![t] = "closed"]
    /\ remove' = [remove EXCEPT ![t] = IF @ = "waiting" THEN "called" ELSE @]
    /\ pending' = IF t \in servers THEN pending - 1 ELSE pending
    /\ servers' = servers \ {t}
    /\ shutdown' = IF t \in servers /\ pending = 1 THEN "called" ELSE shutdown
    /\ UNCHANGED <<list, id, known, discovery, listening, hashed, search, twins>>

-----------------------------------------------------------------------------
(* client.remove has found its torrent.                                    *)
RemoveFound(t) ==
    /\ t \in Listed /\ remove[t] = "no"
    /\ remove' = [remove EXCEPT ![t] = "found"]
    /\ UNCHANGED <<list, id, stage, known, discovery, clientVars, hashed, search, twins>>

(* Mutant: the callback is not handed to torrent.destroy.                  *)
Waits_Not == "dropped"

Waits == "waiting"

(* detachTorrent, after the await: a torrent that has left the list in the *)
(* meantime is nobody's concern, and the callback is dropped.              *)
DetachTorrent(t) ==
    /\ remove[t] = "found"
    /\ \/ /\ t \in Listed
          /\ remove' = [remove EXCEPT ![t] = Waits]
          /\ End({t}, RemoveFirst(list, t))
       \/ /\ t \notin Listed
          /\ remove' = [remove EXCEPT ![t] = "lost"]
          /\ UNCHANGED <<list, stage, known, discovery, hashed, search, twins>>
    /\ UNCHANGED <<id, clientVars>>

-----------------------------------------------------------------------------
Tasks == Cardinality(Listed) + 2

(* shutdownWithError: a task for every torrent, one for the pool and one   *)
(* for the DHT.  The torrents that are closing already are not waited for. *)
Shutdown ==
    /\ shutdown = "no"
    /\ shutdown' = "running"
    /\ pending' = Tasks
    /\ servers' = servers \cup Listed
    /\ End(Listed, << >>)
    /\ UNCHANGED <<id, remove, listening>>

(* A server or the DHT has closed.  The pool hands the callback of its     *)
(* task to both of its servers.                                            *)
ServerClosed(s) ==
    /\ shutdown # "no"
    /\ s \in servers
    /\ servers' = servers \ {s}
    /\ pending' = pending - 1
    /\ shutdown' = IF pending = 1 THEN "called" ELSE shutdown
    /\ UNCHANGED <<lifeVars, listening, hashed, search, twins>>

-----------------------------------------------------------------------------
(* getTorrentByPe3Hash looks at the torrents of the list in turn, and      *)
(* awaits a hash of those that have none yet.                              *)
Search(h) ==
    /\ search = Idle
    /\ shutdown = "no"
    /\ search' = [Idle EXCEPT !.step = "looking", !.want = h, !.at = 1,
                     !.late = {t \in Torrents : t \notin Listed \/ InfoHash(known[t]) # h}]
    /\ UNCHANGED <<lifeVars, clientVars, hashed, twins>>

Current == list[search.at]

(* The torrent is next and has no hash; the hash of the info hash it has   *)
(* now is awaited.                                                         *)
SearchHash ==
    /\ search.step = "looking"
    /\ search.at \in DOMAIN list /\ hashed[Current] = Null
    /\ search' = [search EXCEPT !.step = "hashing", !.over = Current,
                                !.hash = InfoHash(known[Current])]
    /\ UNCHANGED <<lifeVars, clientVars, hashed, twins>>

(* The search goes on behind torrent t, whose hash is h, or has found it.  *)
Compare(t, h) ==
    search' = IF h = search.want
              THEN [search EXCEPT !.step = "found", !.over = t, !.hash = ""]
              ELSE [search EXCEPT !.step = "looking", !.over = Null, !.hash = "", !.at = @ + 1]

(* Mutant: the hash is compared and not that of the next torrents.         *)
SearchHashed_Last ==
    /\ search.step = "hashing"
    /\ hashed' = [hashed EXCEPT ![search.over] = search.hash]
    /\ search' = [search EXCEPT !.step = IF search.hash = search.want THEN "found" ELSE "missed"]
    /\ UNCHANGED <<lifeVars, clientVars, twins>>

(* The hash is kept for ever.                                              *)
SearchHashed ==
    /\ search.step = "hashing"
    /\ hashed' = [hashed EXCEPT ![search.over] = search.hash]
    /\ Compare(search.over, search.hash)
    /\ UNCHANGED <<lifeVars, clientVars, twins>>

SearchNext ==
    /\ search.step = "looking"
    /\ search.at \in DOMAIN list /\ hashed[Current] # Null
    /\ Compare(Current, hashed[Current])
    /\ UNCHANGED <<lifeVars, clientVars, hashed, twins>>

(* No torrent is left: null.  The answer is used and forgotten.            *)
SearchEnd ==
    /\ \/ /\ search.step = "looking" /\ search.at \notin DOMAIN list
          /\ search' = [search EXCEPT !.step = "missed"]
       \/ /\ search.step \in {"found", "missed"}
          /\ search' = Idle
    /\ UNCHANGED <<lifeVars, clientVars, hashed, twins>>

-----------------------------------------------------------------------------
TorrentStep ==
    \E t \in Torrents :
        \/ \E i \in DOMAIN Ids : Add(t, i)
        \/ OnParsedTorrent(t)
        \/ OnMetadata(t)
        \/ OnStore(t)
        \/ DestroyTorrent(t)
        \/ Closed(t)

CloseStep ==
    \/ \E t \in Torrents : RemoveFound(t) \/ DetachTorrent(t)
    \/ Shutdown
    \/ \E s \in {"pool", "dht", "utp"} : ServerClosed(s)

SearchStep ==
    \/ \E h \in HashKinds : Search(h)
    \/ SearchHash
    \/ SearchHashed
    \/ SearchNext
    \/ SearchEnd

ClientNext ==
    \/ TorrentStep
    \/ NotifyListening
    \/ CloseStep
    \/ SearchStep

(* Stores, servers and the DHT do close, and an await is answered.         *)
ClientFairness ==
    /\ \A t \in Torrents : WF_lifecycleVars(Closed(t)) /\ WF_lifecycleVars(DetachTorrent(t))
    /\ \A s \in {"pool", "dht", "utp"} : WF_lifecycleVars(ServerClosed(s))

ClientSpec == ClientInit /\ [][ClientNext]_lifecycleVars /\ ClientFairness

-----------------------------------------------------------------------------
(* client.add: two torrents of the list are of one content only if one of  *)
(* them was told so by its metadata, which nobody compares.  (client.ts    *)
(* add, onInfoHash; sameTorrentIdentity)                                   *)
NoDuplicates ==
    \A t, u \in Listed : t # u /\ known[t] \cap known[u] # {} => twins \cap {t, u} # {}

(* getTorrentByPe3Hash: a torrent that was on the list with the info hash  *)
(* when the search began, and still is, is found, unless the list shrank   *)
(* under the search or the hash kept for it is of an older info hash.      *)
SearchFinds ==
    search.step = "missed" =>
        \A t \in Listed \ search.late :
            InfoHash(known[t]) = search.want => search.shrunk \/ hashed[t] \notin {Null, InfoHash(known[t])}

(* client.destroy calls back when all is closed.                           *)
CalledWhenClosed == shutdown = "called" => servers = {}

(* It does so as long as the pool has one server.                          *)
GracefulClose == ~Utp => CalledWhenClosed

(* client.remove: a removed torrent calls back, unless it had left the     *)
(* list by itself when detachTorrent came to it.                           *)
RemoveCallsBack ==
    \A t \in Torrents : remove[t] = "found" /\ t \in Listed ~>
                           remove[t] = "called" \/ (remove[t] = "lost" /\ Destroyed(t))

(* Both: a content is one torrent, and it is found.                        *)
Identified == NoDuplicates /\ SearchFinds

(* Both: the callbacks of the client and of its torrents come, not too     *)
(* early.                                                                  *)
ClientCloses == []GracefulClose /\ RemoveCallsBack
=============================================================================
