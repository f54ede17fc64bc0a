---------------------------- MODULE Transparency ----------------------------
(***************************************************************************)
(* The hash-chained checkpoints (src/transparency.rs) and the part of the  *)
(* audit that writes them (src/worker.rs).  An audit reads its bucket's    *)
(* chain head, walks the packages, brings the chains of the fleet to one   *)
(* another's length, and appends a link over the packages that changed by  *)
(* a create-if-absent on the first bucket in configuration order; only     *)
(* then does it store the fingerprints of those packages.  Two nodes may   *)
(* audit at once, from different buckets, and every storage call may fail. *)
(*                                                                         *)
(* A sha256 is injective here: prev-sha256 of a link is the previous link  *)
(* itself, and the timestamp of a link is the node that wrote it.  Each    *)
(* package has one file; its truth is the sha of that file, the same in    *)
(* every bucket, 0 once it is deleted under a tombstone.  A fingerprint    *)
(* tells two states of a package apart exactly as the sha does.  Every     *)
(* bucket is eligible on every node: singleton_replicas hands over all the *)
(* peers.  (The comment on catch_up_fleet says what an evicted bucket can  *)
(* lead to.)                                                               *)
(***************************************************************************)
EXTENDS Integers, FiniteSets, FiniteSetsExt

CONSTANTS
    Auditors,       \* the nodes that audit
    Replicas,       \* the buckets, numbered in configuration order
    Packages,
    Churning,       \* the packages whose files change
    Nil,
    Fleets,         \* the fleets considered: see Fleet
    MaxShas,        \* bound: shas a package's file goes through
    MaxLapses       \* bound: failed calls, crashes and switches of a pin

VARIABLES
    view,      \* the fleet of this behaviour
    shas,      \* truth: the sha of each package's file
    chains,    \* _transparency/chain/ of each bucket: seq -> link
    certs,     \* the sha each bucket's stored fingerprint of a package stands for
    pins,      \* each node's write pin
    walks,     \* where each node's audit stands
    lapses

chainVars == <<view, shas, chains, certs, pins, walks, lapses>>

\* Where each node is pinned at first, and the bounds.
Fleet ==
    [pins : [Auditors -> Replicas], shas : 1 .. MaxShas, lapses : 0 .. MaxLapses]

ASSUME TransparencyAssumption ==
    /\ Replicas \subseteq Nat /\ Replicas # {} /\ IsFiniteSet(Replicas)
    /\ Churning \subseteq Packages
    /\ MaxShas \in Nat /\ MaxLapses \in Nat
    /\ Fleets \subseteq Fleet

-----------------------------------------------------------------------------
(* Links and chains.                                                       *)

Sha == 0 .. MaxShas
Seqs(b) == DOMAIN chains[b]
NoDelta == [p \in {} |-> 0]

\* What read_head says of an empty chain, the place before the first link, and a
\* head that it could not read.
NoLink == [seq |-> -1, prev |-> Nil, by |-> Nil, packages |-> NoDelta]
Unread == [seq |-> -2, prev |-> Nil, by |-> Nil, packages |-> NoDelta]
head_of(b) == IF Seqs(b) = {} THEN NoLink ELSE chains[b][Max(Seqs(b))]
Links == UNION {{chains[b][s] : s \in Seqs(b)} : b \in Replicas}

put_link(b, link) ==
    [chains EXCEPT ![b] =
        [s \in Seqs(b) \cup {link.seq} |-> IF s \in Seqs(b) THEN chains[b][s] ELSE link]]

\* copy_link: create-if-absent; a seq already taken is left as it stands.
Diverges(b, link) == link.seq \in Seqs(b) /\ chains[b][link.seq] # link
copy_link(b, link) == put_link(b, link)

Rest == [at |-> "idle", head |-> NoLink, delta |-> NoDelta, pending |-> NoDelta, todo |-> {},
         ours |-> {}, pull |-> {}, push |-> {}, synced |-> {}, defer |-> FALSE, link |-> NoLink]

Steps == {"idle", "walk", "list", "peers", "pull", "push", "head", "cas", "mirror", "certify"}

\* The fields stay well typed, every stored link sits under its own seq, and an
\* audit appends at most once per pass, straight after the head it walked from.
ChainTypeOK ==
    /\ view \in Fleets
    /\ shas \in [Packages -> Sha]
    /\ certs \in [Replicas -> [Packages -> Sha]]
    /\ pins \in [Auditors -> Replicas]
    /\ lapses \in 0 .. MaxLapses
    /\ \A b \in Replicas : \A s \in Seqs(b) : chains[b][s].seq = s
    /\ \A n \in Auditors :
          /\ walks[n].at \in Steps
          /\ walks[n].at \in {"cas", "mirror"} => walks[n].link.prev = walks[n].head

\* A corpus that was served, and fingerprinted, before transparency was turned on.
ChainInit ==
    /\ view \in Fleets
    /\ shas = [p \in Packages |-> 1]
    /\ chains = [b \in Replicas |-> [s \in {} |-> NoLink]]
    /\ certs \in [Replicas -> {[p \in Packages |-> 1]}]
    /\ pins = view.pins
    /\ walks = [n \in Auditors |-> Rest]
    /\ lapses = 0

-----------------------------------------------------------------------------
(* Truth and faults.                                                       *)

Lapse == lapses < view.lapses /\ lapses' = lapses + 1

\* An upload, a supersede or a delete of the package's file.
Rewrite(p) ==
    /\ \E sha \in 0 .. view.shas :
          /\ sha = 0 => shas[p] # 0
          /\ sha # 0 => sha > Max({shas[q] : q \in Packages}) /\ shas[p] # 0
          /\ shas' = [shas EXCEPT ![p] = sha]
    /\ UNCHANGED <<view, chains, certs, pins, walks, lapses>>

\* The process dies, or its selection moves and cancels the audit under way.
Switch(n) ==
    /\ Lapse
    /\ walks[n].at # "idle"
    /\ \E b \in Replicas : pins' = [pins EXCEPT ![n] = b]
    /\ walks' = [walks EXCEPT ![n] = Rest]
    /\ UNCHANGED <<view, shas, chains, certs>>

Goes(n, w) == walks' = [walks EXCEPT ![n] = w]
Quits(n) == Goes(n, Rest)
ReadOnly == UNCHANGED <<view, shas, chains, certs, pins>>

-----------------------------------------------------------------------------
(* The walk.                                                               *)

\* The head is read before the first package is: it is the checkpoint's fence.
WalkHead(n) == head_of(pins[n])

BeginAudit(n) ==
    /\ walks[n].at = "idle"
    /\ \/ Goes(n, [Rest EXCEPT !.at = "walk", !.head = WalkHead(n)]) /\ UNCHANGED lapses
       \/ Goes(n, [Rest EXCEPT !.at = "walk", !.head = Unread]) /\ Lapse
    /\ ReadOnly

\* The packages whose fingerprint moved since the one stored in this bucket; on
\* an empty chain every package that holds files.
Churned(n) == {p \in Packages : certs[pins[n]][p] # shas[p]}
Checkpointed(n, head) ==
    IF head = NoLink THEN {p \in Packages : shas[p] # 0} ELSE Churned(n)
Observed(set) == [p \in set |-> shas[p]]

Walk(n) ==
    /\ walks[n].at = "walk"
    /\ IF walks[n].head = Unread
       THEN Quits(n)
       ELSE Goes(n, [walks[n] EXCEPT !.at = "list", !.pending = Observed(Churned(n)),
                        !.delta = Observed(Checkpointed(n, walks[n].head))])
    /\ UNCHANGED lapses
    /\ ReadOnly

-----------------------------------------------------------------------------
(* catch_up_fleet.                                                         *)

ListOwn(n) ==
    /\ walks[n].at = "list"
    /\ \/ /\ Goes(n, [walks[n] EXCEPT !.at = "peers", !.ours = Seqs(pins[n]),
                         !.todo = Replicas \ {pins[n]}, !.synced = {pins[n]}])
          /\ UNCHANGED lapses
       \/ Quits(n) /\ Lapse
    /\ ReadOnly

\* The lowest and the highest seq that both hold.
first_contradiction(b, c, ours) ==
    LET shared == ours \cap Seqs(c)
    IN  shared # {} /\ \E s \in {Min(shared), Max(shared)} : chains[b][s] # chains[c][s]

PeerOf(n) == Min(walks[n].todo)
Next_peer(n) == [walks[n] EXCEPT !.at = "peers", !.todo = walks[n].todo \ {PeerOf(n)}, !.pull = {}, !.push = {}]
Deferred(n) == [Next_peer(n) EXCEPT !.defer = TRUE]
Synced(n) == [Next_peer(n) EXCEPT !.synced = walks[n].synced \cup {PeerOf(n)}]

\* Pull what is missing here, then push what is missing there.
CatchUp(n, ours, pull, push) ==
    IF pull = {} /\ push = {}
    THEN [Synced(n) EXCEPT !.ours = ours]
    ELSE [walks[n] EXCEPT !.at = IF pull # {} THEN "pull" ELSE "push", !.ours = ours,
                          !.pull = pull, !.push = push]

\* A peer that cannot be listed or compared defers the append; a fork is left
\* alone; any other is caught up, in both directions.
ListPeer(n) ==
    LET w == walks[n]
        c == PeerOf(n)
        pull == Seqs(c) \ w.ours
        push == w.ours \ Seqs(c)
    IN  /\ w.at = "peers" /\ w.todo # {}
        /\ \/ Goes(n, Deferred(n)) /\ Lapse
           \/ /\ IF first_contradiction(pins[n], c, w.ours)
                 THEN Goes(n, Next_peer(n))
                 ELSE Goes(n, CatchUp(n, w.ours, pull, push))
              /\ UNCHANGED lapses
        /\ ReadOnly

\* Oldest first, onto the pin.  Whatever stops it defers the append.
Pull(n) ==
    LET w == walks[n]
        link == chains[PeerOf(n)][Min(w.pull)]
    IN  /\ w.at = "pull"
        /\ \/ /\ IF Diverges(pins[n], link)
                 THEN Goes(n, Deferred(n))
                 ELSE Goes(n, CatchUp(n, w.ours \cup {link.seq}, w.pull \ {link.seq}, w.push))
              /\ chains' = copy_link(pins[n], link)
              /\ UNCHANGED lapses
           \/ Goes(n, Deferred(n)) /\ Lapse /\ UNCHANGED chains
        /\ UNCHANGED <<view, shas, certs, pins>>

\* Oldest first, to the peer.  A failure leaves the peer behind, and in sync.
Push(n) ==
    LET w == walks[n]
        link == chains[pins[n]][Min(w.push)]
    IN  /\ w.at = "push"
        /\ \/ /\ IF Diverges(PeerOf(n), link)
                 THEN Goes(n, Next_peer(n))
                 ELSE Goes(n, CatchUp(n, w.ours, {}, w.push \ {link.seq}))
              /\ chains' = copy_link(PeerOf(n), link)
              /\ UNCHANGED lapses
           \/ Goes(n, Synced(n)) /\ Lapse /\ UNCHANGED chains
        /\ UNCHANGED <<view, shas, certs, pins>>

Pulled(n) ==
    /\ walks[n].at = "peers" /\ walks[n].todo = {}
    /\ IF walks[n].delta = NoDelta \/ walks[n].defer
       THEN Quits(n)
       ELSE Goes(n, [walks[n] EXCEPT !.at = "head", !.ours = {}, !.defer = FALSE])
    /\ UNCHANGED lapses
    /\ ReadOnly

-----------------------------------------------------------------------------
(* append_chain_link.                                                      *)

\* Mutant: each leader takes its own bucket for the arbiter.
OwnArbiter(n) == pins[n]

Arbiter(n) == Min(walks[n].synced)
\* The walk's head, if it still is the pin's.
Onto(n) == IF head_of(pins[n]) = walks[n].head THEN walks[n].head ELSE Unread
NextSeq(head) == head.seq + 1

\* Behind is allowed; at or past the seq, or on other bytes just below it, is not.
ChainsOn(b, head) ==
    LET held == head_of(b)
    IN  held.seq < NextSeq(head) /\ (held.seq + 1 = NextSeq(head) => held = head)

\* The pin's head and then the arbiter's; the new link is made in between.
ReadHeads(n) ==
    LET w == walks[n]
        head == Onto(n)
        link == [seq |-> NextSeq(head), prev |-> head, by |-> n, packages |-> w.delta]
    IN  /\ w.at = "head"
        /\ \/ /\ IF head # Unread /\ (Arbiter(n) # pins[n] => ChainsOn(Arbiter(n), head))
                 THEN Goes(n, [w EXCEPT !.at = "cas", !.link = link])
                 ELSE Quits(n)
              /\ UNCHANGED lapses
           \/ Quits(n) /\ Lapse
        /\ ReadOnly

Free(b, seq) == seq \notin Seqs(b)

\* Nothing is left to mirror, and nothing to store a fingerprint for.
Mirroring(w, todo) ==
    IF todo # {} THEN [w EXCEPT !.at = "mirror", !.todo = todo]
    ELSE IF w.pending = NoDelta THEN Rest
    ELSE [Rest EXCEPT !.at = "certify", !.pending = w.pending]

\* put_if_none_match on the arbiter; an error may hide a write that landed.
AppendLink(n) ==
    LET w == walks[n]
        b == Arbiter(n)
        landed == put_link(b, w.link)
    IN  /\ w.at = "cas"
        /\ \/ /\ Free(b, w.link.seq)
              /\ Goes(n, Mirroring(w, w.synced \ {b}))
              /\ chains' = landed
              /\ UNCHANGED lapses
           \/ /\ ~Free(b, w.link.seq)
              /\ Quits(n)
              /\ UNCHANGED <<chains, lapses>>
           \/ /\ Quits(n)
              /\ Lapse
              /\ chains' \in {chains, IF Free(b, w.link.seq) THEN landed ELSE chains}
        /\ UNCHANGED <<view, shas, certs, pins>>

\* The link is mirrored to every bucket found in sync; a failure is only logged.
Mirror(n) ==
    LET w == walks[n]
    IN  /\ w.at = "mirror"
        /\ Goes(n, Mirroring(w, w.todo \ {PeerOf(n)}))
        /\ \/ chains' = copy_link(PeerOf(n), w.link) /\ UNCHANGED lapses
           \/ Lapse /\ UNCHANGED chains
        /\ UNCHANGED <<view, shas, certs, pins>>

\* Only now do the fingerprints of the committed packages advance.
Certify(n) ==
    LET w == walks[n]
        stored == [p \in Packages |-> IF p \in DOMAIN w.pending THEN w.pending[p] ELSE certs[pins[n]][p]]
    IN  /\ w.at = "certify"
        /\ Quits(n)
        /\ \/ certs' = [certs EXCEPT ![pins[n]] = stored] /\ UNCHANGED lapses
           \/ Lapse /\ UNCHANGED certs
        /\ UNCHANGED <<view, shas, chains, pins>>

AuditStep(n) ==
    \/ BeginAudit(n) \/ Walk(n) \/ ListOwn(n) \/ ListPeer(n) \/ Pull(n) \/ Push(n)
    \/ Pulled(n) \/ ReadHeads(n) \/ AppendLink(n) \/ Mirror(n) \/ Certify(n)

ChainNext ==
    \/ \E p \in Churning : Rewrite(p)
    \/ \E n \in Auditors : AuditStep(n) \/ Switch(n)

ChainSpec == ChainInit /\ [][ChainNext]_chainVars

\* Some node leads and keeps auditing; its audits finish.
ChainFairness == \A n \in Auditors : WF_chainVars(AuditStep(n))

-----------------------------------------------------------------------------
(* verify-chain.                                                           *)

\* The faults of one bucket's chain, in seq order.
check_integrity(b) ==
    LET below(s) == {t \in Seqs(b) : t < s}
        prev(s) == Max(below(s))
    IN  {"bad-genesis" : s \in {t \in Seqs(b) : below(t) = {} /\ (t # 0 \/ chains[b][t].prev # NoLink)}}
        \cup {"gap" : s \in {t \in Seqs(b) : below(t) # {} /\ prev(t) # t - 1}}
        \cup {"broken-link" : s \in {t \in Seqs(b) : below(t) # {} /\ chains[b][t].prev # chains[b][prev(t)]}}

Clean == {b \in Replicas : Seqs(b) # {} /\ check_integrity(b) = {}}

\* The longest clean chain; among equals the last (max_by_key).
Reference == Max({b \in Clean : \A c \in Clean : Max(Seqs(c)) <= Max(Seqs(b))})

\* The last link that names the package decides.
replay(b, p) ==
    LET named == {s \in Seqs(b) : p \in DOMAIN chains[b][s].packages}
    IN  IF named = {} THEN 0 ELSE chains[b][Max(named)].packages[p]

diverged(b) ==
    \E s \in Seqs(b) : s \notin Seqs(Reference) \/ chains[Reference][s] # chains[b][s]

\* A deleted file is covered by its tombstone, so nothing ever vanishes here.
verify_chain ==
    UNION {check_integrity(b) : b \in Replicas}
    \cup (IF Clean = {} THEN {}
          ELSE {"chain-diverged" : b \in {c \in Clean : diverged(c)}}
               \cup {"hash-changed" : p \in
                        {q \in Packages : shas[q] # 0 /\ replay(Reference, q) \notin {0, shas[q]}}})

-----------------------------------------------------------------------------
(* Properties.                                                             *)

\* No two buckets hold different links at one seq, whichever bucket each leader
\* is pinned to and whatever call fails.
NoFork ==
    \A b, c \in Replicas : \A s \in Seqs(b) \cap Seqs(c) : chains[b][s] = chains[c][s]

\* The last commitment of a package over all the buckets.
Committed(p) ==
    LET named == {l \in Links : p \in DOMAIN l.packages}
        last == Max({l.seq : l \in named})
    IN  IF named = {} THEN {0} ELSE {l.packages[p] : l \in {k \in named : k.seq = last}}

\* Once there is a chain, a package whose stored fingerprint matches its truth
\* is committed at that truth.  No audit would commit it again, so verify-chain
\* would report a tamper that nobody committed.
Vouched ==
    Links # {} =>
        \A b \in Replicas, p \in Packages : certs[b][p] = shas[p] => Committed(p) = {shas[p]}

\* Once truth rests, verify-chain falls silent for good: holes left by failed
\* copies are filled and every change is committed.
Clears == <>[](verify_chain = {} /\ \A p \in Packages : Committed(p) = {shas[p]})

(* worker.rs write_chain_link: no two buckets hold different links at one place of
   the chain, and a package whose stored fingerprint matches its truth is committed
   at that truth. *)
ChainSafe == ChainTypeOK /\ NoFork /\ Vouched
=============================================================================
