-------------------------- MODULE SnowstormDirected --------------------------
(***************************************************************************)
(* The snowstorm conflict graph `Directed` (src/unnamed/part_001) with the *)
(* two dependency blockers it drives (pendingAccept, pendingReject).       *)
(*                                                                         *)
(* The engine is single-threaded: Add and RecordPoll each run to the end,  *)
(* including every accept / reject cascade triggered through the blockers, *)
(* so each is ONE action.  A cascade is computed by recursive operators    *)
(* over a record `s` holding the whole state (see Current).                *)
(*                                                                         *)
(* A nil *directedTx dereference in the Go code (a map lookup of a         *)
(* transaction no longer in dg.txs followed by a field access) is a panic  *)
(* that ends the process: the action then only records the cause in       *)
(* `crash`, and no further step is possible.                               *)
(***************************************************************************)
EXTENDS Naturals, FiniteSets, Sequences, SequencesExt

CONSTANTS
  Tx,            \* transaction ids
  UTXO,          \* input (UTXO) ids
  Inputs,        \* Inputs[t]: tx.InputIDs()
  Deps,          \* Deps[t]:   ids of tx.Dependencies()
  BetaVirtuous,  \* params.BetaVirtuous
  BetaRogue,     \* params.BetaRogue
  MaxPolls,      \* bound on RecordPoll calls (model bound, not in the code)
  VMVerify,      \* the VM refuses txs spending a UTXO an accepted tx consumed
  Imported,      \* UTXOs held in the source chain's shared memory (ImportTx.ImportedIns)
  MayFail        \* tx.Accept() and tx.Reject() may return an error

ASSUME Inputs \in [Tx -> SUBSET UTXO]
ASSUME Deps \in [Tx -> SUBSET Tx]
ASSUME BetaVirtuous \in Nat \ {0} /\ BetaRogue \in Nat /\ BetaRogue >= BetaVirtuous
ASSUME MaxPolls \in Nat
ASSUME VMVerify \in BOOLEAN /\ MayFail \in BOOLEAN /\ Imported \subseteq UTXO

\* choices.Status of a transaction
Processing == "Processing"
Accepted   == "Accepted"
Rejected   == "Rejected"
Decided(st) == st \in {Accepted, Rejected}

\* Causes of a nil-pointer panic
NoCrash          == "none"
AddStaleSpender  == "AddStaleSpender"   \* Add: conflict := dg.txs[..]; conflict.rogue
RejectMissing    == "RejectMissing"     \* reject: conf := dg.txs[..]; conf.ins
RedirectMissing  == "RedirectMissing"   \* redirectEdge: conflict.bias

VARIABLES
  txs,            \* keys of dg.txs: the transactions in the conflict graph
  node,           \* node[t]: the directedTx of t (kept after it leaves dg.txs,
                  \*   as the accepter / rejector still point to it)
  utxos,          \* utxos[u]: dg.utxos[u]; {} stands for an absent key
  virtuous, virtuousVoting, preferences,   \* the sets of `common`
  currentVote,    \* common.currentVote
  status,         \* status[t]: tx.Status()
  acc,            \* acc[t]: the directedAccepter of t (deps, rejected)
  rej,            \* rej[t]: the directedRejector of t (deps, rejected)
  paQ,            \* paQ[d]: pendingAccept blocker, txs whose accepter waits on d
  prQ,            \* prQ[d]: pendingReject blocker, txs whose rejector waits on d
  crash,          \* NoCrash, or the cause of the panic that ended the process
  errs,           \* dg.errs.Errored(): a decision callback returned an error
  shared,         \* the imported UTXOs still in shared memory
  streak          \* history: streak[t] counts the consecutive polls, up to
                  \*   the last one, whose votes.Threshold() was exactly {t}

vars == <<txs, node, utxos, virtuous, virtuousVoting, preferences,
          currentVote, status, acc, rej, paQ, prQ, crash, errs, shared, streak>>

NewNode == [bias |-> 0, confidence |-> 0, lastVote |-> 0, rogue |-> FALSE,
            pendingAccept |-> FALSE, accepted |-> FALSE, ins |-> {}, outs |-> {}]
NoBlockable == [deps |-> {}, rejected |-> FALSE]

Current == [txs |-> txs, node |-> node, utxos |-> utxos, virtuous |-> virtuous,
            virtuousVoting |-> virtuousVoting, preferences |-> preferences,
            currentVote |-> currentVote, status |-> status, acc |-> acc,
            rej |-> rej, paQ |-> paQ, prQ |-> prQ, crash |-> crash,
            errs |-> errs, shared |-> shared, fail |-> {}, stop |-> FALSE]

\* Commit the state computed by a handler; a panic leaves only its cause.
Commit(s) ==
  \E r \in {s} :
    IF r.crash # NoCrash
    THEN /\ crash' = r.crash
         /\ UNCHANGED <<txs, node, utxos, virtuous, virtuousVoting, preferences,
                        currentVote, status, acc, rej, paQ, prQ, errs, shared>>
    ELSE /\ txs' = r.txs /\ node' = r.node /\ utxos' = r.utxos
         /\ virtuous' = r.virtuous /\ virtuousVoting' = r.virtuousVoting
         /\ preferences' = r.preferences /\ currentVote' = r.currentVote
         /\ status' = r.status /\ acc' = r.acc /\ rej' = r.rej
         /\ paQ' = r.paQ /\ prQ' = r.prQ /\ crash' = NoCrash
         /\ errs' = r.errs /\ shared' = r.shared

Crashed(s, cause) == IF s.crash = NoCrash THEN [s EXCEPT !.crash = cause] ELSE s

\* Blocker.Register: append t to the list of every dependency id.
Enqueue(q, deps, t) == [k \in deps |-> Append(q[k], t)] @@ q

\* The undecided dependencies of t (the `!dependency.Status().Decided()` loop).
UndecidedDeps(s, t) == {d \in Deps[t] : ~Decided(s.status[d])}

(***************************************************************************)
(* Cascades.  ids.Set.List() iterates a Go map; the model takes the fixed  *)
(* order SetToSeq chooses (the result does not depend on it except for     *)
(* which of two equivalent panics is hit first).                           *)
(***************************************************************************)
RECURSIVE RejectSeq(_, _), RejectTx(_, _), FulfillRejectors(_, _),
          AccepterUpdate(_, _), FulfillAccepters(_, _, _),
          NotifyFulfillRejectors(_, _, _, _), Notify(_, _, _, _)

\* reject(ids...) as the pair <<state, returned error>>: the loop returns
\* at the first conf.tx.Reject() error.  An error a nested rejector added
\* to dg.errs is not returned, so the loop goes on.
RejectSeq(s, ids) ==
  IF ids = <<>> \/ s.crash # NoCrash THEN <<s, FALSE>>
  ELSE LET r == RejectTx(s, Head(ids))
       IN IF r[2] THEN r ELSE RejectSeq(r[1], Tail(ids))

Neighbours(s, c) == (s.node[c].ins \cup s.node[c].outs) \cap (s.txs \ {c})

\* removeConflict(c, ins...) and removeConflict(c, outs...)
RemoveConflict(s, c) ==
  [n \in Neighbours(s, c) |-> [s.node[n] EXCEPT !.ins = @ \ {c}, !.outs = @ \ {c}]]
    @@ s.node

\* Variant: removeConflict without the `dg.preferences.Add(neighborID)`.
DetachNoPrefer(s, c) ==
  [s EXCEPT
     !.txs = @ \ {c},
     !.node = RemoveConflict(s, c),
     !.preferences = @ \ {c},
     !.status[c] = Rejected,
     !.acc = [x \in ToSet(s.paQ[c]) |-> [s.acc[x] EXCEPT !.rejected = TRUE]] @@ s.acc,
     !.paQ[c] = <<>>,
     !.prQ[c] = <<>>]

\* reject's loop body before conf.tx.Reject(): delete c from dg.txs and
\* dg.preferences and detach it from its neighbours (removeConflict).
Unlink(s, c) ==
  [s EXCEPT
     !.txs = @ \ {c},
     !.node = RemoveConflict(s, c),
     !.preferences = (@ \ {c}) \cup {n \in Neighbours(s, c) : RemoveConflict(s, c)[n].outs = {}}]

\* One iteration of reject's loop up to the blockers: Unlink, mark c
\* Rejected, and pendingAccept.Abandon(c).
Detach(s, c) ==
  [Unlink(s, c) EXCEPT
     !.status[c] = Rejected,
     !.acc = [x \in ToSet(s.paQ[c]) |-> [s.acc[x] EXCEPT !.rejected = TRUE]] @@ s.acc,
     !.paQ[c] = <<>>,
     !.prQ[c] = <<>>]

\* Variant: the rejector drops the error reject() returned.
RejectFailedSwallowed(s, c) == Unlink(s, c)

\* conf.tx.Reject() fails: the caller (accepter or rejector) adds the
\* returned error to dg.errs.
RejectFailed(s, c) == [Unlink(s, c) EXCEPT !.errs = TRUE]

\* One iteration of reject's loop, ending with pendingReject.Fulfill(c).
\* If conf.tx.Reject() fails, c is already out of the graph but stays
\* Processing, and neither blocker hears of it.
RejectTx(s, c) ==
  IF c \notin s.txs THEN <<Crashed(s, RejectMissing), FALSE>>
  ELSE IF c \in s.fail THEN <<RejectFailed(s, c), TRUE>>
  ELSE <<FulfillRejectors(Detach(s, c), s.prQ[c]), FALSE>>

\* directedRejector.Fulfill for each rejector in the blocker's list.
FulfillRejectors(s, waiting) ==
  IF waiting = <<>> \/ s.crash # NoCrash THEN s
  ELSE LET r  == Head(waiting)
           s1 == IF s.rej[r].rejected \/ s.errs THEN s
                 ELSE RejectTx([s EXCEPT !.rej[r].rejected = TRUE], r)[1]
       IN FulfillRejectors(s1, Tail(waiting))

\* Variant: the accepted tx's rejectors are fulfilled instead of abandoned.
NotifyFulfillRejectors(s, t, waitA, waitR) ==
  FulfillRejectors(FulfillAccepters(s, t, waitA), waitR)

\* pendingAccept.Fulfill(id); pendingReject.Abandon(id) (a no-op on rejectors).
Notify(s, t, waitA, waitR) == FulfillAccepters(s, t, waitA)

\* ImportTx.ExecuteWithSideEffects: SpendUTXO of every imported input on a
\* versiondb over shared memory, committed in the accept batch.
ExecuteWithSideEffects(s, t) == [s EXCEPT !.shared = @ \ Inputs[t]]

\* Variant: ExecuteWithSideEffects writes shared memory before it fails.
AcceptFailedSpent(s, t) == [ExecuteWithSideEffects(s, t) EXCEPT !.errs = TRUE]

\* tx.Accept() fails: the versiondb over shared memory is never committed.
AcceptFailed(s, t) == [s EXCEPT !.errs = TRUE]

\* directedAccepter.Update. tx.Accept() runs ImportTx.ExecuteWithSideEffects,
\* which spends the imported UTXOs through a versiondb: all or none.  Only
\* an error reject() returns stops it; one a nested rejector put in
\* dg.errs does not, and the tx is accepted with dg.errs set.
AccepterUpdate(s, t) ==
  IF s.acc[t].rejected \/ s.acc[t].deps # {} \/ s.crash # NoCrash \/ s.errs THEN s
  ELSE
  LET fn == s.node[t]
      s1 == [s EXCEPT
               !.txs = @ \ {t},
               !.utxos = [u \in Inputs[t] |-> {}] @@ s.utxos,
               !.virtuous = @ \ {t},
               !.preferences = @ \ {t}]
      ri == RejectSeq(s1, SetToSeq(fn.ins))
      ro == IF ri[2] THEN ri ELSE RejectSeq(ri[1], SetToSeq(fn.outs))
      s2 == ro[1]
      s3 == [ExecuteWithSideEffects(s2, t) EXCEPT !.status[t] = Accepted,
               !.node[t].accepted = TRUE, !.paQ[t] = <<>>, !.prQ[t] = <<>>]
  IN IF s2.crash # NoCrash \/ ro[2] THEN s2
     ELSE IF t \in s.fail THEN AcceptFailed(s2, t)
     ELSE Notify(s3, t, s2.paQ[t], s2.prQ[t])

\* Variant: directedAccepter.Fulfill without `a.deps.Remove(id)`.
FulfillAcceptersKeepDep(s, id, waiting) ==
  IF waiting = <<>> \/ s.crash # NoCrash THEN s
  ELSE LET a == Head(waiting)
       IN FulfillAccepters(AccepterUpdate(s, a), id, Tail(waiting))

\* pendingAccept.Fulfill(id): directedAccepter.Fulfill for each waiting one.
FulfillAccepters(s, id, waiting) ==
  IF waiting = <<>> \/ s.crash # NoCrash THEN s
  ELSE LET a == Head(waiting)
       IN FulfillAccepters(AccepterUpdate([s EXCEPT !.acc[a].deps = @ \ {id}], a),
                           id, Tail(waiting))

\* Variant: deferAcceptance registering the accepter with no dependencies.
DeferAcceptanceNoDeps(s, t) ==
  AccepterUpdate([s EXCEPT !.node[t].pendingAccept = TRUE,
                           !.acc[t] = [deps |-> {}, rejected |-> FALSE],
                           !.virtuousVoting = @ \ {t}], t)

\* deferAcceptance, ending with pendingAccept.Register (which calls Update).
DeferAcceptance(s, t) ==
  LET deps == UndecidedDeps(s, t)
  IN AccepterUpdate([s EXCEPT !.node[t].pendingAccept = TRUE,
                              !.acc[t] = [deps |-> deps, rejected |-> FALSE],
                              !.virtuousVoting = @ \ {t},
                              !.paQ = Enqueue(@, deps, t)], t)

\* Variant: redirectEdge without `conflict.ins.Remove(nodeID)`.
RedirectEdgesKeepIns(s, t) ==
  LET outs == s.node[t].outs
      flip == {c \in outs : s.node[t].bias > s.node[c].bias}
  IN IF ~(outs \subseteq s.txs) THEN Crashed(s, RedirectMissing)
     ELSE [s EXCEPT
             !.node = (t :> [s.node[t] EXCEPT !.ins = @ \cup flip, !.outs = @ \ flip])
                      @@ [c \in flip |-> [s.node[c] EXCEPT !.confidence = 0, !.outs = @ \cup {t}]]
                      @@ s.node,
             !.preferences = (@ \ flip) \cup (IF flip # {} /\ outs = flip THEN {t} ELSE {})]

\* redirectEdges(fn): redirectEdge(fn, c) for every c in fn.outs.  Each
\* redirectEdge touches only fn and c, so the loop is computed at once: every
\* conflict with a smaller bias loses its confidence and gets the edge turned
\* towards fn; fn becomes preferred when its last out-edge is turned.
RedirectEdges(s, t) ==
  LET outs == s.node[t].outs
      flip == {c \in outs : s.node[t].bias > s.node[c].bias}
  IN IF ~(outs \subseteq s.txs) THEN Crashed(s, RedirectMissing)
     ELSE [s EXCEPT
             !.node = (t :> [s.node[t] EXCEPT !.ins = @ \cup flip, !.outs = @ \ flip])
                      @@ [c \in flip |-> [s.node[c] EXCEPT !.confidence = 0,
                                                         !.ins = @ \ {t}, !.outs = @ \cup {t}]]
                      @@ s.node,
             !.preferences = (@ \ flip) \cup (IF flip # {} /\ outs = flip THEN {t} ELSE {})]

\* Variant: a poll after a gap decrements the confidence instead of
\* restarting it.
BumpGapDecrement(s, t) ==
  [s EXCEPT !.node[t].confidence = IF s.node[t].lastVote + 1 # s.currentVote THEN @ - 1 ELSE @ + 1,
            !.node[t].lastVote = s.currentVote,
            !.node[t].bias = @ + 1]

\* Variant: the gap test compares lastVote with currentVote itself.
BumpGapLastVote(s, t) ==
  [s EXCEPT !.node[t].confidence = IF s.node[t].lastVote # s.currentVote THEN 1 ELSE @ + 1,
            !.node[t].lastVote = s.currentVote,
            !.node[t].bias = @ + 1]

\* The body of RecordPoll's loop for one thresholded id: reset the
\* confidence after a gap, count the vote, defer acceptance once the
\* confidence reaches beta, then redirect edges unless now accepted.
Bump(s, t) ==
  [s EXCEPT !.node[t].confidence = IF s.node[t].lastVote + 1 # s.currentVote THEN 1 ELSE @ + 1,
            !.node[t].lastVote = s.currentVote,
            !.node[t].bias = @ + 1]

ShouldAccept(n) ==
  /\ ~n.pendingAccept
  /\ \/ ~n.rogue /\ n.confidence >= BetaVirtuous
     \/ n.confidence >= BetaRogue

\* After deferAcceptance, RecordPoll returns if dg.errs is set (by this
\* cascade or an earlier one).
MaybeDefer(s, t) ==
  IF ShouldAccept(s.node[t])
  THEN LET d == DeferAcceptance(s, t) IN [d EXCEPT !.stop = d.errs]
  ELSE s

AfterDefer(s, t) == IF s.node[t].accepted \/ s.stop THEN s ELSE RedirectEdges(s, t)

VoteFor(s, t) ==
  IF t \notin s.txs \/ s.crash # NoCrash THEN s
  ELSE AfterDefer(MaybeDefer(Bump(s, t), t), t)

\* RecordPoll's loop over the thresholded ids, in order.
RECURSIVE VoteAll(_, _)
VoteAll(s, ws) ==
  IF ws = <<>> \/ s.stop THEN s ELSE VoteAll(VoteFor(s, Head(ws)), Tail(ws))

(***************************************************************************)
(* Operations                                                              *)
(***************************************************************************)
Init ==
  /\ txs = {}
  /\ node = [t \in Tx |-> NewNode]
  /\ utxos = [u \in UTXO |-> {}]
  /\ virtuous = {} /\ virtuousVoting = {} /\ preferences = {}
  /\ currentVote = 0
  /\ status = [t \in Tx |-> Processing]
  /\ acc = [t \in Tx |-> NoBlockable]
  /\ rej = [t \in Tx |-> NoBlockable]
  /\ paQ = [t \in Tx |-> <<>>]
  /\ prQ = [t \in Tx |-> <<>>]
  /\ crash = NoCrash
  /\ errs = FALSE
  /\ shared = Imported
  /\ streak = [t \in Tx |-> 0]

\* Issued(tx)
Issued(t) == Decided(status[t]) \/ t \in txs

\* Add(tx).  The caller (the avalanche engine) adds dependencies first.
\* A failing tx.Accept() here returns its error and changes nothing.
AddVacuous(t) ==
  /\ crash = NoCrash
  /\ ~Issued(t)
  /\ \A d \in Deps[t] : Issued(d)
  /\ Inputs[t] = {}
  /\ status' = [status EXCEPT ![t] = Accepted]
  /\ UNCHANGED <<txs, node, utxos, virtuous, virtuousVoting, preferences,
                 currentVote, acc, rej, paQ, prQ, crash, errs, shared, streak>>

\* BaseTx.SemanticVerify: every local input is still an unspent UTXO, i.e.
\* no Accepted transaction consumed it (an accepted tx spends its inputs).
InputsUnspent(t) ==
  \A u \in Inputs[t] \ Imported :
    \A a \in Tx : status[a] = Accepted => u \notin Inputs[a]

\* ImportTx.SemanticVerify: state.UTXO finds every imported input in the
\* source chain's shared memory.
ImportedPresent(t) == Inputs[t] \cap Imported \subseteq shared

\* UniqueTx.SemanticVerify of the AVM: an input that is an output of a
\* rejected transaction is a missing UTXO.
DepsNotRejected(t) == \A d \in Deps[t] : status[d] # Rejected

\* The transactions already spending an input of t (the `spends` sets).
Spenders(t) == UNION {utxos[u] : u \in Inputs[t]}

\* Variant: `spends.Add(txID)` on the local copy, never stored back.
MarkSpentLost(t) == utxos

\* spends.Add(txID); dg.utxos[inputKey] = spends
MarkSpent(t) == [u \in Inputs[t] |-> utxos[u] \cup {t}] @@ utxos

\* Variant: the conflicts are not removed from dg.virtuous.
VirtuousAfterAddKeep(t) == virtuous \cup (IF Spenders(t) = {} THEN {t} ELSE {})

\* dg.virtuous.Remove(conflictID) for every spender, then Add(txID) if not rogue.
VirtuousAfterAdd(t) == (virtuous \ Spenders(t)) \cup (IF Spenders(t) = {} THEN {t} ELSE {})

AddTx(t) ==
  /\ crash = NoCrash
  /\ ~Issued(t)
  /\ \A d \in Deps[t] : Issued(d)
  /\ Inputs[t] # {}
  /\ VMVerify => InputsUnspent(t) /\ ImportedPresent(t) /\ DepsNotRejected(t)
  /\ LET spends == Spenders(t)
         rogue  == spends # {}
         deps   == UndecidedDeps(Current, t)
         s == [Current EXCEPT
                 !.txs = @ \cup {t},
                 !.node = (t :> [NewNode EXCEPT !.outs = spends, !.rogue = rogue])
                          @@ [c \in spends |-> [node[c] EXCEPT !.rogue = TRUE, !.ins = @ \cup {t}]]
                          @@ node,
                 !.utxos = MarkSpent(t),
                 !.virtuous = VirtuousAfterAdd(t),
                 !.virtuousVoting = (@ \ spends) \cup (IF rogue THEN {} ELSE {t}),
                 !.preferences = @ \cup (IF rogue THEN {} ELSE {t}),
                 !.rej[t] = [deps |-> deps, rejected |-> FALSE],
                 !.prQ = Enqueue(@, deps, t)]
     IN Commit(IF spends \subseteq txs THEN s ELSE Crashed(Current, AddStaleSpender))
  /\ UNCHANGED streak

\* RecordPoll(votes): `winners` is votes.Threshold() in List() order.  Votes
\* for ids outside the graph are skipped by the code, so only graph members
\* are enumerated.  `fail` names the tx whose Accept or Reject callback
\* returns an error in this poll, if any (none once dg.errs is set: no
\* callback runs then).
FailChoices == IF MayFail /\ ~errs THEN {{}} \cup {{t} : t \in Tx} ELSE {{}}

RecordPoll ==
  /\ crash = NoCrash
  /\ currentVote < MaxPolls
  /\ \E winners \in SetToAllKPermutations(txs), fail \in FailChoices :
       LET after == VoteAll([Current EXCEPT !.currentVote = @ + 1, !.fail = fail], winners)
       IN /\ Commit(after)
          /\ streak' = [t \in Tx |-> IF winners = <<t>> THEN streak[t] + 1 ELSE 0]

Next ==
  \/ \E t \in Tx : AddVacuous(t) \/ AddTx(t)
  \/ RecordPoll

Spec == Init /\ [][Next]_vars


(***************************************************************************)
(* Properties                                                              *)
(***************************************************************************)
TypeOK ==
  /\ txs \subseteq Tx
  /\ node \in [Tx -> [bias: Nat, confidence: Nat, lastVote: Nat, rogue: BOOLEAN,
                      pendingAccept: BOOLEAN, accepted: BOOLEAN,
                      ins: SUBSET Tx, outs: SUBSET Tx]]
  /\ utxos \in [UTXO -> SUBSET Tx]
  /\ {virtuous, virtuousVoting, preferences} \subseteq SUBSET Tx
  /\ currentVote \in Nat
  /\ status \in [Tx -> {Processing, Accepted, Rejected}]
  /\ acc \in [Tx -> [deps: SUBSET Tx, rejected: BOOLEAN]]
  /\ rej \in [Tx -> [deps: SUBSET Tx, rejected: BOOLEAN]]
  /\ paQ \in [Tx -> Seq(Tx)]
  /\ prQ \in [Tx -> Seq(Tx)]
  /\ crash \in {NoCrash, AddStaleSpender, RejectMissing, RedirectMissing}
  /\ errs \in BOOLEAN /\ shared \subseteq Imported
  /\ streak \in [Tx -> 0..MaxPolls]

\* P2: two transactions spending a common UTXO are never both Accepted,
\* whatever the polls; it rests on Add recording every spender in dg.utxos
\* and on the accepter's Update rejecting the accepted tx's conflicts.
ConflictSafety ==
  \A x, y \in Tx :
    x # y /\ Inputs[x] \cap Inputs[y] # {}
      => ~(status[x] = Accepted /\ status[y] = Accepted)

\* P4: the conflict edges of the transactions in the graph are symmetric,
\* y \in x.outs <=> x \in y.ins, after Add, redirectEdge and removeConflict.
EdgeSymmetry ==
  \A x, y \in txs : y \in node[x].outs <=> x \in node[y].ins

\* P5: dg.preferences holds exactly the transactions in the graph with no
\* out-edge, as maintained by Add, redirectEdge, removeConflict and Update.
PreferredIffNoOuts ==
  preferences = {t \in txs : node[t].outs = {}}

NoAcceptWithUndecidedDeps ==
  \A t \in Tx : status[t] = Accepted => \A d \in Deps[t] : status[d] = Accepted

\* No lost wake-up: every dependency a pending accepter still waits on is
\* undecided and has the accepter in its pendingAccept list, and every
\* undecided dependency of a rejector has it in its pendingReject list, so
\* the decision of the dependency reaches the waiter.
BlockersConsistent ==
  \A t \in txs :
    /\ node[t].pendingAccept =>
         \A d \in acc[t].deps : status[d] = Processing /\ t \in ToSet(paQ[d])
    /\ \A d \in rej[t].deps : status[d] = Processing => t \in ToSet(prQ[d])

\* A transaction in dg.virtuous that is still in the graph has no conflict:
\* Add removes every spender of its inputs from dg.virtuous.
VirtuousUnconflicted ==
  \A t \in virtuous \cap txs : node[t].ins \cup node[t].outs = {}

(* A transaction the graph has issued stays issued (in dg.txs or decided) *)
(* unless the step reports an error: reject() and Update() take a tx out  *)
(* of dg.txs before its Reject / Accept callback, so a failing callback    *)
(* leaves it Processing outside the graph (Issued() is false again), and   *)
(* only the error in dg.errs tells the engine.                             *)
IssuedStable ==
  [][\A t \in Tx : Issued(t) => Issued(t)' \/ errs']_vars

(* Shared memory agrees with the decisions: an imported UTXO has left the  *)
(* source chain's shared memory exactly when a transaction importing it   *)
(* was accepted, also when an Accept callback failed midway.              *)
ImportsConsistent ==
  shared = Imported \ UNION {Inputs[a] : a \in {x \in Tx : status[x] = Accepted}}

\* The confidence a transaction needs: betaRogue once it has a conflict.
Beta(n) == IF n.rogue THEN BetaRogue ELSE BetaVirtuous

(* P3: a poll that makes t the only winner for the beta-th consecutive     *)
(* time, when every dependency of t is already decided, leaves t decided  *)
(* (Accepted, or Rejected by a conflict accepted through its accepter or  *)
(* by a rejected dependency), unless a callback failed.  It takes Bump's  *)
(* gap test (lastVote + 1 = currentVote) over several polls, the          *)
(* pendingAccept flag set by an earlier deferAcceptance, and the           *)
(* accepter's wake-up by the dependencies.  (When a conflict wins in the  *)
(* same poll, redirectEdge resets t's confidence: P3 is about polls whose  *)
(* only winner is t.)                                                      *)
WinnerDecided ==
  [][\A t \in Tx :
       /\ streak'[t] > streak[t]
       /\ streak'[t] >= Beta(node[t])
       /\ \A d \in Deps[t] : Decided(status[d])
       /\ crash' = NoCrash /\ ~errs'
       => Decided(status'[t])]_vars

(* The graph implements the transaction state machine of spec 4.5 under   *)
(* the identity mapping of status, with dg.errs as the reported failure.   *)
TxStatus == INSTANCE SnowstormTxStatus WITH failed <- errs

Refines == TxStatus!Spec

(***************************************************************************)
(* Statements of the spec and of the code's comments that the code does   *)
(* not keep (each is checked by a run that expects a violation).           *)
(***************************************************************************)

\* No operation of the graph dereferences a missing node (spec 4.3 and 4.4:
\* Add, RecordPoll and the accept/reject cascade succeed on the graph's own
\* state): neither Add of a tx spending a UTXO whose spender reject() left in
\* dg.utxos, nor an accepter of a tx rejected meanwhile, nor a second
\* rejection reaching `conf.ins` of a removed node.
NoNilDereference == crash = NoCrash

=============================================================================
