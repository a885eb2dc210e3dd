------------------------------ MODULE Recovery ------------------------------
(***************************************************************************)
(* The recovery store (proxy/content_compressor.py): before a proxy elides *)
(* the middle of a large block it stores the original and puts a handle in *)
(* the shortened view; GET /v1/recovery/<id> returns the original.         *)
(*                                                                         *)
(* Proxies are processes that share the directory.  Originals are stored   *)
(* under a digest of their text, so a text is its own name; each weighs    *)
(* one.  The directory is the sequence of its files by time of last write; *)
(* temporary files bear the writer's process id and are listed by nobody.  *)
(***************************************************************************)
EXTENDS Integers, SequencesExt, Selection

CONSTANTS
  Proxies, Blocks,
  Room,       \* originals the cap allows
  StoreEvery  \* a store prunes when its count of writes is a multiple of it

ASSUME RecoveryAssumption == Room \in Nat /\ StoreEvery \in Nat \ {0}

VARIABLES
  proxy,      \* what each proxy is doing, and its local variables
  originals   \* the files, the one written longest ago first

recoveryVars == <<proxy, originals>>

ProxyPCs == {"idle", "exists", "write", "list", "expire", "weigh", "evict"}
Original == [text : Blocks, old : {"yes", "no"}]
\* `crossed`: another proxy has unlinked or replaced a file this one had listed.
Proxy == [pc : ProxyPCs, text : SUBSET Blocks, wrote : {"yes", "no"},
          writes : 0..(StoreEvery - 1), todo : Seq(Blocks), total : Int, crossed : {"yes", "no"}]
NewProxy == [pc |-> "idle", text |-> {}, wrote |-> "no", writes |-> 0,
             todo |-> <<>>, total |-> 0, crossed |-> "no"]

RecoveryTypeOK ==
  /\ proxy \in [Proxies -> Proxy]
  /\ originals \in Seq(Original)

RecoveryInit ==
  /\ proxy = [p \in Proxies |-> NewProxy]
  /\ originals = <<>>

Stored(t) == \E i \in DOMAIN originals : originals[i].text = t
Except(t) == Select(originals, {f \in ToSet(originals) : f.text # t})
Watermark == (Room * 4) \div 5

InStore(p, pc) == proxy[p].pc = pc
Goto(p, pc) == [proxy EXCEPT ![p].pc = pc]
Finish(p) == [proxy EXCEPT ![p] = [NewProxy EXCEPT !.writes = proxy[p].writes]]
\* `p` unlinks or replaces the file of a text: who had listed it is crossed.
Crossing(p, t, then) ==
  [q \in Proxies |-> IF q # p /\ InStore(q, "evict") /\ t \in ToSet(then[q].todo)
                     THEN [then[q] EXCEPT !.crossed = "yes"] ELSE then[q]]

\* A block of some text is to be elided.
Elide(p) ==
  /\ InStore(p, "idle")
  /\ \E t \in Blocks : proxy' = [proxy EXCEPT ![p].pc = "exists", ![p].text = {t}]
  /\ UNCHANGED originals

\* The write is counted, whether there was one or not; unless it is time to
\* prune, the view with the handle goes upstream.
Counted(p, wrote) ==
  LET writes == (proxy[p].writes + 1) % StoreEvery IN
    [proxy EXCEPT ![p] = IF writes = 0
                         THEN [proxy[p] EXCEPT !.writes = 0, !.pc = "list", !.wrote = wrote,
                                               !.text = IF wrote = "yes" THEN proxy[p].text ELSE {}]
                         ELSE [NewProxy EXCEPT !.writes = writes]]

\* A file that is there is left alone, and keeps its time.
CheckStored(p) ==
  /\ InStore(p, "exists")
  /\ \A t \in proxy[p].text : proxy' = IF Stored(t) THEN Counted(p, "no") ELSE Goto(p, "write")
  /\ UNCHANGED originals

\* The temporary file is written and renamed.
WriteOriginal(p) ==
  /\ InStore(p, "write")
  /\ \A t \in proxy[p].text :
       /\ originals' = Append(Except(t), [text |-> t, old |-> "no"])
       /\ proxy' = Crossing(p, t, Counted(p, "yes"))

\* An error while storing: the block stays as it is.
StoreFails(p) ==
  /\ InStore(p, "write")
  /\ proxy' = Finish(p)
  /\ UNCHANGED originals

\* prune: the directory is listed, and each file stated, and unlinked when it is
\* past the TTL.  One that is gone is passed over.
List(p) ==
  /\ InStore(p, "list")
  /\ proxy' = [proxy EXCEPT ![p].pc = "expire",
                            ![p].todo = [i \in DOMAIN originals |-> originals[i].text]]
  /\ UNCHANGED originals

Expire(p) ==
  /\ InStore(p, "expire")
  /\ IF proxy[p].todo = <<>>
     THEN proxy' = Goto(p, "weigh") /\ UNCHANGED originals
     ELSE LET t == Head(proxy[p].todo)
              next == [proxy EXCEPT ![p].todo = Tail(@)]
          IN IF \E i \in DOMAIN originals : originals[i] = [text |-> t, old |-> "yes"]
             THEN originals' = Except(t) /\ proxy' = Crossing(p, t, next)
             ELSE proxy' = next /\ UNCHANGED originals

\* What is left is listed again and weighed.  A file that is gone by the time
\* it is weighed ends the pruning.
Weigh(p) ==
  /\ InStore(p, "weigh")
  /\ \/ /\ Len(originals) > Room
        /\ proxy' = [proxy EXCEPT ![p].pc = "evict", ![p].total = Len(originals),
                       ![p].crossed = "no",
                       ![p].todo = [i \in DOMAIN originals |-> originals[i].text]]
     \/ Len(originals) <= Room /\ proxy' = Finish(p)
     \/ (\E q \in Proxies \ {p} : proxy[q].todo # <<>>) /\ proxy' = Finish(p)
  /\ UNCHANGED originals

\* The oldest go until eighty per cent of the cap is reached.  One that is gone
\* is passed over, and still counted.
EvictListed(p, t, rest) ==
  /\ originals' = Except(t)
  /\ proxy' = Crossing(p, t, [proxy EXCEPT ![p].todo = rest,
                                           ![p].total = IF Stored(t) THEN @ - 1 ELSE @])

\* Mutant: the newest go first.
EvictOriginal_Newest(p) ==
  /\ InStore(p, "evict")
  /\ LET todo == proxy[p].todo IN
       IF todo = <<>> \/ proxy[p].total <= Watermark
       THEN proxy' = Finish(p) /\ UNCHANGED originals
       ELSE EvictListed(p, Last(todo), Front(todo))
EvictOriginal(p) ==
  /\ InStore(p, "evict")
  /\ LET todo == proxy[p].todo IN
       IF todo = <<>> \/ proxy[p].total <= Watermark
       THEN proxy' = Finish(p) /\ UNCHANGED originals
       ELSE EvictListed(p, Head(todo), Tail(todo))

\* A proxy dies and another starts, with a count of its own.
RestartProxy(p) ==
  /\ proxy[p] # NewProxy
  /\ proxy' = [proxy EXCEPT ![p] = NewProxy]
  /\ UNCHANGED originals

\* Files pass the TTL, of days, in the order of their times, and never during
\* the call that wrote them.
AgeOriginal ==
  /\ \E i \in DOMAIN originals :
       /\ originals[i].old = "no"
       /\ \A j \in 1..(i - 1) : originals[j].old = "yes"
       /\ \A p \in Proxies : proxy[p].wrote # "no" => originals[i].text \notin proxy[p].text
       /\ originals' = [originals EXCEPT ![i].old = "yes"]
  /\ UNCHANGED proxy

RecoveryNext ==
  \/ \E p \in Proxies :
       \/ Elide(p) \/ CheckStored(p) \/ WriteOriginal(p) \/ StoreFails(p)
       \/ List(p) \/ Expire(p) \/ Weigh(p) \/ EvictOriginal(p)
       \/ RestartProxy(p)
  \/ AgeOriginal

RecoverySpec == RecoveryInit /\ [][RecoveryNext]_recoveryVars

-----------------------------------------------------------------------------
(* Correctness.                                                            *)

\* However other proxies store meanwhile, pruning deletes no original that has
\* not expired while it and those written after it fit in eighty per cent of the
\* cap; unless another proxy unlinked or replaced a file the pruner had listed,
\* in which case it goes on counting what is gone and deletes too much.
RecentOriginalsSurvive ==
  [][\A p \in Proxies, i \in DOMAIN originals :
       /\ proxy[p].todo # proxy'[p].todo /\ proxy[p].crossed = "no"
       /\ originals[i].old = "no"
       /\ \A j \in DOMAIN originals' : originals'[j].text # originals[i].text
       => Len(originals) - i >= Watermark]_recoveryVars
=============================================================================
