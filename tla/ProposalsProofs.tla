-------------------------- MODULE ProposalsProofs --------------------------
(***************************************************************************)
(* The stored votes, the proposal and its counts, for any voters,          *)
(* crawlers, chain of events and number of crashes and failures: until two *)
(* crawlers run voteCast for two logs of one voter at a time, no voter has *)
(* two votes; once the crawlers have caught up, what is stored is what the *)
(* chain's events amount to, unless a handler failed, two votes raced or a *)
(* crawler skipped events; and the counts are those of the votes when all  *)
(* is quiet.                                                               *)
(***************************************************************************)
EXTENDS Proposals, SequenceTheorems, WellFoundedInduction, TLAPS

\* An event of its parts is an event.
LEMMA EventType ==
    ASSUME NEW k \in EventKinds, NEW v \in Voters \cup {NoOne}, NEW t \in Nat
    PROVE  Event(k, v, t) \in Events
BY DEF Event, Events

\* Positions of the chain hold events.
LEMMA ChainElements ==
    ASSUME VotesInvariant
    PROVE  \A q \in Positions : chain[q] \in Events /\ q \in Nat
BY ElementOfSeq, LenProperties DEF VotesInvariant, TypeOK, Positions

\* What a transaction may append: no approval by a member who approved before,
\* and the events that the plugin's contract has.
Emittable(events) ==
    /\ events \in Seq(Events)
    /\ \A i \in 1 .. Len(events) :
          /\ events[i].kind = "vote" => kind # "multisig"
          /\ events[i].kind = "approve" =>
                /\ kind = "multisig" /\ Len(events) = 1
                /\ \A q \in Positions : ~(chain[q].kind = "approve" /\ chain[q].who = events[i].who)

\* A longer chain keeps the events it had: every position of a stored vote still
\* names the same event.  No crawler has set out, so none has read anything.
LEMMA EmitKeepsInvariant ==
    ASSUME VotesInvariant, NEW events, Emittable(events), Emit(events)
    PROVE  VotesInvariant'
<1>. DEFINE n == Len(chain)
            m == Len(events)
<1>1. /\ chain \in Seq(Events) /\ events \in Seq(Events) /\ n \in Nat /\ m \in Nat /\ n > 0
      /\ chain' = chain \o events
  BY LenProperties DEF VotesInvariant, TypeOK, Emittable, Emit
<1>2. /\ chain' \in Seq(Events) /\ Len(chain') = n + m
      /\ \A p \in 1 .. n : chain'[p] = chain[p]
      /\ \A p \in n + 1 .. n + m : p - n \in 1 .. m /\ chain'[p] = events[p - n]
  BY <1>1
<1>3. UNCHANGED <<kind, votes, crawler, trouble>> /\ \A k \in Crawlers : crawler[k] = From(1)
  BY DEF Emit, faults
<1>4. TypeOK'
  BY <1>1, <1>2, <1>3 DEF VotesInvariant, TypeOK
<1>5. Positions' = 1 .. n + m /\ Positions = 1 .. n
  BY <1>2 DEF Positions
<1>6. OnTheChain' /\ ReadsHold'
  <2>1. ASSUME NEW k \in Crawlers
        PROVE  /\ crawler'[k].next = 1 /\ crawler'[k].step = "idle" /\ crawler'[k].found = 0
               /\ crawler'[k].gone = FALSE
    BY <1>3 DEF From
  <2>2. 1 \in 1 .. Len(chain') + 1
    BY <1>1, <1>2
  <2>3. OnTheChain'
    BY <2>1, <2>2 DEF OnTheChain
  <2>4. \A k \in Crawlers : ~AtEvent(k, "write", {"vote"})'
    BY <2>1 DEF AtEvent, At
  <2>. QED BY <2>3, <2>4 DEF ReadsHold
<1>7. VotesAreCast' /\ (OneVotePerVoter => OneVotePerVoter')
  BY <1>1, <1>2, <1>3, <1>5 DEF VotesInvariant, VotesAreCast, OneVotePerVoter
<1>8. PluginEvents'
  <2>. SUFFICES ASSUME NEW p \in 1 .. n + m
                PROVE  /\ chain'[p].kind = "vote" => kind # "multisig"
                       /\ chain'[p].kind = "approve" =>
                            /\ kind = "multisig"
                            /\ \A q \in 1 .. n + m :
                                  chain'[q].kind = "approve" /\ chain'[q].who = chain'[p].who => q = p
    BY <1>3, <1>5 DEF PluginEvents
  <2>1. p \in 1 .. n \/ p \in n + 1 .. n + m
    BY <1>1
  <2>2. \A q \in 1 .. n + m : q \in 1 .. n \/ q \in n + 1 .. n + m
    BY <1>1
  <2>3. \A q \in n + 1 .. n + m : chain'[q].kind = "approve" =>
            m = 1 /\ q = n + 1 /\ kind = "multisig"
            /\ \A o \in 1 .. n : ~(chain[o].kind = "approve" /\ chain[o].who = chain'[q].who)
    BY <1>1, <1>2, <1>5 DEF Emittable
  <2>4. CASE p \in 1 .. n
    BY <1>1, <1>2, <1>5, <2>2, <2>3, <2>4 DEF VotesInvariant, PluginEvents
  <2>5. CASE p \in n + 1 .. n + m
    BY <1>1, <1>2, <1>5, <2>2, <2>3, <2>5 DEF Emittable
  <2>. QED BY <2>1, <2>4, <2>5
<1>. QED BY <1>3, <1>4, <1>6, <1>7, <1>8 DEF VotesInvariant

\* Each transaction of the contract is one that may be appended.
LEMMA ContractKeepsInvariant ==
    ASSUME VotesInvariant,
           \/ \E v \in Voters : ChainVotes(v) \/ ChainObjects(v) \/ ChainClears(v) \/ ChainApproves(v)
           \/ \E v, d \in Voters : ChainOverrides(v, d)
           \/ \E k \in {"execute", "cancel", "edit"} : ChainDecides(k)
    PROVE  VotesInvariant'
<1>1. Len(chain) \in Positions
  BY LenProperties DEF VotesInvariant, TypeOK, Positions
<1>2. Now \in Nat
  BY <1>1, ChainElements DEF Now, LastTx, Events
<1>3. \A k \in EventKinds, v \in Voters \cup {NoOne} : Event(k, v, Now) \in Events
  BY <1>2, EventType
<1>4. ASSUME NEW k \in EventKinds, NEW v \in Voters \cup {NoOne}, k # "approve",
             k = "vote" => kind # "multisig"
      PROVE  Emittable(<<Event(k, v, Now)>>)
  BY <1>3, <1>4 DEF Emittable, Event
<1>5. ASSUME NEW k \in EventKinds, NEW v \in Voters, NEW w \in Voters, k # "vote", k # "approve",
             kind # "multisig"
      PROVE  Emittable(<<Event("vote", v, Now), Event(k, w, Now)>>)
  <2>. DEFINE a == Event("vote", v, Now)
              b == Event(k, w, Now)
  <2>1. a \in Events /\ b \in Events
    BY <1>3 DEF EventKinds, VoteEvents
  <2>2. a.kind = "vote" /\ b.kind = k
    BY DEF Event
  <2>. HIDE DEF a, b
  <2>3. <<a, b>> \in Seq(Events) /\ Len(<<a, b>>) = 2 /\ <<a, b>>[1] = a /\ <<a, b>>[2] = b
    BY <2>1
  <2>4. \A i \in 1 .. 2 : <<a, b>>[i].kind # "approve"
    BY <1>5, <2>2, <2>3
  <2>5. Emittable(<<a, b>>)
    BY <1>5, <2>3, <2>4 DEF Emittable
  <2>. QED BY <2>5 DEF a, b
<1>6. ASSUME NEW v \in Voters, ChainApproves(v) PROVE VotesInvariant'
  <2>. DEFINE a == Event("approve", v, Now)
  <2>1. a \in Events /\ a.kind = "approve" /\ a.who = v
    BY <1>3 DEF Event, EventKinds, VoteEvents
  <2>2. kind = "multisig" /\ \A q \in Positions : ~(chain[q].kind = "approve" /\ chain[q].who = v)
    BY <1>6 DEF ChainApproves, Where
  <2>3. Emit(<<a>>)
    BY <1>6 DEF ChainApproves
  <2>. HIDE DEF a
  <2>4. <<a>> \in Seq(Events) /\ Len(<<a>>) = 1 /\ <<a>>[1] = a
    BY <2>1
  <2>5. Emittable(<<a>>)
    BY <2>1, <2>2, <2>4 DEF Emittable
  <2>. QED BY <2>3, <2>5, EmitKeepsInvariant
<1>7. ASSUME NEW v \in Voters, ChainVotes(v) PROVE VotesInvariant'
  <2>1. Emittable(<<Event("vote", v, Now)>>)
    BY <1>4, <1>7 DEF ChainVotes, EventKinds, VoteEvents
  <2>. QED BY <1>7, <2>1, EmitKeepsInvariant DEF ChainVotes
<1>8. ASSUME NEW v \in Voters, ChainClears(v) PROVE VotesInvariant'
  <2>1. Emittable(<<Event("clear", v, Now)>>)
    BY <1>4 DEF EventKinds, VoteEvents
  <2>. QED BY <1>8, <2>1, EmitKeepsInvariant DEF ChainClears
<1>9. ASSUME NEW v \in Voters, ChainObjects(v) PROVE VotesInvariant'
  <2>1. Emittable(<<Event("vote", v, Now), Event("objection", v, Now)>>)
    BY <1>5, <1>9 DEF ChainObjects, EventKinds, VoteEvents
  <2>. QED BY <1>9, <2>1, EmitKeepsInvariant DEF ChainObjects
<1>10. ASSUME NEW v \in Voters, NEW d \in Voters, ChainOverrides(v, d) PROVE VotesInvariant'
  <2>1. Emittable(<<Event("vote", v, Now), Event("override", d, Now)>>)
    BY <1>5, <1>10 DEF ChainOverrides, EventKinds, VoteEvents
  <2>. QED BY <1>10, <2>1, EmitKeepsInvariant DEF ChainOverrides
<1>11. ASSUME NEW k \in {"execute", "cancel", "edit"}, ChainDecides(k) PROVE VotesInvariant'
  <2>1. Emittable(<<Event(k, NoOne, Now)>>)
    BY <1>4 DEF EventKinds, VoteEvents
  <2>. QED BY <1>11, <2>1, EmitKeepsInvariant DEF ChainDecides
<1>. QED BY <1>6, <1>7, <1>8, <1>9, <1>10, <1>11

-----------------------------------------------------------------------------
\* Where a crawler goes on to is on the chain.
LEMMA PassedType ==
    ASSUME VotesInvariant, NEW k \in Crawlers, Current(k) \in Positions,
           NEW s \in {"idle", "find", "write", "send"}
    PROVE  /\ Passed(k, s) \in CrawlerStates /\ Passed(k, s).next \in 1 .. Len(chain) + 1
           /\ Passed(k, s).step = s /\ Passed(k, s).found = 0 /\ ~Passed(k, s).gone
           /\ crawler[k].redrive = {} =>
                /\ Current(k) = crawler[k].next /\ Passed(k, s).next = crawler[k].next + 1
                /\ Passed(k, s).redrive = {}
           /\ crawler[k].redrive # {} =>
                /\ Passed(k, s).next = crawler[k].next
                /\ Passed(k, s).redrive = crawler[k].redrive \ {Current(k)}
<1>. DEFINE l == [crawler[k] EXCEPT !.step = s, !.found = 0, !.gone = FALSE]
<1>1. /\ crawler[k] \in CrawlerStates /\ crawler[k].next \in 1 .. Len(chain) + 1 /\ Len(chain) \in Nat
  BY LenProperties DEF VotesInvariant, TypeOK, OnTheChain
<1>2. /\ l \in CrawlerStates /\ l.next = crawler[k].next /\ l.redrive = crawler[k].redrive
      /\ l.step = s /\ l.found = 0 /\ l.gone = FALSE
  BY <1>1 DEF CrawlerStates
<1>3. Passed(k, s) = IF l.redrive # {} THEN [l EXCEPT !.redrive = @ \ {Current(k)}]
                     ELSE [l EXCEPT !.next = @ + 1]
  BY DEF Passed
<1>. HIDE DEF l
<1>4. CASE crawler[k].redrive = {}
  <2>1. Current(k) = crawler[k].next /\ Passed(k, s) = [l EXCEPT !.next = l.next + 1]
    BY <1>2, <1>3, <1>4 DEF Current
  <2>2. crawler[k].next \in 1 .. Len(chain)
    BY <2>1 DEF Positions
  <2>. QED BY <1>1, <1>2, <1>4, <2>1, <2>2 DEF CrawlerStates
<1>5. CASE crawler[k].redrive # {}
  <2>1. Passed(k, s) = [l EXCEPT !.redrive = l.redrive \ {Current(k)}]
    BY <1>2, <1>3, <1>5
  <2>. QED BY <1>1, <1>2, <1>5, <2>1 DEF CrawlerStates
<1>. QED BY <1>4, <1>5

\* What a step of crawler k leaves of the invariant's parts about crawlers, if the
\* others stay where they are.
LEMMA OthersStay ==
    ASSUME VotesInvariant, NEW k \in Crawlers, NEW l \in CrawlerStates,
           crawler' = [crawler EXCEPT ![k] = l], UNCHANGED chain,
           l.next \in 1 .. Len(chain) + 1, l.step # "write", l.found = 0, ~l.gone
    PROVE  crawler' \in [Crawlers -> CrawlerStates] /\ OnTheChain'
<1>1. crawler \in [Crawlers -> CrawlerStates]
  BY DEF VotesInvariant, TypeOK
<1>2. crawler' \in [Crawlers -> CrawlerStates] /\ crawler'[k] = l
      /\ \A d \in Crawlers \ {k} : crawler'[d] = crawler[d]
  BY <1>1
<1>3. \A d \in Crawlers \ {k} : Current(d)' = Current(d)
  BY <1>2 DEF Current
<1>4. ASSUME NEW d \in Crawlers
      PROVE  LET e == crawler'[d] IN
             /\ e.next \in 1 .. Len(chain) + 1
             /\ e.step # "write" => e.found = 0 /\ ~e.gone
             /\ e.found # 0 => /\ e.found \in Positions /\ Current(d)' \in Positions
                               /\ chain[e.found].kind \in {"vote", "approve"}
                               /\ chain[e.found].who = chain[Current(d)'].who
  <2>1. CASE d = k
    BY <1>2, <2>1
  <2>2. CASE d # k
    <3>1. crawler'[d] = crawler[d] /\ Current(d)' = Current(d)
      BY <1>2, <1>3, <2>2
    <3>. QED BY <3>1 DEF VotesInvariant, OnTheChain
  <2>. QED BY <2>1, <2>2
<1>. QED BY <1>2, <1>4 DEF OnTheChain, Positions

\* A step of one crawler that leaves the votes alone and does not start a
\* transaction keeps the invariant.
LEMMA CrawlerStepKeepsInvariant ==
    ASSUME VotesInvariant, NEW k \in Crawlers, NEW l \in CrawlerStates,
           crawler' = [crawler EXCEPT ![k] = l], UNCHANGED <<kind, chain, votes>>,
           l.next \in 1 .. Len(chain) + 1, l.step # "write", l.found = 0, ~l.gone,
           trouble' \subseteq {"lost", "raced", "skipped"}, "raced" \in trouble => "raced" \in trouble'
    PROVE  VotesInvariant'
<1>1. crawler \in [Crawlers -> CrawlerStates] /\ crawler' \in [Crawlers -> CrawlerStates] /\ OnTheChain'
  BY OthersStay DEF VotesInvariant, TypeOK
<1>2. TypeOK' /\ PluginEvents' /\ VotesAreCast' /\ (OneVotePerVoter => OneVotePerVoter')
  BY <1>1 DEF VotesInvariant, TypeOK, PluginEvents, VotesAreCast, OneVotePerVoter, Positions
<1>3. ReadsHold => ReadsHold'
  <2>. SUFFICES ASSUME ReadsHold, NEW d \in Crawlers, AtEvent(d, "write", {"vote"})'
                PROVE  (\/ Stored(Current(d))
                        \/ \A r \in Mine(chain[Current(d)].who) : r.pos = crawler[d].found /\ ~crawler[d].gone)'
    BY DEF ReadsHold
  <2>1. d # k
    BY <1>1 DEF AtEvent, At
  <2>2. crawler'[d] = crawler[d]
    BY <1>1, <2>1
  <2>3. Current(d)' = Current(d) /\ AtEvent(d, "write", {"vote"})
    BY <2>2 DEF AtEvent, At, Current, Positions
  <2>. QED BY <2>2, <2>3 DEF ReadsHold, Stored, Mine
<1>. QED BY <1>1, <1>2, <1>3 DEF VotesInvariant

\* Steps of the messages and of the metrics service.
LEMMA UnchangedVotes ==
    ASSUME VotesInvariant, UNCHANGED <<kind, chain, votes, crawler, trouble>>
    PROVE  VotesInvariant'
BY DEF VotesInvariant, TypeOK, OnTheChain, PluginEvents, VotesAreCast, OneVotePerVoter, ReadsHold,
       Stored, Mine, AtEvent, At, Current, Positions

\* findVoteOnPlugin finds a vote of its voter, and the voter's only one.
LEMMA OnPluginFindsTheVote ==
    ASSUME VotesInvariant, NEW v
    PROVE  /\ OnPlugin(v) \subseteq Mine(v)
           /\ OneVotePerVoter => OnPlugin(v) = Mine(v)
           /\ OneVotePerVoter => \A r \in OnPlugin(v), s \in votes : s.who = v => s = r
<1>1. ASSUME OneVotePerVoter, NEW r \in votes, NEW s \in votes, r.who = v, s.who = v
      PROVE  r = s /\ chain[s.pos].tx <= chain[r.pos].tx
  <2>1. r = s
    BY <1>1 DEF OneVotePerVoter
  <2>2. chain[r.pos].tx \in Nat
    BY ChainElements DEF VotesInvariant, VotesAreCast, Events
  <2>. QED BY <2>1, <2>2
<1>. QED BY <1>1 DEF OnPlugin, Mine

\* A handler that has read goes on to what it does next.
LEMMA GoKeepsInvariant ==
    ASSUME VotesInvariant, NEW k \in Crawlers, NEW s \in {"find", "write"}, NEW f,
           Go(k, s, f), crawler[k].step # "write", Current(k) \in Positions,
           UNCHANGED <<kind, chain, votes, trouble>>,
           \/ f = 0
           \/ /\ s = "write" /\ f \in Positions /\ chain[f].kind \in {"vote", "approve"}
              /\ chain[f].who = chain[Current(k)].who,
           s = "write" /\ chain[Current(k)].kind = "vote" /\ OneVotePerVoter =>
              \A r \in Mine(chain[Current(k)].who) : r.pos = f
    PROVE  VotesInvariant'
<1>1. crawler \in [Crawlers -> CrawlerStates] /\ f \in Nat
  BY ChainElements DEF VotesInvariant, TypeOK
<1>2. crawler[k].found = 0 /\ ~crawler[k].gone /\ crawler[k] \in CrawlerStates
      /\ crawler[k].next \in 1 .. Len(chain) + 1
  BY <1>1 DEF VotesInvariant, OnTheChain
<1>3. /\ crawler' \in [Crawlers -> CrawlerStates]
      /\ crawler'[k].next = crawler[k].next /\ crawler'[k].redrive = crawler[k].redrive
      /\ crawler'[k].step = s /\ crawler'[k].found = f /\ crawler'[k].gone = FALSE
      /\ \A d \in Crawlers \ {k} : crawler'[d] = crawler[d]
  <2>. DEFINE l == [crawler[k] EXCEPT !.step = s, !.found = f]
  <2>1. /\ l \in CrawlerStates /\ l.next = crawler[k].next /\ l.redrive = crawler[k].redrive
        /\ l.step = s /\ l.found = f /\ l.gone = crawler[k].gone
    BY <1>1, <1>2 DEF CrawlerStates
  <2>2. crawler[k].gone = FALSE
    BY <1>2 DEF CrawlerStates
  <2>3. crawler' = [crawler EXCEPT ![k] = l]
    BY <1>1 DEF Go
  <2>. HIDE DEF l
  <2>. QED BY <1>1, <2>1, <2>2, <2>3
<1>4. \A d \in Crawlers : Current(d)' = Current(d)
  BY <1>3 DEF Current
<1>5. OnTheChain'
  <2>1. ASSUME NEW d \in Crawlers
        PROVE  LET e == crawler'[d] IN
               /\ e.next \in 1 .. Len(chain) + 1
               /\ e.step # "write" => e.found = 0 /\ ~e.gone
               /\ e.found # 0 => /\ e.found \in Positions /\ Current(d)' \in Positions
                                 /\ chain[e.found].kind \in {"vote", "approve"}
                                 /\ chain[e.found].who = chain[Current(d)'].who
    <3>1. CASE d = k
      BY <1>2, <1>3, <1>4, <3>1
    <3>2. CASE d # k
      BY <1>3, <1>4, <3>2 DEF VotesInvariant, OnTheChain
    <3>. QED BY <3>1, <3>2
  <2>. QED BY <2>1 DEF OnTheChain, Positions
<1>6. TypeOK' /\ PluginEvents' /\ VotesAreCast' /\ (OneVotePerVoter => OneVotePerVoter')
  BY <1>3 DEF VotesInvariant, TypeOK, PluginEvents, VotesAreCast, OneVotePerVoter, Positions
<1>7. ReadsHold /\ OneVotePerVoter => ReadsHold'
  <2>. SUFFICES ASSUME ReadsHold, OneVotePerVoter, NEW d \in Crawlers, AtEvent(d, "write", {"vote"})'
                PROVE  \/ Stored(Current(d))
                       \/ \A r \in Mine(chain[Current(d)].who) : r.pos = crawler'[d].found /\ ~crawler'[d].gone
    BY <1>4 DEF ReadsHold, Stored, Mine
  <2>1. /\ Current(d) \in Positions /\ crawler'[d].step = "write" /\ chain[Current(d)].kind = "vote"
    BY <1>4 DEF AtEvent, At, Positions
  <2>2. CASE d = k
    BY <1>3, <2>1, <2>2
  <2>3. CASE d # k
    BY <1>3, <2>1, <2>3 DEF ReadsHold, AtEvent, At
  <2>. QED BY <2>2, <2>3
<1>. QED BY <1>5, <1>6, <1>7 DEF VotesInvariant

\* The handlers' reads, early returns and failures, messages and crashes.
LEMMA CrawlerKeepsInvariant ==
    ASSUME VotesInvariant, NEW k \in Crawlers,
           \/ IgnoreVote(k) \/ FindLog(k) \/ FindVote(k)
           \/ FindProposal(k) \/ ProposalCreated(k) \/ ProposalExecuted(k) \/ ProposalUpdated(k)
           \/ HandlerFails(k) \/ CreateFailsHalfway(k) \/ SendMessage(k) \/ SendFails(k) \/ Crash(k)
    PROVE  VotesInvariant'
<1>0. /\ crawler \in [Crawlers -> CrawlerStates] /\ crawler[k] \in CrawlerStates
      /\ trouble \subseteq {"lost", "raced", "skipped"} /\ Len(chain) \in Nat
      /\ crawler[k].next \in 1 .. Len(chain) + 1
      /\ crawler[k].step # "write" => crawler[k].found = 0 /\ ~crawler[k].gone
  BY LenProperties DEF VotesInvariant, TypeOK, OnTheChain
<1>1. ASSUME NEW s \in {"idle", "send"}, Pass(k, s), Current(k) \in Positions,
             UNCHANGED <<kind, chain, votes>>, trouble' = trouble \/ trouble' = trouble \cup {"lost"}
      PROVE  VotesInvariant'
  <2>1. /\ Passed(k, s) \in CrawlerStates /\ Passed(k, s).next \in 1 .. Len(chain) + 1
        /\ Passed(k, s).step = s /\ Passed(k, s).found = 0 /\ ~Passed(k, s).gone
    BY <1>1, PassedType
  <2>2. crawler' = [crawler EXCEPT ![k] = Passed(k, s)]
    BY <1>1 DEF Pass
  <2>3. trouble' \subseteq {"lost", "raced", "skipped"} /\ ("raced" \in trouble => "raced" \in trouble')
    BY <1>0, <1>1
  <2>. QED BY <1>1, <2>1, <2>2, <2>3, CrawlerStepKeepsInvariant
<1>2. CASE IgnoreVote(k) \/ ProposalExecuted(k) \/ ProposalUpdated(k)
  <2>1. Pass(k, "idle") /\ Current(k) \in Positions /\ UNCHANGED <<kind, chain, votes, trouble>>
    BY <1>2 DEF IgnoreVote, ProposalExecuted, ProposalUpdated, AtEvent, At, faults
  <2>. QED BY <1>1, <2>1
<1>3. CASE HandlerFails(k) \/ CreateFailsHalfway(k)
  <2>1. /\ Pass(k, "idle") \/ Pass(k, "send")
        /\ Current(k) \in Positions /\ UNCHANGED <<kind, chain, votes>> /\ trouble' = trouble \cup {"lost"}
    BY <1>3 DEF HandlerFails, CreateFailsHalfway, AtEvent, At, Lost
  <2>. QED BY <1>1, <2>1
<1>4. CASE FindLog(k)
  <2>1. PICK s \in {"find", "write"} :
           /\ Go(k, s, 0) /\ crawler[k].step # "write" /\ Current(k) \in Positions
           /\ s = "write" => chain[Current(k)].kind # "vote"
           /\ UNCHANGED <<kind, chain, votes, trouble>>
    <3>1. AtEvent(k, "idle", {"vote", "approve"}) /\ UNCHANGED <<kind, chain, votes, trouble>>
          /\ Go(k, IF chain[Current(k)].kind = "vote" THEN "find" ELSE "write", 0)
      BY <1>4 DEF FindLog, faults
    <3>2. CASE chain[Current(k)].kind = "vote"
      BY <3>1, <3>2 DEF AtEvent, At
    <3>3. CASE chain[Current(k)].kind # "vote"
      BY <3>1, <3>3 DEF AtEvent, At
    <3>. QED BY <3>2, <3>3
  <2>. QED BY <2>1, GoKeepsInvariant
<1>5. CASE FindVote(k)
  <2>. DEFINE v == chain[Current(k)].who
  <2>1. /\ Current(k) \in Positions /\ crawler[k].step # "write" /\ UNCHANGED <<kind, chain, votes, trouble>>
        /\ \/ AtEvent(k, "find", {"vote"}) /\ OnPlugin(v) = {} /\ Go(k, "write", 0)
           \/ AtEvent(k, "find", {"vote"}) /\ \E r \in OnPlugin(v) : Go(k, "write", r.pos)
           \/ AtEvent(k, "idle", Updates) /\ \E r \in ToUpdate(Current(k)) : Go(k, "write", r.pos)
    BY <1>5 DEF FindVote, AtEvent, At, faults
  <2>2. CASE AtEvent(k, "find", {"vote"}) /\ OnPlugin(v) = {} /\ Go(k, "write", 0)
    <3>1. OneVotePerVoter => Mine(v) = {}
      BY <2>2, OnPluginFindsTheVote
    <3>. QED BY <2>1, <2>2, <3>1, GoKeepsInvariant
  <2>3. ASSUME NEW r \in OnPlugin(v), Go(k, "write", r.pos) PROVE VotesInvariant'
    <3>1. r \in votes /\ r.who = v /\ (OneVotePerVoter => \A s \in Mine(v) : s = r)
      BY OnPluginFindsTheVote DEF Mine
    <3>2. r.pos \in Positions /\ chain[r.pos].kind \in {"vote", "approve"} /\ chain[r.pos].who = v
      BY <3>1 DEF VotesInvariant, VotesAreCast
    <3>. QED BY <2>1, <2>3, <3>1, <3>2, GoKeepsInvariant
  <2>4. ASSUME AtEvent(k, "idle", Updates) PROVE ToUpdate(Current(k)) \subseteq OnPlugin(v)
    BY <2>4 DEF AtEvent, Updates, ToUpdate, OverrideVoteCast, ObjectionCast, VoteCleared
  <2>. QED BY <2>1, <2>2, <2>3, <2>4
<1>6. CASE FindProposal(k)
  <2>1. AtEvent(k, "idle", {"create"}) /\ UNCHANGED <<kind, chain, votes, trouble>>
        /\ (Pass(k, "idle") \/ Go(k, "write", 0))
    BY <1>6 DEF FindProposal, faults
  <2>2. Current(k) \in Positions /\ chain[Current(k)].kind = "create" /\ crawler[k].step = "idle"
    BY <2>1 DEF AtEvent, At
  <2>3. CASE Pass(k, "idle")
    BY <1>1, <2>1, <2>2, <2>3
  <2>4. CASE Go(k, "write", 0)
    BY <2>1, <2>2, <2>4, GoKeepsInvariant
  <2>. QED BY <2>1, <2>3, <2>4
<1>7. CASE ProposalCreated(k)
  <2>. DEFINE m == Passed(k, "send")
              l == [m EXCEPT !.redrive = OutOfOrder(Current(k))]
  <2>1. /\ Current(k) \in Positions /\ crawler' = [crawler EXCEPT ![k] = l]
        /\ UNCHANGED <<kind, chain, votes, trouble>>
    BY <1>7 DEF ProposalCreated, AtEvent, At, faults
  <2>2. /\ m \in CrawlerStates /\ m.next \in 1 .. Len(chain) + 1 /\ m.step = "send" /\ m.found = 0
        /\ ~m.gone
    BY <2>1, PassedType
  <2>3. OutOfOrder(Current(k)) \in SUBSET Nat
    BY <2>1, ChainElements DEF OutOfOrder
  <2>. HIDE DEF m
  <2>4. l \in CrawlerStates /\ l.next = m.next /\ l.step = "send" /\ l.found = 0 /\ ~l.gone
    BY <2>2, <2>3 DEF CrawlerStates
  <2>. HIDE DEF l
  <2>. QED BY <1>0, <2>1, <2>2, <2>4, CrawlerStepKeepsInvariant
<1>8. CASE SendMessage(k) \/ SendFails(k)
  <2>. DEFINE l == [crawler[k] EXCEPT !.step = "idle"]
  <2>1. /\ crawler[k].step = "send" /\ crawler' = [crawler EXCEPT ![k] = l]
        /\ UNCHANGED <<kind, chain, votes, trouble>>
    BY <1>0, <1>8 DEF SendMessage, SendFails, Unsent, Sent, faults
  <2>2. l \in CrawlerStates /\ l.next = crawler[k].next /\ l.step = "idle" /\ l.found = 0 /\ ~l.gone
    BY <1>0, <2>1 DEF CrawlerStates
  <2>. HIDE DEF l
  <2>. QED BY <1>0, <2>1, <2>2, CrawlerStepKeepsInvariant
<1>9. CASE Crash(k)
  <2>0. PICK d \in Crawlers : \E p \in Checkpoints(d) :
           /\ crawler' = [crawler EXCEPT ![k] = From(p)]
           /\ trouble' = IF p > Current(k) THEN trouble \cup {"skipped"} ELSE trouble
    BY <1>9 DEF Crash
  <2>1. PICK p \in Checkpoints(d) :
           /\ crawler' = [crawler EXCEPT ![k] = From(p)]
           /\ trouble' = trouble \/ trouble' = trouble \cup {"skipped"}
           /\ UNCHANGED <<kind, chain, votes>>
    BY <1>9, <2>0 DEF Crash
  <2>2. p \in 1 .. Len(chain) + 1
    BY <1>0 DEF Checkpoints, VotesInvariant, OnTheChain
  <2>3. /\ From(p) \in CrawlerStates /\ From(p).next = p /\ From(p).step = "idle" /\ From(p).found = 0
        /\ ~From(p).gone
    BY <1>0, <2>2 DEF From, CrawlerStates
  <2>4. trouble' \subseteq {"lost", "raced", "skipped"} /\ ("raced" \in trouble => "raced" \in trouble')
    BY <1>0, <2>1
  <2>. QED BY <2>1, <2>2, <2>3, <2>4, CrawlerStepKeepsInvariant
<1>. QED BY <1>2, <1>3, <1>4, <1>5, <1>6, <1>7, <1>8, <1>9

-----------------------------------------------------------------------------
(* The transaction of a vote's handler *)

\* The crawler goes on; of the others only those that had read a vote which is gone
\* now differ, in that.
LEMMA WriteMoves ==
    ASSUME VotesInvariant, NEW k \in Crawlers, WriteVote(k)
    PROVE  /\ \E s \in {"idle", "send"} : crawler'[k] = Passed(k, s)
           /\ crawler' \in [Crawlers -> CrawlerStates]
           /\ \A d \in Crawlers \ {k} :
                 /\ crawler'[d].next = crawler[d].next /\ crawler'[d].redrive = crawler[d].redrive
                 /\ crawler'[d].step = crawler[d].step /\ crawler'[d].found = crawler[d].found
                 /\ crawler'[d].gone <=> crawler[d].gone \/ crawler[d].found \in Deleted
                 /\ Current(d)' = Current(d)
<1>. DEFINE s == IF Asks(Current(k), crawler[k].gone) THEN "send" ELSE "idle"
            l(d) == [crawler[d] EXCEPT !.gone = @ \/ crawler[d].found \in Deleted]
<1>1. /\ crawler \in [Crawlers -> CrawlerStates] /\ s \in {"idle", "send"} /\ Current(k) \in Positions
      /\ crawler' = [d \in Crawlers |-> IF d = k THEN Passed(k, s) ELSE l(d)]
  BY DEF VotesInvariant, TypeOK, WriteVote, AtEvent, At
<1>2. Passed(k, s) \in CrawlerStates
  BY <1>1, PassedType
<1>3. ASSUME NEW d \in Crawlers
      PROVE  /\ l(d) \in CrawlerStates /\ l(d).next = crawler[d].next /\ l(d).redrive = crawler[d].redrive
             /\ l(d).step = crawler[d].step /\ l(d).found = crawler[d].found
             /\ l(d).gone <=> crawler[d].gone \/ crawler[d].found \in Deleted
  <2>1. crawler[d] \in CrawlerStates
    BY <1>1
  <2>2. \A g \in BOOLEAN : LET e == [crawler[d] EXCEPT !.gone = g] IN
           /\ e \in CrawlerStates /\ e.next = crawler[d].next /\ e.redrive = crawler[d].redrive
           /\ e.step = crawler[d].step /\ e.found = crawler[d].found /\ e.gone = g
    BY <2>1 DEF CrawlerStates
  <2>3. (crawler[d].gone \/ crawler[d].found \in Deleted) \in BOOLEAN
    BY Zenon
  <2>. QED BY <2>2, <2>3
<1>. HIDE DEF l, s
<1>4. crawler'[k] = Passed(k, s) /\ \A d \in Crawlers \ {k} : crawler'[d] = l(d)
  BY <1>1
<1>5. crawler' \in [Crawlers -> CrawlerStates]
  BY <1>1, <1>2, <1>3
<1>6. \A d \in Crawlers \ {k} : Current(d)' = Current(d)
  BY <1>3, <1>4 DEF Current
<1>. QED BY <1>1, <1>3, <1>4, <1>5, <1>6

\* The record that voteCast and processApproval store.
NewVote(new, v, p, old) ==
    /\ new \in VoteRecords /\ new.who = v /\ new.pos = p /\ new.replaced = old
    /\ new.over = 0 /\ new.source = 0 /\ new.cleared = 0

\* What an update leaves of a vote, and what it sets.
SetBy(new, r, p) ==
    /\ new \in VoteRecords /\ new.who = r.who /\ new.pos = r.pos /\ new.replaced = r.replaced
    /\ new.over = IF chain[p].kind = "override" THEN p ELSE r.over
    /\ new.source = IF chain[p].kind = "objection" THEN p ELSE r.source
    /\ new.cleared = IF chain[p].kind = "clear" THEN p ELSE r.cleared

\* What the handlers' transactions make of the votes.
LEMMA WrittenVotes ==
    ASSUME VotesInvariant, NEW k \in Crawlers, WriteVote(k), NEW p, p = Current(k)
    PROVE  /\ p \in Positions /\ chain[p] \in Events /\ crawler[k].step = "write"
           /\ chain[p].kind \in {"vote", "approve"} /\ Stored(p) => votes' = votes
           /\ chain[p].kind = "vote" /\ ~Stored(p) =>
                \E new : /\ NewVote(new, chain[p].who, p, crawler[k].found)
                         /\ votes' = {r \in votes : crawler[k].gone \/ r.pos # crawler[k].found} \cup {new}
           /\ chain[p].kind = "approve" /\ ~Stored(p) =>
                \E new : NewVote(new, chain[p].who, p, 0) /\ votes' = votes \cup {new}
           /\ chain[p].kind \in Updates =>
                /\ \A r \in votes : IF ~crawler[k].gone /\ r.pos = crawler[k].found
                                    THEN \E new \in votes' : SetBy(new, r, p) ELSE r \in votes'
                /\ \A s \in votes' : \E r \in votes :
                      IF ~crawler[k].gone /\ r.pos = crawler[k].found THEN SetBy(s, r, p) ELSE s = r
           /\ chain[p].kind \in VoteEvents
<1>. DEFINE v == chain[p].who
            f == crawler[k].found
            g == crawler[k].gone
<1>1. /\ p \in Positions /\ p \in Nat /\ chain[p] \in Events /\ crawler[k].step = "write"
      /\ v \in Voters \cup {NoOne} /\ f \in Nat /\ votes \subseteq VoteRecords
      /\ chain[p].kind \in VoteEvents /\ votes' = Written(p, f, g)
  <2>1. p \in Positions /\ crawler[k].step = "write" /\ chain[p].kind \in VoteEvents /\ votes' = Written(p, f, g)
    BY DEF WriteVote, AtEvent, At
  <2>2. p \in Nat /\ chain[p] \in Events /\ v \in Voters \cup {NoOne}
    BY <2>1, ChainElements DEF Events
  <2>3. f \in Nat /\ votes \subseteq VoteRecords
    BY DEF VotesInvariant, TypeOK, CrawlerStates
  <2>. QED BY <2>1, <2>2, <2>3
<1>2. NewVote(Vote(v, p), v, p, 0) /\ NewVote([Vote(v, p) EXCEPT !.replaced = f], v, p, f)
  BY <1>1 DEF NewVote, Vote, VoteRecords
<1>3. ASSUME NEW r \in votes, chain[p].kind \in Updates PROVE SetBy(Updated(r, p), r, p)
  <2>1. r \in VoteRecords
    BY <1>1
  <2>2. chain[p].kind = "override" \/ chain[p].kind = "objection" \/ chain[p].kind = "clear"
    BY <1>3 DEF Updates
  <2>. QED BY <1>1, <2>1, <2>2 DEF Updated, SetBy, VoteRecords
<1>. HIDE DEF f, g
<1>4. chain[p].kind \in {"vote", "approve"} /\ Stored(p) => votes' = votes
  BY <1>1 DEF Written, VoteCast, Approved
<1>5. ASSUME chain[p].kind = "vote", ~Stored(p)
      PROVE  votes' = {r \in votes : g \/ r.pos # f} \cup {[Vote(v, p) EXCEPT !.replaced = f]}
  BY <1>1, <1>5 DEF Written, VoteCast
<1>6. chain[p].kind = "approve" /\ ~Stored(p) => votes' = votes \cup {Vote(v, p)}
  BY <1>1 DEF Written, Approved
<1>7. ASSUME chain[p].kind \in Updates
      PROVE  votes' = {IF ~g /\ r.pos = f THEN Updated(r, p) ELSE r : r \in votes}
  BY <1>1, <1>7 DEF Written, Updates
<1>8. ASSUME chain[p].kind \in Updates
      PROVE  /\ \A r \in votes : IF ~g /\ r.pos = f THEN \E new \in votes' : SetBy(new, r, p) ELSE r \in votes'
             /\ \A s \in votes' : \E r \in votes : IF ~g /\ r.pos = f THEN SetBy(s, r, p) ELSE s = r
  <2>1. ASSUME NEW r \in votes
        PROVE  IF ~g /\ r.pos = f THEN \E new \in votes' : SetBy(new, r, p) ELSE r \in votes'
    BY <1>3, <1>7, <1>8
  <2>2. ASSUME NEW s \in votes'
        PROVE  \E r \in votes : IF ~g /\ r.pos = f THEN SetBy(s, r, p) ELSE s = r
    <3>1. PICK r \in votes : s = IF ~g /\ r.pos = f THEN Updated(r, p) ELSE r
      BY <1>7, <1>8
    <3>. QED BY <1>3, <1>8, <3>1
  <2>. QED BY <2>1, <2>2
<1>. QED BY <1>1, <1>2, <1>4, <1>5, <1>6, <1>8 DEF f, g

\* A multisig member who approves has no stored vote yet, unless it is this one.
LEMMA ApprovesOnce ==
    ASSUME VotesInvariant, NEW p \in Positions, chain[p].kind = "approve", ~Stored(p)
    PROVE  Mine(chain[p].who) = {}
<1>. SUFFICES ASSUME NEW s \in votes, s.who = chain[p].who PROVE FALSE
  BY DEF Mine
<1>1. s.pos \in Positions /\ chain[s.pos].who = chain[p].who /\ chain[s.pos].kind \in {"vote", "approve"}
  BY DEF VotesInvariant, VotesAreCast
<1>2. chain[s.pos].kind = "approve"
  BY <1>1 DEF VotesInvariant, PluginEvents
<1>3. s.pos = p
  BY <1>1, <1>2 DEF VotesInvariant, PluginEvents
<1>. QED BY <1>3 DEF Stored

\* The transactions leave each voter at most one vote, if none raced, and what the
\* other crawlers have read is as true as before.
LEMMA WriteKeepsInvariant ==
    ASSUME VotesInvariant, NEW k \in Crawlers, WriteVote(k)
    PROVE  VotesInvariant'
<1>0. PICK p, v, f : p = Current(k) /\ v = chain[p].who /\ f = crawler[k].found
  OBVIOUS
<1>1. /\ p \in Positions /\ chain[p] \in Events /\ crawler[k].step = "write"
      /\ chain[p].kind \in {"vote", "approve"} /\ Stored(p) => votes' = votes
      /\ chain[p].kind = "vote" /\ ~Stored(p) =>
           \E new : /\ NewVote(new, v, p, f)
                    /\ votes' = {r \in votes : crawler[k].gone \/ r.pos # f} \cup {new}
      /\ chain[p].kind = "approve" /\ ~Stored(p) =>
           \E new : NewVote(new, v, p, 0) /\ votes' = votes \cup {new}
      /\ chain[p].kind \in Updates =>
           /\ \A r \in votes : IF ~crawler[k].gone /\ r.pos = f
                               THEN \E new \in votes' : SetBy(new, r, p) ELSE r \in votes'
           /\ \A s \in votes' : \E r \in votes :
                 IF ~crawler[k].gone /\ r.pos = f THEN SetBy(s, r, p) ELSE s = r
      /\ chain[p].kind = "vote" \/ chain[p].kind = "approve" \/ chain[p].kind \in Updates
  BY <1>0, WrittenVotes DEF VoteEvents, Updates
<1>2. UNCHANGED <<kind, chain>> /\ trouble \subseteq trouble' /\ trouble' \subseteq {"lost", "raced", "skipped"}
  BY DEF WriteVote, VotesInvariant, TypeOK
<1>3. /\ crawler' \in [Crawlers -> CrawlerStates]
      /\ crawler'[k].next \in 1 .. Len(chain) + 1 /\ crawler'[k].step # "write"
      /\ crawler'[k].found = 0 /\ ~crawler'[k].gone
      /\ \A d \in Crawlers \ {k} :
            /\ crawler'[d].next = crawler[d].next /\ crawler'[d].redrive = crawler[d].redrive
            /\ crawler'[d].step = crawler[d].step /\ crawler'[d].found = crawler[d].found
            /\ crawler'[d].gone <=> crawler[d].gone \/ crawler[d].found \in Deleted
            /\ Current(d)' = Current(d)
  BY <1>0, <1>1, WriteMoves, PassedType
<1>4. f # 0 => /\ f \in Positions /\ chain[f].kind \in {"vote", "approve"} /\ chain[f].who = v
  BY <1>0 DEF VotesInvariant, OnTheChain
<1>5. /\ \A r \in votes : /\ r.pos \in Positions /\ chain[r.pos].who = r.who
                          /\ chain[r.pos].kind \in {"vote", "approve"} /\ r \in VoteRecords
                          /\ r.pos # 0
  BY DEF VotesInvariant, TypeOK, VotesAreCast, Positions
<1>6. votes' \subseteq VoteRecords
  BY <1>1, <1>5 DEF NewVote, SetBy
<1>7. VotesAreCast'
  <2>1. \A r \in votes' : r.pos \in Positions /\ chain[r.pos].who = r.who
                          /\ chain[r.pos].kind \in {"vote", "approve"}
    BY <1>0, <1>1, <1>5 DEF NewVote, SetBy
  <2>. QED BY <1>2, <2>1 DEF VotesAreCast, Positions
\* Only votes of the voter are deleted, and only for another log of his.
<1>8. \A x \in Deleted : x # 0 /\ chain[x].who = v /\ chain[p].kind = "vote" /\ ~Stored(p)
  <2>. SUFFICES ASSUME NEW r \in votes, \A s \in votes' : s.pos # r.pos
                PROVE  r.pos # 0 /\ chain[r.pos].who = v /\ chain[p].kind = "vote" /\ ~Stored(p)
    BY DEF Deleted
  <2>1. chain[p].kind \notin Updates
    <3>1. ASSUME NEW new \in votes', SetBy(new, r, p) PROVE FALSE
      BY <3>1 DEF SetBy
    <3>. QED BY <1>1, <3>1
  <2>2. chain[p].kind = "vote" /\ ~Stored(p)
    BY <1>1, <2>1
  <2>3. r.pos = f
    BY <1>1, <2>2
  <2>. QED BY <1>4, <1>5, <2>2, <2>3
<1>9. OnTheChain'
  <2>1. ASSUME NEW d \in Crawlers
        PROVE  LET e == crawler'[d] IN
               /\ e.next \in 1 .. Len(chain) + 1
               /\ e.step # "write" => e.found = 0 /\ ~e.gone
               /\ e.found # 0 => /\ e.found \in Positions /\ Current(d)' \in Positions
                                 /\ chain[e.found].kind \in {"vote", "approve"}
                                 /\ chain[e.found].who = chain[Current(d)'].who
    <3>1. CASE d = k
      BY <1>3, <3>1
    <3>2. CASE d # k
      BY <1>3, <1>8, <3>2 DEF VotesInvariant, OnTheChain
    <3>. QED BY <3>1, <3>2
  <2>. QED BY <1>2, <2>1 DEF OnTheChain, Positions
<1>10. ASSUME ReadsHold, OneVotePerVoter, "raced" \notin trouble' PROVE OneVotePerVoter'
  <2>1. CASE chain[p].kind = "vote" /\ ~Stored(p)
    <3>1. PICK new : /\ NewVote(new, v, p, f)
                     /\ votes' = {r \in votes : crawler[k].gone \/ r.pos # f} \cup {new}
      BY <1>1, <2>1
    <3>2. AtEvent(k, "write", {"vote"})
      BY <1>0, <1>1, <2>1 DEF AtEvent, At
    <3>3. \A r \in Mine(v) : r.pos = f /\ ~crawler[k].gone
      BY <1>0, <1>10, <2>1, <3>2 DEF ReadsHold
    <3>. QED BY <1>10, <3>1, <3>3 DEF OneVotePerVoter, Mine, NewVote
  <2>2. CASE chain[p].kind = "approve" /\ ~Stored(p)
    <3>1. PICK new : NewVote(new, v, p, 0) /\ votes' = votes \cup {new}
      BY <1>1, <2>2
    <3>2. Mine(v) = {}
      BY <1>0, <1>1, <2>2, ApprovesOnce
    <3>. QED BY <1>10, <3>1, <3>2 DEF OneVotePerVoter, Mine, NewVote
  <2>3. CASE chain[p].kind \in Updates
    <3>. SUFFICES ASSUME NEW a \in votes', NEW b \in votes', a.who = b.who PROVE a = b
      BY DEF OneVotePerVoter
    <3>1. PICK r \in votes : IF ~crawler[k].gone /\ r.pos = f THEN SetBy(a, r, p) ELSE a = r
      BY <1>1, <2>3
    <3>2. PICK s \in votes : IF ~crawler[k].gone /\ s.pos = f THEN SetBy(b, s, p) ELSE b = s
      BY <1>1, <2>3
    <3>3. a.who = r.who /\ b.who = s.who
      BY <3>1, <3>2 DEF SetBy
    <3>4. r = s
      BY <1>10, <3>3 DEF OneVotePerVoter
    <3>5. CASE ~crawler[k].gone /\ r.pos = f
      BY <3>1, <3>2, <3>4, <3>5 DEF SetBy, VoteRecords
    <3>. QED BY <3>1, <3>2, <3>4, <3>5
  <2>4. CASE votes' = votes
    BY <1>10, <2>4 DEF OneVotePerVoter
  <2>. QED BY <1>1, <2>1, <2>2, <2>3, <2>4
<1>11. ASSUME ReadsHold, "raced" \notin trouble' PROVE ReadsHold'
  <2>. SUFFICES ASSUME NEW d \in Crawlers, AtEvent(d, "write", {"vote"})'
                PROVE  (\/ Stored(Current(d))
                        \/ \A r \in Mine(chain[Current(d)].who) : r.pos = crawler[d].found /\ ~crawler[d].gone)'
    BY DEF ReadsHold
  <2>1. d # k
    BY <1>3 DEF AtEvent, At
  <2>2. PICK q, w : q = Current(d) /\ w = chain[q].who
    OBVIOUS
  <2>3. Current(d)' = q /\ AtEvent(d, "write", {"vote"}) /\ chain' = chain /\ q \in Positions
        /\ chain[q].kind = "vote" /\ crawler[d].step = "write"
    BY <1>2, <1>3, <2>1, <2>2 DEF AtEvent, At, Positions
  <2>4. Stored(q) \/ \A r \in Mine(w) : r.pos = crawler[d].found /\ ~crawler[d].gone
    BY <1>11, <2>2, <2>3 DEF ReadsHold
  <2>. SUFFICES Stored(q)' \/ \A r \in Mine(w)' : r.pos = crawler'[d].found /\ ~crawler'[d].gone
    BY <2>2, <2>3
  <2>5. crawler'[d].found = crawler[d].found
        /\ (crawler'[d].gone <=> crawler[d].gone \/ crawler[d].found \in Deleted)
    BY <1>3, <2>1
  <2>6. CASE votes' = votes
    <3>1. Deleted = {}
      BY <2>6 DEF Deleted
    <3>. QED BY <2>4, <2>5, <2>6, <3>1 DEF Stored, Mine
  <2>7. CASE chain[p].kind \in Updates
    <3>1. crawler[d].found \notin Deleted
      BY <1>8, <2>7 DEF Updates
    <3>2. Stored(q) => Stored(q)'
      BY <1>1, <2>7 DEF Stored, SetBy
    <3>3. ASSUME NEW s \in Mine(w)' PROVE \E r \in Mine(w) : s.pos = r.pos
      BY <1>1, <2>7 DEF Mine, SetBy
    <3>. QED BY <2>4, <2>5, <3>1, <3>2, <3>3
  <2>8. CASE chain[p].kind = "approve"
    BY <1>1, <2>3, <2>8 DEF VotesInvariant, PluginEvents
  <2>9. CASE chain[p].kind = "vote" /\ ~Stored(p)
    <3>1. PICK new : /\ NewVote(new, v, p, f)
                     /\ votes' = {r \in votes : crawler[k].gone \/ r.pos # f} \cup {new}
      BY <1>1, <2>9
    <3>2. CASE w = v
      <4>1. q = p
        <5>1. ~Races(k, p)
          BY <1>0, <1>11, <2>9 DEF WriteVote
        <5>. QED BY <1>0, <2>1, <2>2, <2>3, <3>2, <5>1 DEF Races
      <4>. QED BY <3>1, <4>1 DEF Stored, NewVote
    <3>3. CASE w # v
      <4>1. \A r \in votes : r.who = w => r \in votes'
        <5>1. \A r \in votes : r.pos = f => r.who = v
          BY <1>4, <1>5
        <5>. QED BY <3>1, <3>3, <5>1
      <4>2. Stored(q) => Stored(q)'
        BY <1>5, <2>2, <4>1 DEF Stored
      <4>3. Mine(w)' \subseteq Mine(w)
        BY <3>1, <3>3 DEF Mine, NewVote
      <4>4. crawler[d].found \notin Deleted
        <5>1. crawler[d].found # 0 => chain[crawler[d].found].who = w
          BY <2>2 DEF VotesInvariant, OnTheChain
        <5>. QED BY <1>8, <3>3, <5>1
      <4>. QED BY <2>4, <2>5, <4>2, <4>3, <4>4
    <3>. QED BY <3>2, <3>3
  <2>. QED BY <1>1, <2>6, <2>7, <2>8, <2>9
<1>12. TypeOK' /\ PluginEvents'
  BY <1>2, <1>3, <1>6 DEF VotesInvariant, TypeOK, PluginEvents, Positions
<1>13. "raced" \notin trouble' => ReadsHold' /\ OneVotePerVoter'
  BY <1>2, <1>10, <1>11 DEF VotesInvariant
<1>. QED BY <1>7, <1>9, <1>12, <1>13 DEF VotesInvariant

-----------------------------------------------------------------------------
\* The invariant holds when the creating transaction is all there is.
LEMMA InitEstablishesInvariant == Init => VotesInvariant
<1>. SUFFICES ASSUME Init PROVE VotesInvariant
  OBVIOUS
<1>1. kind \in {"token", "multisig", "objection"}
  BY ProposalsAssumption DEF Init
<1>. DEFINE create == Event("create", NoOne, 1)
<1>2. \A k \in EventKinds, v \in Voters \cup {NoOne} : Event(k, v, 1) \in Events
  BY EventType
<1>3. \/ chain = <<create>>
      \/ kind = "token" /\ \E v \in Voters : chain = <<Event("vote", v, 1), create>>
      \/ kind = "multisig" /\ \E v \in Voters :
            chain = <<Event("approve", v, 1), Event("execute", NoOne, 1), create>>
  BY <1>1 DEF Init, FirstTxs
<1>4. chain \in Seq(Events) /\ Len(chain) > 0
  <2>1. create \in Events /\ Event("execute", NoOne, 1) \in Events
    BY <1>2 DEF EventKinds, VoteEvents
  <2>2. \A v \in Voters : Event("vote", v, 1) \in Events /\ Event("approve", v, 1) \in Events
    BY <1>2 DEF EventKinds, VoteEvents
  <2>. HIDE DEF create
  <2>3. ASSUME NEW a \in Events, NEW b \in Events, NEW c \in Events
        PROVE  /\ <<a>> \in Seq(Events) /\ Len(<<a>>) > 0
               /\ <<a, b>> \in Seq(Events) /\ Len(<<a, b>>) > 0
               /\ <<a, b, c>> \in Seq(Events) /\ Len(<<a, b, c>>) > 0
    OBVIOUS
  <2>. QED BY <1>3, <2>1, <2>2, <2>3
<1>5. PluginEvents
  BY <1>3 DEF PluginEvents, Positions, Event
<1>6. crawler \in [Crawlers -> CrawlerStates] /\ OnTheChain /\ ReadsHold
  <2>1. From(1) \in CrawlerStates /\ crawler = [k \in Crawlers |-> From(1)]
    BY DEF Init, From, CrawlerStates
  <2>2. Len(chain) \in Nat
    BY <1>4, LenProperties
  <2>3. ASSUME NEW k \in Crawlers
        PROVE  /\ crawler[k].next \in 1 .. Len(chain) + 1 /\ crawler[k].step = "idle"
               /\ crawler[k].found = 0 /\ ~crawler[k].gone
    BY <2>1, <2>2 DEF From
  <2>. QED BY <2>1, <2>3 DEF OnTheChain, ReadsHold, AtEvent, At
<1>7. TypeOK /\ VotesAreCast /\ OneVotePerVoter
  BY <1>4, <1>6 DEF Init, TypeOK, VotesAreCast, OneVotePerVoter
<1>. QED BY <1>5, <1>6, <1>7 DEF VotesInvariant

\* A step of the specification is one of these.
LEMMA Steps ==
    ASSUME [Next]_vars
    PROVE  \/ UNCHANGED vars
           \/ \E v \in Voters : ChainVotes(v) \/ ChainObjects(v) \/ ChainClears(v) \/ ChainApproves(v)
           \/ \E v, d \in Voters : ChainOverrides(v, d)
           \/ \E k \in {"execute", "cancel", "edit"} : ChainDecides(k)
           \/ \E k \in Crawlers :
                 \/ IgnoreVote(k) \/ FindLog(k) \/ FindVote(k)
                 \/ FindProposal(k) \/ ProposalCreated(k) \/ ProposalExecuted(k) \/ ProposalUpdated(k)
                 \/ HandlerFails(k) \/ CreateFailsHalfway(k) \/ SendMessage(k) \/ SendFails(k) \/ Crash(k)
           \/ \E k \in Crawlers : WriteVote(k)
           \/ StartMetrics \/ RetryMetrics \/ FinishMetrics \/ MetricsFail \/ DropDuplicate
BY Zenon DEF Next

\* Whatever the crawlers handle again, in whatever order their handlers' steps run
\* and whatever fails: each stored vote is that of an event of its voter, and no
\* voter has two, until two crawlers run voteCast for two logs of one voter at a
\* time (voteCast, processApproval, overrideVoteCast, objectionCast, voteCleared).
THEOREM VotesInvariantHolds == Spec => []VotesInvariant
<1>1. Init => VotesInvariant
  BY InitEstablishesInvariant
<1>2. VotesInvariant /\ [Next]_vars => VotesInvariant'
  <2>. SUFFICES ASSUME VotesInvariant, [Next]_vars PROVE VotesInvariant'
    OBVIOUS
  <2>1. CASE UNCHANGED vars
    <3>1. UNCHANGED <<kind, chain, votes, crawler, trouble>>
      BY <2>1 DEF vars, faults
    <3>. QED BY <3>1, UnchangedVotes
  <2>2. CASE StartMetrics \/ RetryMetrics \/ FinishMetrics \/ MetricsFail \/ DropDuplicate
    <3>1. UNCHANGED <<kind, chain, votes, crawler, trouble>>
      BY <2>2 DEF StartMetrics, RetryMetrics, FinishMetrics, MetricsFail, DropDuplicate, faults
    <3>. QED BY <3>1, UnchangedVotes
  <2>. QED BY <2>1, <2>2, Steps, ContractKeepsInvariant, CrawlerKeepsInvariant, WriteKeepsInvariant
<1>. QED BY <1>1, <1>2, PTL DEF Spec

-----------------------------------------------------------------------------
(* What the contract emits *)

\* x is the last element of S, 0 if it has none.
Latest(x, S) == (x = 0 /\ S = {}) \/ (x \in S /\ \A y \in S : y <= x)

Is(p, k) == chain[p].kind = k
SameVoter(p, q) == chain[p].who = chain[q].who
IsCast(p) == chain[p].kind \in {"vote", "approve"}

\* The proposal is created by the last event of the first transaction, c.
CreatedAt(c) ==
    /\ c \in Positions /\ c <= 3
    /\ kind = "objection" => c = 1
    /\ \A p \in Positions :
          /\ Is(p, "create") <=> p = c
          /\ p <= c => chain[p].tx = 1
          /\ p > c => chain[p].tx > 1
          /\ p < c => chain[p].kind \in {"vote", "approve", "execute"}
          /\ p < c /\ IsCast(p) => p = 1

\* An objection follows the only vote of its voter.
ObjectionsAreVotes ==
    \A p \in Positions :
        /\ Is(p, "objection") => kind = "objection"
        /\ kind = "objection" /\ Is(p, "vote") =>
              /\ p + 1 \in Positions /\ Is(p + 1, "objection") /\ SameVoter(p, p + 1)
              /\ \A q \in Positions : Is(q, "vote") /\ SameVoter(p, q) => q = p
        /\ Is(p, "objection") => p > 1 /\ Is(p - 1, "vote") /\ SameVoter(p - 1, p)

\* A vote is cleared once, and only a token vote.
ClearsFollowVotes ==
    \A p, q \in Positions :
        /\ Is(p, "clear") => kind = "token"
        /\ Is(p, "clear") /\ Is(q, "clear") /\ SameVoter(p, q) /\ p < q =>
              \E o \in Positions : p < o /\ o < q /\ Is(o, "vote") /\ SameVoter(o, p)

\* A proposal is executed or canceled once.
DecidedOnce ==
    \A p, q \in Positions :
        /\ chain[p].kind \in {"execute", "cancel", "edit"} => chain[p].who = NoOne
        /\ Is(p, "execute") /\ Is(q, "execute") => p = q
        /\ Is(p, "cancel") /\ Is(q, "cancel") => p = q

ChainFacts(c) ==
    /\ CreatedAt(c) /\ ObjectionsAreVotes /\ ClearsFollowVotes /\ DecidedOnce
    /\ \A k \in Crawlers : crawler[k].redrive \subseteq 1 .. c - 1

\* A bounded set of numbers has a last element.
LEMMA LastExists ==
    ASSUME NEW n \in Nat, NEW S \in SUBSET (0 .. n), S # {}
    PROVE  \E x \in S : \A y \in S : y <= x
<1>. DEFINE R == OpToRel(<, Nat)
            T == {n - y : y \in S}
<1>0. PICK s \in S : TRUE
  OBVIOUS
<1>1. T \subseteq Nat /\ n - s \in T
  OBVIOUS
<1>2. PICK m \in T : \A y \in T : ~(<<y, m>> \in R)
  BY <1>1, NatLessThanWellFounded, WFMin, Zenon
<1>3. PICK x \in S : m = n - x
  OBVIOUS
<1>4. ASSUME NEW y \in S PROVE y <= x
  <2>1. n - y \in T /\ n - y \in Nat /\ m \in Nat
    OBVIOUS
  <2>2. ~(n - y < m)
    BY <1>2, <2>1 DEF OpToRel
  <2>. QED BY <1>3, <2>2
<1>. QED BY <1>4

\* The last of some positions is one of them, or 0, and none is beyond it.
LEMMA LastOfBounds ==
    ASSUME NEW n \in Nat, NEW S \in SUBSET (1 .. n)
    PROVE  LastOf(S) \in S \cup {0} /\ \A y \in S : y <= LastOf(S)
<1>1. S \cup {0} \in SUBSET (0 .. n) /\ S \cup {0} # {}
  OBVIOUS
<1>2. \E x \in S \cup {0} : \A y \in S \cup {0} : y <= x
  BY <1>1, LastExists
<1>. QED BY <1>2 DEF LastOf, Max

\* There is one latest position.
LEMMA LatestIsLast ==
    ASSUME NEW n \in Nat, NEW S \in SUBSET (1 .. n), NEW x, Latest(x, S)
    PROVE  x = LastOf(S)
<1>. DEFINE l == LastOf(S)
<1>1. l \in S \cup {0} /\ \A y \in S : y <= l
  BY LastOfBounds
<1>2. \A y \in S : y \in Nat /\ y > 0
  OBVIOUS
<1>. HIDE DEF l
<1>3. CASE S = {}
  BY <1>1, <1>3 DEF Latest, l
<1>4. CASE S # {}
  <2>1. x \in S /\ \A y \in S : y <= x
    BY <1>4 DEF Latest
  <2>2. x <= l /\ l \in S
    BY <1>1, <1>2, <2>1
  <2>3. l <= x /\ x \in Nat /\ l \in Nat
    BY <1>2, <2>1, <2>2
  <2>4. x = l
    BY <2>2, <2>3
  <2>. QED BY <2>4 DEF l
<1>. QED BY <1>3, <1>4

\* A voter who has a vote has cast it after the last clearing; one without a
\* vote, and without a clearing, never voted.
LEMMA VotesInForce ==
    ASSUME VotesInvariant, NEW v
    PROVE  /\ HasVote(v) => \E o \in Where("vote", v) : \A p \in Where("clear", v) : p < o
           /\ ~HasVote(v) /\ Where("clear", v) = {} => Where("vote", v) = {}
<1>1. Len(chain) \in Nat
  BY LenProperties DEF VotesInvariant, TypeOK
<1>2. \A k : Where(k, v) \in SUBSET (1 .. Len(chain))
  BY DEF Where, Positions
<1>. DEFINE S == Where("vote", v)
            D == Where("clear", v)
<1>3. /\ LastOf(S) \in S \cup {0} /\ \A y \in S : y <= LastOf(S)
      /\ LastOf(D) \in D \cup {0} /\ \A y \in D : y <= LastOf(D)
  BY <1>1, <1>2, LastOfBounds
<1>4. S \subseteq 1 .. Len(chain) /\ D \subseteq 1 .. Len(chain)
  BY <1>2
<1>. DEFINE s == LastOf(S)
            d == LastOf(D)
<1>. HIDE DEF S, D, s, d
<1>5. /\ s \in Nat /\ d \in Nat
      /\ s > d => s \in S /\ \A p \in D : p < s
      /\ ~(s > d) /\ D = {} => S = {}
  <2>1. /\ s \in S \cup {0} /\ \A y \in S : y <= s
        /\ d \in D \cup {0} /\ \A y \in D : y <= d
    BY <1>3 DEF s, d
  <2>. QED BY <1>1, <1>4, <2>1
<1>6. s > d => \E o \in S : \A p \in D : p < o
  BY <1>5
<1>. QED BY <1>5, <1>6 DEF HasVote, S, D, s, d

\* What a later transaction may append.
LaterTx(events) ==
    LET m == Len(events) IN
    /\ events \in Seq(Events) /\ m \in {1, 2}
    /\ \A i \in 1 .. m :
          /\ events[i].tx > 1 /\ events[i].kind # "create"
          /\ events[i].kind = "vote" /\ kind = "objection" =>
                /\ i = 1 /\ m = 2 /\ events[2].kind = "objection" /\ events[2].who = events[1].who
                /\ Where("vote", events[i].who) = {}
          /\ events[i].kind = "objection" =>
                kind = "objection" /\ i = 2 /\ events[1].kind = "vote" /\ events[2].who = events[1].who
          /\ events[i].kind = "clear" =>
                /\ kind = "token" /\ m = 1
                /\ \E o \in Where("vote", events[i].who) : \A q \in Where("clear", events[i].who) : q < o
          /\ events[i].kind \in {"execute", "cancel", "edit"} => m = 1 /\ events[i].who = NoOne

\* A transaction appends to the chain and changes none of it.
LEMMA EmitExtends ==
    ASSUME VotesInvariant, NEW events \in Seq(Events), Emit(events)
    PROVE  LET n == Len(chain)
               m == Len(events)
           IN  /\ n \in Nat /\ m \in Nat
               /\ Positions = 1 .. n /\ Positions' = 1 .. n + m
               /\ \A p \in 1 .. n : chain'[p] = chain[p]
               /\ \A i \in 1 .. m : chain'[n + i] = events[i]
<1>. DEFINE n == Len(chain)
            m == Len(events)
<1>1. /\ chain \in Seq(Events) /\ events \in Seq(Events) /\ n \in Nat /\ m \in Nat
      /\ chain' = chain \o events
  BY LenProperties DEF VotesInvariant, TypeOK, Emit
<1>2. /\ Len(chain') = n + m
      /\ \A p \in 1 .. n : chain'[p] = chain[p]
      /\ \A i \in 1 .. m : chain'[n + i] = events[i]
  BY <1>1
<1>. QED BY <1>1, <1>2 DEF Positions

\* The events of a longer chain are those it had, and the new ones.
LEMMA EmitKeepsChainFacts ==
    ASSUME VotesInvariant, NEW c, ChainFacts(c), NEW events, LaterTx(events), Emit(events)
    PROVE  ChainFacts(c)'
<1>. DEFINE n == Len(chain)
            m == Len(events)
            old == 1 .. n
            new == n + 1 .. n + m
<1>1. /\ n \in Nat /\ m \in {1, 2} /\ n > 0
      /\ Positions = old /\ Positions' = 1 .. n + m
      /\ \A p \in old : chain'[p] = chain[p]
      /\ \A i \in 1 .. m : chain'[n + i] = events[i]
  BY EmitExtends DEF LaterTx, VotesInvariant, TypeOK
<1>2. \A p \in new : p - n \in 1 .. m /\ chain'[p] = events[p - n] /\ n + (p - n) = p
  <2>. SUFFICES ASSUME NEW p \in new
                PROVE  p - n \in 1 .. m /\ chain'[p] = events[p - n] /\ n + (p - n) = p
    OBVIOUS
  <2>1. p - n \in 1 .. m /\ n + (p - n) = p
    BY <1>1
  <2>. QED BY <1>1, <2>1
<1>3. \A p \in 1 .. n + m : p \in old \/ p \in new
  BY <1>1
<1>4. UNCHANGED <<kind, crawler>> /\ c \in old /\ c <= 3
  BY <1>1 DEF Emit, ChainFacts, CreatedAt
<1>5. \A k, v : Where(k, v) = {p \in old : chain[p].kind = k /\ chain[p].who = v}
  BY <1>1 DEF Where
<1>. HIDE DEF old, new
<1>6. \A p \in old, q \in new : p \in Nat /\ q \in Nat /\ p < q
  BY <1>1 DEF old, new
<1>7. CreatedAt(c)'
  <2>1. \A p \in new : chain'[p].tx > 1 /\ chain'[p].kind # "create" /\ p > c /\ ~(p <= c)
    BY <1>1, <1>2, <1>4, <1>6 DEF LaterTx
  <2>2. kind = "objection" => c = 1
    BY DEF ChainFacts, CreatedAt
  <2>3. \A p \in old : /\ chain[p].kind = "create" <=> p = c
                       /\ p <= c => chain[p].tx = 1
                       /\ p > c => chain[p].tx > 1
                       /\ p < c => chain[p].kind \in {"vote", "approve", "execute"}
                       /\ p < c /\ chain[p].kind \in {"vote", "approve"} => p = 1
    BY <1>1 DEF ChainFacts, CreatedAt, Is, IsCast
  <2>4. \A p \in Positions' :
                       /\ chain'[p].kind = "create" <=> p = c
                       /\ p <= c => chain'[p].tx = 1
                       /\ p > c => chain'[p].tx > 1
                       /\ p < c => chain'[p].kind \in {"vote", "approve", "execute"}
                       /\ p < c /\ chain'[p].kind \in {"vote", "approve"} => p = 1
    BY <1>1, <1>3, <1>4, <1>6, <2>1, <2>3
  <2>5. c \in Positions'
    BY <1>1, <1>4 DEF old
  <2>. QED BY <1>4, <2>2, <2>4, <2>5 DEF CreatedAt, Is, IsCast
<1>8. ObjectionsAreVotes'
  <2>1. \A p \in old :
           /\ chain[p].kind = "objection" => kind = "objection"
           /\ kind = "objection" /\ chain[p].kind = "vote" =>
                /\ p + 1 \in old /\ chain[p + 1].kind = "objection" /\ chain[p].who = chain[p + 1].who
                /\ \A q \in old : chain[q].kind = "vote" /\ chain[p].who = chain[q].who => q = p
           /\ chain[p].kind = "objection" =>
                p > 1 /\ chain[p - 1].kind = "vote" /\ chain[p - 1].who = chain[p].who
    BY <1>1 DEF ChainFacts, ObjectionsAreVotes, Is, SameVoter
  <2>2. \A p \in old : p > 1 => p - 1 \in old
    BY <1>1 DEF old
  <2>3. old \subseteq Positions' /\ new \subseteq Positions'
    BY <1>1 DEF old, new
  <2>4. \A p \in new :
           /\ chain'[p].kind = "objection" =>
                /\ kind = "objection" /\ p = n + 2 /\ m = 2 /\ p > 1 /\ p - 1 = n + 1
                /\ events[1].kind = "vote" /\ events[2].who = events[1].who /\ chain'[p] = events[2]
           /\ kind = "objection" /\ chain'[p].kind = "vote" =>
                /\ p = n + 1 /\ m = 2 /\ p + 1 = n + 2 /\ chain'[p] = events[1]
                /\ events[2].kind = "objection" /\ events[2].who = events[1].who
                /\ Where("vote", chain'[p].who) = {}
    <3>. SUFFICES ASSUME NEW p \in new
                  PROVE  /\ chain'[p].kind = "objection" =>
                              /\ kind = "objection" /\ p = n + 2 /\ m = 2 /\ p > 1 /\ p - 1 = n + 1
                              /\ events[1].kind = "vote" /\ events[2].who = events[1].who
                              /\ chain'[p] = events[2]
                         /\ kind = "objection" /\ chain'[p].kind = "vote" =>
                              /\ p = n + 1 /\ m = 2 /\ p + 1 = n + 2 /\ chain'[p] = events[1]
                              /\ events[2].kind = "objection" /\ events[2].who = events[1].who
                              /\ Where("vote", chain'[p].who) = {}
      OBVIOUS
    <3>. DEFINE i == p - n
    <3>1. i \in 1 .. m /\ chain'[p] = events[i] /\ n + i = p /\ (i = 2 => m = 2)
      BY <1>1, <1>2
    <3>. HIDE DEF i
    <3>2. /\ events[i].kind = "vote" /\ kind = "objection" =>
               /\ i = 1 /\ m = 2 /\ events[2].kind = "objection" /\ events[2].who = events[1].who
               /\ Where("vote", events[i].who) = {}
          /\ events[i].kind = "objection" =>
               kind = "objection" /\ i = 2 /\ events[1].kind = "vote" /\ events[2].who = events[1].who
      BY <3>1 DEF LaterTx
    <3>3. ASSUME chain'[p].kind = "objection"
          PROVE  /\ kind = "objection" /\ p = n + 2 /\ m = 2 /\ p > 1 /\ p - 1 = n + 1
                 /\ events[1].kind = "vote" /\ events[2].who = events[1].who /\ chain'[p] = events[2]
      BY <1>1, <3>1, <3>2, <3>3
    <3>4. ASSUME kind = "objection", chain'[p].kind = "vote"
          PROVE  /\ p = n + 1 /\ m = 2 /\ p + 1 = n + 2 /\ chain'[p] = events[1]
                 /\ events[2].kind = "objection" /\ events[2].who = events[1].who
                 /\ Where("vote", chain'[p].who) = {}
      BY <1>1, <3>1, <3>2, <3>4
    <3>. QED BY <3>3, <3>4
  <2>5. m = 2 => n + 1 \in new /\ n + 2 \in new /\ chain'[n + 1] = events[1] /\ chain'[n + 2] = events[2]
    BY <1>1 DEF new
  <2>6. ASSUME NEW p \in Positions', chain'[p].kind = "objection"
        PROVE  kind' = "objection" /\ p > 1 /\ chain'[p - 1].kind = "vote" /\ chain'[p - 1].who = chain'[p].who
    <3>1. CASE p \in old
      <4>1. chain'[p] = chain[p] /\ p > 1 /\ p - 1 \in old /\ kind = "objection"
        BY <1>1, <2>1, <2>2, <2>6, <3>1
      <4>2. chain'[p - 1] = chain[p - 1]
        BY <1>1, <4>1
      <4>. QED BY <1>4, <2>1, <2>6, <3>1, <4>1, <4>2
    <3>2. CASE p \in new
      BY <1>4, <2>4, <2>5, <2>6, <3>2
    <3>. QED BY <1>1, <1>3, <3>1, <3>2
  <2>7. ASSUME NEW p \in Positions', kind = "objection", chain'[p].kind = "vote"
        PROVE  /\ p + 1 \in Positions' /\ chain'[p + 1].kind = "objection" /\ chain'[p].who = chain'[p + 1].who
               /\ \A q \in Positions' : chain'[q].kind = "vote" /\ chain'[p].who = chain'[q].who => q = p
    <3>0. p \in old \/ p \in new
      BY <1>1, <1>3
    <3>1. CASE p \in old
      <4>1. p + 1 \in old /\ chain'[p + 1] = chain[p + 1] /\ chain'[p] = chain[p]
        BY <1>1, <2>1, <2>7, <3>1
      <4>2. ASSUME NEW q \in Positions', chain'[q].kind = "vote", chain'[p].who = chain'[q].who
            PROVE  q = p
        <5>1. CASE q \in old
          BY <1>1, <2>1, <2>7, <3>1, <4>1, <4>2, <5>1
        <5>2. CASE q \in new
          BY <1>5, <2>4, <2>7, <3>1, <4>1, <4>2, <5>2
        <5>. QED BY <1>1, <1>3, <5>1, <5>2
      <4>. QED BY <2>1, <2>3, <2>7, <3>1, <4>1, <4>2
    <3>2. CASE p \in new
      <4>1. /\ p = n + 1 /\ m = 2 /\ chain'[p] = events[1]
            /\ p + 1 = n + 2 /\ chain'[p + 1] = events[2]
            /\ Where("vote", chain'[p].who) = {}
            /\ events[2].kind = "objection" /\ events[2].who = events[1].who
        BY <2>4, <2>5, <2>7, <3>2
      <4>2. ASSUME NEW q \in Positions', chain'[q].kind = "vote", chain'[p].who = chain'[q].who
            PROVE  q = p
        <5>1. CASE q \in old
          BY <1>1, <1>5, <4>1, <4>2, <5>1
        <5>2. CASE q \in new
          BY <2>4, <2>7, <4>1, <4>2, <5>2
        <5>. QED BY <1>1, <1>3, <5>1, <5>2
      <4>. QED BY <2>3, <2>5, <4>1, <4>2
    <3>. QED BY <3>0, <3>1, <3>2
  <2>. QED BY <1>4, <2>6, <2>7 DEF ObjectionsAreVotes, Is, SameVoter
<1>9. ClearsFollowVotes'
  <2>1. \A p \in new : chain'[p].kind = "clear" =>
           /\ kind = "token" /\ p = n + 1 /\ m = 1
           /\ \E o \in Where("vote", chain'[p].who) : \A q \in Where("clear", chain'[p].who) : q < o
    BY <1>1, <1>2 DEF LaterTx, new
  <2>2. \A p \in Positions' : chain'[p].kind = "clear" => kind' = "token"
    BY <1>1, <1>3, <1>4, <2>1 DEF ChainFacts, ClearsFollowVotes, Is
  <2>3. ASSUME NEW p \in Positions', NEW q \in Positions', chain'[p].kind = "clear",
               chain'[q].kind = "clear", chain'[p].who = chain'[q].who, p < q
        PROVE  \E o \in Positions' : p < o /\ o < q /\ chain'[o].kind = "vote" /\ chain'[o].who = chain'[p].who
    <3>0. old \subseteq Positions' /\ (p \in old \/ p \in new) /\ (q \in old \/ q \in new)
      BY <1>1, <1>3 DEF old
    <3>1. CASE q \in old
      <4>1. p \in old
        BY <1>6, <2>3, <3>0, <3>1
      <4>2. chain[p].kind = "clear" /\ chain[q].kind = "clear" /\ chain[p].who = chain[q].who
        BY <1>1, <2>3, <3>1, <4>1
      <4>3. PICK o \in old : p < o /\ o < q /\ chain[o].kind = "vote" /\ chain[o].who = chain[p].who
        BY <1>1, <2>3, <3>1, <4>1, <4>2 DEF ChainFacts, ClearsFollowVotes, Is, SameVoter
      <4>. QED BY <1>1, <3>0, <4>1, <4>3
    <3>2. CASE q \in new
      <4>1. q = n + 1 /\ m = 1 /\ p \in old
        <5>1. q = n + 1 /\ m = 1
          BY <2>1, <2>3, <3>2
        <5>2. p \notin new
          BY <1>1, <2>3, <5>1 DEF new
        <5>. QED BY <3>0, <5>1, <5>2
      <4>2. PICK o \in Where("vote", chain'[q].who) : \A x \in Where("clear", chain'[q].who) : x < o
        BY <2>1, <2>3, <3>2
      <4>3. o \in old /\ chain[o].kind = "vote" /\ chain[o].who = chain'[q].who
        BY <1>5
      <4>4. p \in Where("clear", chain'[q].who)
        BY <1>1, <1>5, <2>3, <4>1
      <4>. QED BY <1>1, <1>6, <2>3, <3>0, <3>2, <4>2, <4>3, <4>4
    <3>. QED BY <3>0, <3>1, <3>2
  <2>. QED BY <2>2, <2>3 DEF ClearsFollowVotes, Is, SameVoter
<1>10. DecidedOnce'
  <2>1. \A p \in new : chain'[p].kind \in {"execute", "cancel", "edit"} =>
           p = n + 1 /\ m = 1 /\ chain'[p].who = NoOne
    BY <1>1, <1>2 DEF LaterTx, new
  <2>2. \A p \in old : /\ chain[p].kind \in {"execute", "cancel", "edit"} => chain[p].who = NoOne
                       /\ chain[p].kind # "execute" /\ chain[p].kind # "cancel"
    <3>1. \A p \in old : chain[p].kind \in {"execute", "cancel", "edit"} => chain[p].who = NoOne
      BY <1>1 DEF ChainFacts, DecidedOnce
    <3>2. Where("execute", NoOne) = {} /\ Where("cancel", NoOne) = {}
      BY DEF Emit
    <3>. QED BY <1>5, <3>1, <3>2
  <2>3. \A p \in Positions' : /\ chain'[p].kind \in {"execute", "cancel", "edit"} => chain'[p].who = NoOne
                              /\ chain'[p].kind \in {"execute", "cancel"} => p = n + 1
    BY <1>1, <1>3, <2>1, <2>2
  <2>. QED BY <2>3 DEF DecidedOnce, Is
<1>. QED BY <1>4, <1>7, <1>8, <1>9, <1>10 DEF ChainFacts

\* Each transaction of the contract is one that may follow.
LEMMA ContractKeepsChainFacts ==
    ASSUME VotesInvariant, NEW c, ChainFacts(c),
           \/ \E v \in Voters : ChainVotes(v) \/ ChainObjects(v) \/ ChainClears(v) \/ ChainApproves(v)
           \/ \E v, d \in Voters : ChainOverrides(v, d)
           \/ \E k \in {"execute", "cancel", "edit"} : ChainDecides(k)
    PROVE  /\ ChainFacts(c)'
           /\ \E events : LaterTx(events) /\ Emit(events)
<1>1. Len(chain) \in Positions
  BY LenProperties DEF VotesInvariant, TypeOK, Positions
<1>2. Now \in Nat /\ Now > 1
  <2>1. LastTx \in Nat
    BY <1>1, ChainElements DEF LastTx, Events
  <2>2. LastTx >= 1
    BY <1>1, <2>1, ChainElements DEF ChainFacts, CreatedAt, LastTx
  <2>. QED BY <2>1, <2>2 DEF Now
<1>3. ASSUME NEW k \in EventKinds, NEW v \in Voters \cup {NoOne}
      PROVE  LET e == Event(k, v, Now) IN e \in Events /\ e.kind = k /\ e.who = v /\ e.tx > 1
  BY <1>2, EventType DEF Event
<1>4. ASSUME NEW k \in EventKinds, NEW v \in Voters \cup {NoOne}, k # "create", k # "objection",
             k = "vote" => kind # "objection",
             k = "clear" => kind = "token" /\ \E o \in Where("vote", v) : \A q \in Where("clear", v) : q < o,
             k \in {"execute", "cancel", "edit"} => v = NoOne
      PROVE  LaterTx(<<Event(k, v, Now)>>)
  <2>. DEFINE e == Event(k, v, Now)
  <2>1. e \in Events /\ e.kind = k /\ e.who = v /\ e.tx > 1
    BY <1>3
  <2>. HIDE DEF e
  <2>2. <<e>> \in Seq(Events) /\ Len(<<e>>) = 1 /\ <<e>>[1] = e
    BY <2>1
  <2>3. LaterTx(<<e>>)
    BY <1>4, <2>1, <2>2 DEF LaterTx
  <2>. QED BY <2>3 DEF e
<1>5. ASSUME NEW k \in {"override", "objection"}, NEW v \in Voters, NEW w \in Voters,
             k = "override" => kind = "token",
             k = "objection" => kind = "objection" /\ w = v /\ Where("vote", v) = {}
      PROVE  LaterTx(<<Event("vote", v, Now), Event(k, w, Now)>>)
  <2>. DEFINE a == Event("vote", v, Now)
              b == Event(k, w, Now)
  <2>1. /\ a \in Events /\ a.kind = "vote" /\ a.who = v /\ a.tx > 1
        /\ b \in Events /\ b.kind = k /\ b.who = w /\ b.tx > 1
    BY <1>3 DEF EventKinds, VoteEvents
  <2>. HIDE DEF a, b
  <2>2. <<a, b>> \in Seq(Events) /\ Len(<<a, b>>) = 2 /\ <<a, b>>[1] = a /\ <<a, b>>[2] = b
    BY <2>1
  <2>. DEFINE s == <<a, b>>
  <2>. HIDE DEF s
  <2>3. s \in Seq(Events) /\ Len(s) = 2 /\ s[1] = a /\ s[2] = b
    BY <2>2 DEF s
  <2>4. \A i \in 1 .. 2 : i = 1 \/ i = 2
    OBVIOUS
  <2>5. LaterTx(s)
    BY <1>5, <2>1, <2>3, <2>4 DEF LaterTx
  <2>. QED BY <2>5 DEF a, b, s
<1>6. ASSUME NEW v \in Voters, ChainVotes(v) PROVE \E events : LaterTx(events) /\ Emit(events)
  <2>1. LaterTx(<<Event("vote", v, Now)>>)
    BY <1>4, <1>6 DEF ChainVotes, EventKinds, VoteEvents
  <2>. QED BY <1>6, <2>1 DEF ChainVotes
<1>7. ASSUME NEW v \in Voters, ChainObjects(v) PROVE \E events : LaterTx(events) /\ Emit(events)
  <2>1. Where("clear", v) = {}
    BY <1>7 DEF ChainObjects, ChainFacts, ClearsFollowVotes, Where, Is
  <2>2. Where("vote", v) = {}
    BY <1>7, <2>1, VotesInForce DEF ChainObjects
  <2>3. LaterTx(<<Event("vote", v, Now), Event("objection", v, Now)>>)
    BY <1>5, <1>7, <2>2 DEF ChainObjects
  <2>. QED BY <1>7, <2>3 DEF ChainObjects
<1>8. ASSUME NEW v \in Voters, ChainClears(v) PROVE \E events : LaterTx(events) /\ Emit(events)
  <2>1. kind = "token" /\ \E o \in Where("vote", v) : \A q \in Where("clear", v) : q < o
    BY <1>8, VotesInForce DEF ChainClears
  <2>2. LaterTx(<<Event("clear", v, Now)>>)
    BY <1>4, <2>1 DEF EventKinds, VoteEvents
  <2>. QED BY <1>8, <2>2 DEF ChainClears
<1>9. ASSUME NEW v \in Voters, ChainApproves(v) PROVE \E events : LaterTx(events) /\ Emit(events)
  <2>1. LaterTx(<<Event("approve", v, Now)>>)
    BY <1>4 DEF EventKinds, VoteEvents
  <2>. QED BY <1>9, <2>1 DEF ChainApproves
<1>10. ASSUME NEW v \in Voters, NEW d \in Voters, ChainOverrides(v, d)
       PROVE  \E events : LaterTx(events) /\ Emit(events)
  <2>1. LaterTx(<<Event("vote", v, Now), Event("override", d, Now)>>)
    BY <1>5, <1>10 DEF ChainOverrides
  <2>. QED BY <1>10, <2>1 DEF ChainOverrides
<1>11. ASSUME NEW k \in {"execute", "cancel", "edit"}, ChainDecides(k)
       PROVE  \E events : LaterTx(events) /\ Emit(events)
  <2>1. LaterTx(<<Event(k, NoOne, Now)>>)
    BY <1>4 DEF EventKinds, VoteEvents
  <2>. QED BY <1>11, <2>1 DEF ChainDecides
<1>12. \E events : LaterTx(events) /\ Emit(events)
  BY <1>6, <1>7, <1>8, <1>9, <1>10, <1>11
<1>. QED BY <1>12, EmitKeepsChainFacts

\* The events that proposalCreated handles again come before the creation.
LEMMA CrawlersKeepChainFacts ==
    ASSUME VotesInvariant, NEW c, ChainFacts(c), UNCHANGED <<kind, chain>>, NEW k \in Crawlers,
           \A d \in Crawlers \ {k} : crawler'[d].redrive = crawler[d].redrive,
           \/ crawler'[k].redrive \subseteq crawler[k].redrive
           \/ crawler'[k].redrive = OutOfOrder(Current(k)) /\ AtEvent(k, "write", {"create"})
    PROVE  ChainFacts(c)'
<1>1. \A d \in Crawlers : crawler'[d].redrive \subseteq 1 .. c - 1
  <2>1. ASSUME AtEvent(k, "write", {"create"}) PROVE OutOfOrder(Current(k)) \subseteq 1 .. c - 1
    BY <2>1 DEF ChainFacts, CreatedAt, AtEvent, At, Is, OutOfOrder
  <2>. QED BY <2>1 DEF ChainFacts
<1>. QED BY <1>1 DEF ChainFacts, CreatedAt, ObjectionsAreVotes, ClearsFollowVotes, DecidedOnce,
                    Positions, Is, IsCast, SameVoter

\* Only the contract changes the chain.
LEMMA OtherStepsKeepChainFacts ==
    ASSUME VotesInvariant, NEW c, ChainFacts(c),
           \/ \E k \in Crawlers :
                 \/ IgnoreVote(k) \/ FindLog(k) \/ FindVote(k) \/ WriteVote(k)
                 \/ FindProposal(k) \/ ProposalCreated(k) \/ ProposalExecuted(k) \/ ProposalUpdated(k)
                 \/ HandlerFails(k) \/ CreateFailsHalfway(k) \/ SendMessage(k) \/ SendFails(k) \/ Crash(k)
           \/ StartMetrics \/ RetryMetrics \/ FinishMetrics \/ MetricsFail \/ DropDuplicate
           \/ UNCHANGED vars
    PROVE  ChainFacts(c)'
<1>1. CASE UNCHANGED vars \/ StartMetrics \/ RetryMetrics \/ FinishMetrics \/ MetricsFail \/ DropDuplicate
  <2>1. UNCHANGED <<kind, chain, crawler>>
    BY <1>1 DEF vars, StartMetrics, RetryMetrics, FinishMetrics, MetricsFail, DropDuplicate
  <2>. QED BY <2>1 DEF ChainFacts, CreatedAt, ObjectionsAreVotes, ClearsFollowVotes, DecidedOnce,
                    Positions, Is, IsCast, SameVoter
<1>2. ASSUME NEW k \in Crawlers,
             \/ IgnoreVote(k) \/ FindLog(k) \/ FindVote(k) \/ WriteVote(k)
             \/ FindProposal(k) \/ ProposalCreated(k) \/ ProposalExecuted(k) \/ ProposalUpdated(k)
             \/ HandlerFails(k) \/ CreateFailsHalfway(k) \/ SendMessage(k) \/ SendFails(k) \/ Crash(k)
      PROVE  ChainFacts(c)'
  <2>1. UNCHANGED <<kind, chain>>
    BY <1>2 DEF IgnoreVote, FindLog, FindVote, WriteVote, FindProposal, ProposalCreated,
                ProposalExecuted, ProposalUpdated, HandlerFails, CreateFailsHalfway, SendMessage,
                SendFails, Crash
  <2>2. crawler \in [Crawlers -> CrawlerStates]
    BY DEF VotesInvariant, TypeOK
  <2>3. ASSUME NEW s \in {"idle", "send"}, Pass(k, s), Current(k) \in Positions PROVE ChainFacts(c)'
    <3>1. Passed(k, s).redrive \subseteq crawler[k].redrive
      BY <2>3, PassedType
    <3>2. crawler'[k] = Passed(k, s) /\ \A d \in Crawlers \ {k} : crawler'[d] = crawler[d]
      BY <2>2, <2>3 DEF Pass
    <3>. QED BY <2>1, <3>1, <3>2, CrawlersKeepChainFacts
  <2>4. ASSUME NEW s, NEW f, Go(k, s, f) PROVE ChainFacts(c)'
    <3>1. crawler'[k].redrive = crawler[k].redrive /\ \A d \in Crawlers \ {k} : crawler'[d] = crawler[d]
      BY <2>2, <2>4 DEF Go, CrawlerStates
    <3>. QED BY <2>1, <3>1, CrawlersKeepChainFacts
  <2>5. CASE IgnoreVote(k) \/ ProposalExecuted(k) \/ ProposalUpdated(k) \/ HandlerFails(k)
             \/ CreateFailsHalfway(k)
    <3>1. (Pass(k, "idle") \/ Pass(k, "send")) /\ Current(k) \in Positions
      BY <2>5 DEF IgnoreVote, ProposalExecuted, ProposalUpdated, HandlerFails, CreateFailsHalfway,
                  AtEvent, At
    <3>. QED BY <2>3, <3>1
  <2>6. CASE FindLog(k) \/ FindVote(k)
    <3>1. \E s, f : Go(k, s, f)
      BY <2>6 DEF FindLog, FindVote
    <3>. QED BY <2>4, <3>1
  <2>7. CASE FindProposal(k)
    <3>1. (Pass(k, "idle") \/ Go(k, "write", 0)) /\ Current(k) \in Positions
      BY <2>7 DEF FindProposal, AtEvent, At
    <3>. QED BY <2>3, <2>4, <3>1
  <2>8. CASE ProposalCreated(k)
    <3>. DEFINE l == [Passed(k, "send") EXCEPT !.redrive = OutOfOrder(Current(k))]
    <3>1. crawler' = [crawler EXCEPT ![k] = l] /\ AtEvent(k, "write", {"create"})
      BY <2>8 DEF ProposalCreated
    <3>2. Passed(k, "send") \in CrawlerStates
      BY <3>1, PassedType DEF AtEvent, At
    <3>3. l.redrive = OutOfOrder(Current(k))
      BY <3>2 DEF CrawlerStates
    <3>4. crawler'[k] = l /\ \A d \in Crawlers \ {k} : crawler'[d] = crawler[d]
      BY <2>2, <3>1
    <3>. HIDE DEF l
    <3>. QED BY <2>1, <3>1, <3>3, <3>4, CrawlersKeepChainFacts
  <2>9. CASE SendMessage(k) \/ SendFails(k)
    <3>1. crawler'[k].redrive = crawler[k].redrive /\ \A d \in Crawlers \ {k} : crawler'[d] = crawler[d]
      BY <2>2, <2>9 DEF SendMessage, SendFails, Sent, CrawlerStates
    <3>. QED BY <2>1, <3>1, CrawlersKeepChainFacts
  <2>10. CASE Crash(k)
    <3>1. \E p : crawler' = [crawler EXCEPT ![k] = From(p)]
      BY <2>10 DEF Crash
    <3>2. crawler'[k].redrive = {} /\ \A d \in Crawlers \ {k} : crawler'[d] = crawler[d]
      BY <2>2, <3>1 DEF From
    <3>. QED BY <2>1, <3>2, CrawlersKeepChainFacts
  <2>11. CASE WriteVote(k)
    <3>1. Current(k) \in Positions
      BY <2>11 DEF WriteVote, AtEvent, At
    <3>2. crawler'[k].redrive \subseteq crawler[k].redrive
      BY <2>11, <3>1, WriteMoves, PassedType
    <3>3. \A d \in Crawlers \ {k} : crawler'[d].redrive = crawler[d].redrive
      BY <2>11, WriteMoves
    <3>. QED BY <2>1, <3>2, <3>3, CrawlersKeepChainFacts
  <2>. QED BY <1>2, <2>5, <2>6, <2>7, <2>8, <2>9, <2>10, <2>11
<1>. QED BY <1>1, <1>2

\* The creating transaction has these facts.
LEMMA InitEstablishesChainFacts ==
    ASSUME Init
    PROVE  \E c \in Positions : ChainFacts(c)
<1>. DEFINE create == Event("create", NoOne, 1)
            execute == Event("execute", NoOne, 1)
<1>1. kind \in {"token", "multisig", "objection"} /\ \A k \in Crawlers : crawler[k].redrive = {}
  BY ProposalsAssumption DEF Init, From
<1>2. \/ chain = <<create>>
      \/ kind = "token" /\ \E v \in Voters : chain = <<Event("vote", v, 1), create>>
      \/ kind = "multisig" /\ \E v \in Voters : chain = <<Event("approve", v, 1), execute, create>>
  BY <1>1 DEF Init, FirstTxs
<1>3. /\ create.kind = "create" /\ create.tx = 1
      /\ execute.kind = "execute" /\ execute.tx = 1 /\ execute.who = NoOne
  BY DEF Event
<1>4. CASE chain = <<create>>
  <2>1. Positions = {1} /\ chain[1] = create
    BY <1>4 DEF Positions
  <2>2. ChainFacts(1)
    BY <1>1, <1>3, <2>1 DEF ChainFacts, CreatedAt, ObjectionsAreVotes, ClearsFollowVotes, DecidedOnce,
                            Is, IsCast, SameVoter
  <2>. QED BY <2>1, <2>2
<1>5. ASSUME NEW v \in Voters, kind = "token", chain = <<Event("vote", v, 1), create>>
      PROVE  \E c \in Positions : ChainFacts(c)
  <2>1. Positions = {1, 2} /\ chain[2] = create /\ chain[1].kind = "vote" /\ chain[1].tx = 1
    BY <1>5 DEF Positions, Event
  <2>2. ChainFacts(2)
    BY <1>1, <1>3, <1>5, <2>1 DEF ChainFacts, CreatedAt, ObjectionsAreVotes, ClearsFollowVotes,
                                  DecidedOnce, Is, IsCast, SameVoter
  <2>. QED BY <2>1, <2>2
<1>6. ASSUME NEW v \in Voters, kind = "multisig", chain = <<Event("approve", v, 1), execute, create>>
      PROVE  \E c \in Positions : ChainFacts(c)
  <2>1. /\ Positions = {1, 2, 3} /\ chain[2] = execute /\ chain[3] = create
        /\ chain[1].kind = "approve" /\ chain[1].tx = 1
    BY <1>6 DEF Positions, Event
  <2>2. ChainFacts(3)
    BY <1>1, <1>3, <1>6, <2>1 DEF ChainFacts, CreatedAt, ObjectionsAreVotes, ClearsFollowVotes,
                                  DecidedOnce, Is, IsCast, SameVoter
  <2>. QED BY <2>1, <2>2
<1>. QED BY <1>2, <1>4, <1>5, <1>6

-----------------------------------------------------------------------------
(* The stored proposal, and what the handlers have read *)

ProposalType ==
    proposal \in [exists : BOOLEAN, executed : Nat, canceled : Nat, edited : Nat]

\* The stored proposal keeps its type, and once stored stays.
LEMMA ProposalTypeKept ==
    ASSUME VotesInvariant, ProposalType, [Next]_vars
    PROVE  ProposalType' /\ (proposal.exists => proposal'.exists)
<1>. DEFINE Type == [exists : BOOLEAN, executed : Nat, canceled : Nat, edited : Nat]
<1>1. \A k \in Crawlers : Current(k) \in Positions => Current(k) \in Nat
  BY ChainElements
<1>2. CASE UNCHANGED proposal
  BY <1>2 DEF ProposalType
<1>3. CASE \E k \in Crawlers : ProposalCreated(k) \/ CreateFailsHalfway(k)
  <2>1. proposal' = [proposal EXCEPT !.exists = TRUE]
    BY <1>3 DEF ProposalCreated, CreateFailsHalfway
  <2>. QED BY <2>1 DEF ProposalType
<1>4. ASSUME NEW k \in Crawlers, ProposalExecuted(k) \/ ProposalUpdated(k)
      PROVE  ProposalType' /\ (proposal.exists => proposal'.exists)
  <2>1. /\ proposal' \in {proposal, [proposal EXCEPT !.executed = Current(k)],
                          [proposal EXCEPT !.canceled = Current(k)], [proposal EXCEPT !.edited = Current(k)]}
        /\ Current(k) \in Positions
    BY <1>4 DEF ProposalExecuted, ProposalUpdated, AtEvent, At
  <2>2. \A r \in {proposal, [proposal EXCEPT !.executed = Current(k)],
                  [proposal EXCEPT !.canceled = Current(k)], [proposal EXCEPT !.edited = Current(k)]} :
            r \in Type /\ r.exists = proposal.exists
    BY <1>1, <2>1 DEF ProposalType
  <2>. QED BY <2>1, <2>2 DEF ProposalType
<1>5. \/ UNCHANGED proposal
      \/ \E k \in Crawlers : \/ ProposalCreated(k) \/ CreateFailsHalfway(k)
                             \/ ProposalExecuted(k) \/ ProposalUpdated(k)
  BY Steps DEF vars, ChainVotes, ChainObjects, ChainClears, ChainApproves, ChainOverrides, ChainDecides,
         Emit, WriteVote, IgnoreVote, FindLog, FindVote, FindProposal, HandlerFails, SendMessage,
         SendFails, Crash, StartMetrics, RetryMetrics, FinishMetrics, MetricsFail, DropDuplicate
<1>. QED BY <1>2, <1>3, <1>4, <1>5

\* A step of one crawler leaves the others where they are.
LEMMA OneMoves ==
    ASSUME VotesInvariant, NEW k \in Crawlers, NEW l, crawler' = [crawler EXCEPT ![k] = l]
    PROVE  /\ crawler'[k] = l
           /\ \A d \in Crawlers \ {k} : crawler'[d] = crawler[d] /\ Current(d)' = Current(d)
<1>1. crawler \in [Crawlers -> CrawlerStates]
  BY DEF VotesInvariant, TypeOK
<1>2. crawler'[k] = l /\ \A d \in Crawlers \ {k} : crawler'[d] = crawler[d]
  BY <1>1
<1>. QED BY <1>2 DEF Current

\* A handler that has read is at an event, and goes on with a vote's event only for
\* a proposal that is stored.  A vote of an objection plugin is never replaced.
HandlersHaveRead ==
    /\ ~proposal.exists => votes = {} /\ metrics = {}
    /\ \A k \in Crawlers : crawler[k].step \in {"find", "write"} =>
          Current(k) \in Positions /\ (chain[Current(k)].kind \in VoteEvents => proposal.exists)
    /\ kind = "objection" => \A k \in Crawlers : ~crawler[k].gone

\* The steps of crawlers between transactions.
LEMMA CrawlersHaveRead ==
    ASSUME VotesInvariant, ProposalType, HandlersHaveRead, proposal.exists => proposal'.exists,
           NEW k \in Crawlers,
           \/ IgnoreVote(k) \/ FindLog(k) \/ FindVote(k)
           \/ FindProposal(k) \/ ProposalCreated(k) \/ ProposalExecuted(k) \/ ProposalUpdated(k)
           \/ HandlerFails(k) \/ CreateFailsHalfway(k) \/ SendMessage(k) \/ SendFails(k) \/ Crash(k)
    PROVE  HandlersHaveRead'
<1>1. /\ crawler \in [Crawlers -> CrawlerStates] /\ crawler[k] \in CrawlerStates
      /\ crawler[k].step # "write" => ~crawler[k].gone
  BY DEF VotesInvariant, TypeOK, OnTheChain
<1>2. UNCHANGED <<kind, chain, votes, metrics>>
  BY DEF IgnoreVote, FindLog, FindVote, FindProposal, ProposalCreated, ProposalExecuted,
         ProposalUpdated, HandlerFails, CreateFailsHalfway, SendMessage, SendFails, Crash, counts
<1>3. ASSUME NEW l, crawler' = [crawler EXCEPT ![k] = l],
             l.step \in {"find", "write"} =>
                Current(k)' \in Positions /\ (chain[Current(k)'].kind \in VoteEvents => proposal'.exists),
             kind = "objection" => ~l.gone
      PROVE  HandlersHaveRead'
  <2>1. crawler'[k] = l /\ \A d \in Crawlers \ {k} : crawler'[d] = crawler[d] /\ Current(d)' = Current(d)
    BY <1>3, OneMoves
  <2>2. ~proposal'.exists => votes' = {} /\ metrics' = {}
    BY <1>2, Zenon DEF HandlersHaveRead
  <2>3. \A d \in Crawlers : crawler'[d].step \in {"find", "write"} =>
          Current(d)' \in Positions /\ (chain[Current(d)'].kind \in VoteEvents => proposal'.exists)
    BY <1>3, <2>1, Zenon DEF HandlersHaveRead
  <2>4. kind = "objection" => \A d \in Crawlers : ~crawler'[d].gone
    BY <1>3, <2>1, Zenon DEF HandlersHaveRead
  <2>. QED BY <1>2, <2>2, <2>3, <2>4 DEF HandlersHaveRead, Positions
<1>4. ASSUME NEW s \in {"idle", "send"}, Pass(k, s), Current(k) \in Positions PROVE HandlersHaveRead'
  <2>1. Passed(k, s).step = s /\ ~Passed(k, s).gone
    BY <1>4, PassedType
  <2>. QED BY <1>3, <1>4, <2>1 DEF Pass
<1>5. ASSUME NEW s \in {"find", "write"}, NEW f, Go(k, s, f), Current(k) \in Positions,
             crawler[k].step # "write", chain[Current(k)].kind \in VoteEvents => proposal.exists
      PROVE  HandlersHaveRead'
  <2>. DEFINE l == [crawler[k] EXCEPT !.step = s, !.found = f]
  <2>1. crawler' = [crawler EXCEPT ![k] = l] /\ l.redrive = crawler[k].redrive /\ l.next = crawler[k].next
        /\ l.gone = crawler[k].gone
    BY <1>1, <1>5 DEF Go, CrawlerStates
  <2>. HIDE DEF l
  <2>2. crawler'[k] = l
    BY <2>1, OneMoves
  <2>3. Current(k)' = Current(k)
    BY <2>1, <2>2 DEF Current
  <2>4. ~crawler[k].gone
    BY <1>1, <1>5
  <2>. QED BY <1>3, <1>5, <2>1, <2>3, <2>4
<1>6. CASE \/ IgnoreVote(k) \/ ProposalExecuted(k) \/ ProposalUpdated(k) \/ HandlerFails(k)
           \/ CreateFailsHalfway(k)
  <2>1. (Pass(k, "idle") \/ Pass(k, "send")) /\ Current(k) \in Positions
    BY <1>6 DEF IgnoreVote, ProposalExecuted, ProposalUpdated, HandlerFails, CreateFailsHalfway,
                AtEvent, At
  <2>. QED BY <1>4, <2>1
<1>7. CASE FindLog(k)
  <2>1. /\ Current(k) \in Positions /\ crawler[k].step # "write" /\ proposal.exists
        /\ Go(k, "find", 0) \/ Go(k, "write", 0)
    BY <1>7 DEF FindLog, AtEvent, At
  <2>. QED BY <1>5, <2>1
<1>8. CASE FindVote(k)
  <2>1. /\ Current(k) \in Positions /\ crawler[k].step # "write"
        /\ \E f : Go(k, "write", f)
        /\ \/ AtEvent(k, "find", {"vote"})
           \/ AtEvent(k, "idle", Updates) /\ ToUpdate(Current(k)) # {}
    BY <1>8 DEF FindVote, AtEvent, At
  <2>2. proposal.exists
    <3>1. CASE AtEvent(k, "find", {"vote"})
      BY <3>1 DEF AtEvent, At, HandlersHaveRead, VoteEvents
    <3>2. CASE AtEvent(k, "idle", Updates) /\ ToUpdate(Current(k)) # {}
      <4>1. ToUpdate(Current(k)) \subseteq votes
        BY <3>2 DEF AtEvent, Updates, ToUpdate, OverrideVoteCast, ObjectionCast, VoteCleared, OnPlugin
      <4>. QED BY <3>2, <4>1, Zenon DEF HandlersHaveRead
    <3>. QED BY <2>1, <3>1, <3>2
  <2>. QED BY <1>5, <2>1, <2>2
<1>9. CASE FindProposal(k)
  <2>1. /\ Current(k) \in Positions /\ crawler[k].step # "write" /\ chain[Current(k)].kind \notin VoteEvents
        /\ Pass(k, "idle") \/ Go(k, "write", 0)
    BY <1>9 DEF FindProposal, AtEvent, At, VoteEvents
  <2>. QED BY <1>4, <1>5, <2>1
<1>10. CASE ProposalCreated(k)
  <2>. DEFINE l == [Passed(k, "send") EXCEPT !.redrive = OutOfOrder(Current(k))]
  <2>1. crawler' = [crawler EXCEPT ![k] = l] /\ Current(k) \in Positions
    BY <1>10 DEF ProposalCreated, AtEvent, At
  <2>2. Passed(k, "send") \in CrawlerStates /\ Passed(k, "send").step = "send" /\ ~Passed(k, "send").gone
    BY <2>1, PassedType
  <2>3. l.step = "send" /\ ~l.gone
    BY <2>2 DEF CrawlerStates
  <2>. HIDE DEF l
  <2>. QED BY <1>3, <2>1, <2>3
<1>11. CASE SendMessage(k) \/ SendFails(k)
  <2>. DEFINE l == [crawler[k] EXCEPT !.step = "idle"]
  <2>1. crawler' = [crawler EXCEPT ![k] = l] /\ l.step = "idle" /\ l.gone = crawler[k].gone
        /\ ~crawler[k].gone
    BY <1>1, <1>11 DEF SendMessage, SendFails, Sent, Unsent, CrawlerStates
  <2>. HIDE DEF l
  <2>. QED BY <1>3, <2>1
<1>12. CASE Crash(k)
  <2>1. PICK p : crawler' = [crawler EXCEPT ![k] = From(p)]
    BY <1>12 DEF Crash
  <2>2. From(p).step = "idle" /\ ~From(p).gone
    BY DEF From
  <2>. QED BY <1>3, <2>1, <2>2
<1>. QED BY <1>6, <1>7, <1>8, <1>9, <1>10, <1>11, <1>12

\* The transaction of a vote's handler, and what its crawler owes afterwards.
LEMMA WriteHasRead ==
    ASSUME VotesInvariant, NEW c, ChainFacts(c), HandlersHaveRead, NEW k \in Crawlers, WriteVote(k)
    PROVE  /\ HandlersHaveRead' /\ proposal.exists
           /\ Deleted # {} => kind # "objection"
<1>1. PICK p, f : p = Current(k) /\ f = crawler[k].found
  OBVIOUS
<1>2. /\ p \in Positions /\ crawler[k].step = "write" /\ chain[p].kind \in VoteEvents
      /\ UNCHANGED <<kind, chain, proposal, metrics>>
  BY <1>1 DEF WriteVote, AtEvent, At, counts
<1>3. proposal.exists
  BY <1>1, <1>2 DEF HandlersHaveRead
<1>4. ASSUME kind = "objection", NEW x \in Deleted PROVE FALSE
  <2>1. PICK r \in votes : x = r.pos /\ \A s \in votes' : s.pos # x
    BY <1>4 DEF Deleted
  <2>2. chain[p].kind \notin Updates
    <3>1. ASSUME NEW new \in votes', SetBy(new, r, p) PROVE FALSE
      BY <2>1, <3>1 DEF SetBy
    <3>. QED BY <1>1, <2>1, <3>1, WrittenVotes
  <2>3. chain[p].kind # "approve"
    BY <1>2, <1>4 DEF VotesInvariant, PluginEvents
  <2>4. chain[p].kind = "vote" /\ ~Stored(p)
    BY <1>1, <1>2, <2>1, <2>2, <2>3, WrittenVotes DEF VoteEvents, Updates
  <2>5. r.pos = f
    BY <1>1, <2>1, <2>4, WrittenVotes
  <2>6. r.pos \in Positions /\ chain[r.pos].who = r.who /\ chain[r.pos].kind \in {"vote", "approve"}
        /\ r.pos # 0
    BY DEF VotesInvariant, VotesAreCast, Positions
  <2>7. chain[f].who = chain[p].who /\ chain[f].kind = "vote" /\ f \in Positions
    BY <1>1, <1>4, <2>5, <2>6 DEF VotesInvariant, OnTheChain, PluginEvents
  <2>8. f = p
    BY <1>2, <1>4, <2>4, <2>7 DEF ChainFacts, ObjectionsAreVotes, Is, SameVoter
  <2>. QED BY <2>4, <2>5, <2>8 DEF Stored
<1>5. /\ crawler'[k].step \in {"idle", "send"} /\ ~crawler'[k].gone
      /\ \A d \in Crawlers \ {k} :
            /\ crawler'[d].step = crawler[d].step
            /\ crawler'[d].gone <=> crawler[d].gone \/ crawler[d].found \in Deleted
            /\ Current(d)' = Current(d)
  BY <1>1, <1>2, WriteMoves, PassedType
<1>6. \A d \in Crawlers : crawler'[d].step \in {"find", "write"} =>
          Current(d)' \in Positions /\ (chain[Current(d)'].kind \in VoteEvents => proposal.exists)
  BY <1>3, <1>5, Zenon DEF HandlersHaveRead
<1>7. kind = "objection" => \A d \in Crawlers : ~crawler'[d].gone
  BY <1>4, <1>5, Zenon DEF HandlersHaveRead
<1>. QED BY <1>2, <1>3, <1>4, <1>6, <1>7 DEF HandlersHaveRead, Positions

-----------------------------------------------------------------------------
(* The counts *)

\* An objection that crawler k is still to handle, whose vote is stored: its handler
\* will ask for the counts.
Objects(k) ==
    \E p \in Positions : p >= crawler[k].next /\ Is(p, "objection") /\ \E r \in votes : r.who = chain[p].who

\* Some crawler has yet to ask for the counts, or one who should have will not.
ToCount == missed \/ \E k \in Crawlers : Unsent(k) \/ Objects(k)

CountsInvariant ==
    /\ queue \in Nat
    /\ ~ToCount /\ queue = 0 => IF worker.busy THEN worker.read = Tally ELSE metrics = Tally

\* The counts stay right while the votes do and nothing that was to be counted is forgotten.
LEMMA CountsStay ==
    ASSUME CountsInvariant, UNCHANGED <<votes, queue, worker, metrics>>, ToCount => ToCount'
    PROVE  CountsInvariant'
<1>1. Tally' = Tally
  BY DEF Tally
<1>2. ASSUME ~ToCount', queue' = 0
      PROVE  IF worker'.busy THEN worker'.read = Tally' ELSE metrics' = Tally'
  <2>1. ~ToCount /\ queue = 0
    BY <1>2, Zenon
  <2>2. IF worker.busy THEN worker.read = Tally ELSE metrics = Tally
    BY <2>1, Zenon DEF CountsInvariant
  <2>. QED BY <1>1, <2>2
<1>3. queue' \in Nat
  BY DEF CountsInvariant
<1>. QED BY <1>2, <1>3, Zenon DEF CountsInvariant

\* What a step of crawler k leaves to count, if it did not owe a message.
LEMMA StillToCount ==
    ASSUME UNCHANGED <<chain, votes>>, NEW k \in Crawlers, ToCount, missed => missed',
           \A d \in Crawlers \ {k} : crawler'[d] = crawler[d],
           Unsent(k) \/ Objects(k) => missed' \/ Unsent(k)' \/ Objects(k)'
    PROVE  ToCount'
<1>1. ASSUME NEW d \in Crawlers \ {k}
      PROVE  (Unsent(d)' <=> Unsent(d)) /\ (Objects(d)' <=> Objects(d))
  BY <1>1 DEF Unsent, Objects, Positions, Is
<1>. QED BY <1>1, Zenon DEF ToCount

\* What is still to be handled stays to be handled.
LEMMA ObjectsStays ==
    ASSUME VotesInvariant, NEW k \in Crawlers, Objects(k), UNCHANGED <<chain, votes>>,
           \/ crawler'[k].next \in Nat /\ crawler'[k].next <= crawler[k].next
           \/ /\ crawler'[k].next = crawler[k].next + 1
              /\ LET p == crawler[k].next IN ~(Is(p, "objection") /\ \E r \in votes : r.who = chain[p].who)
    PROVE  Objects(k)'
<1>1. crawler[k].next \in Nat
  BY DEF VotesInvariant, TypeOK, CrawlerStates
<1>2. PICK p \in Positions : /\ p >= crawler[k].next /\ Is(p, "objection")
                             /\ \E r \in votes : r.who = chain[p].who
  BY DEF Objects
<1>3. p \in Nat /\ p >= crawler'[k].next
  BY <1>1, <1>2, ChainElements
<1>. QED BY <1>2, <1>3 DEF Objects, Positions, Is

\* A voter of an objection plugin votes once: one who has a vote is found to have it.
LEMMA ObjectorsVoteIsFound ==
    ASSUME VotesInvariant, NEW c, ChainFacts(c), kind = "objection", NEW v, OnPlugin(v) = {}
    PROVE  ~\E r \in votes : r.who = v
<1>. SUFFICES ASSUME NEW r \in votes, r.who = v PROVE FALSE
  OBVIOUS
<1>1. \A s \in votes : s.who = v => /\ s.pos \in Positions /\ Is(s.pos, "vote")
                                    /\ chain[s.pos].who = v
  BY DEF VotesInvariant, VotesAreCast, PluginEvents, Is
<1>2. \A s \in votes : s.who = v => s.pos = r.pos
  BY <1>1 DEF ChainFacts, ObjectionsAreVotes, SameVoter
<1>3. chain[r.pos].tx \in Nat
  BY <1>1, ChainElements DEF Events
<1>4. r \in OnPlugin(v)
  BY <1>2, <1>3 DEF OnPlugin
<1>. QED BY <1>4

\* A stored vote is followed by its message, that of an objection by its objection.
LEMMA WriteKeepsCounts ==
    ASSUME VotesInvariant, NEW c, ChainFacts(c), HandlersHaveRead, CountsInvariant,
           NEW k \in Crawlers, WriteVote(k)
    PROVE  CountsInvariant'
<1>1. PICK p : p = Current(k)
  OBVIOUS
<1>2. /\ p \in Positions /\ chain[p].kind \in VoteEvents /\ p \in Nat
      /\ UNCHANGED <<kind, chain, queue, worker, metrics, missed>>
  BY <1>1, ChainElements DEF WriteVote, AtEvent, At, counts
<1>3. crawler'[k] = Passed(k, IF Asks(p, crawler[k].gone) THEN "send" ELSE "idle")
  BY <1>1, Zenon DEF WriteVote
<1>4. CASE Asks(p, crawler[k].gone)
  <2>1. Unsent(k)'
    BY <1>1, <1>2, <1>3, <1>4, PassedType DEF Unsent
  <2>. QED BY <1>2, <2>1 DEF CountsInvariant, ToCount
<1>5. CASE ~Asks(p, crawler[k].gone)
  <2>1. kind = "objection"
    BY <1>2, <1>5 DEF Asks, ChainFacts, ObjectionsAreVotes, Is
  <2>2. chain[p].kind = "vote"
    BY <1>5, <2>1 DEF Asks, HandlersHaveRead
  <2>3. crawler[k].redrive = {}
    BY <2>1 DEF ChainFacts, CreatedAt
  <2>4. p = crawler[k].next /\ crawler'[k].next = p + 1
    BY <1>1, <1>2, <1>3, <2>3, PassedType
  <2>5. p + 1 \in Positions /\ Is(p + 1, "objection") /\ SameVoter(p, p + 1)
    BY <1>2, <2>1, <2>2 DEF ChainFacts, ObjectionsAreVotes, Is
  <2>6. \E r \in votes' : r.who = chain[p].who
    <3>1. CASE Stored(p)
      <4>1. PICK r \in votes : r.pos = p
        BY <3>1 DEF Stored
      <4>2. r.who = chain[p].who
        BY <4>1 DEF VotesInvariant, VotesAreCast
      <4>. QED BY <1>1, <2>2, <3>1, <4>2, WrittenVotes
    <3>2. CASE ~Stored(p)
      BY <1>1, <2>2, <3>2, WrittenVotes DEF NewVote
    <3>. QED BY <3>1, <3>2
  <2>7. Objects(k)'
    <3>1. (p + 1) \in Positions' /\ p + 1 >= crawler'[k].next /\ Is(p + 1, "objection")'
      BY <1>2, <2>4, <2>5 DEF Positions, Is
    <3>2. \E r \in votes' : r.who = chain'[p + 1].who
      BY <1>2, <2>5, <2>6 DEF SameVoter
    <3>. QED BY <3>1, <3>2 DEF Objects
  <2>. QED BY <1>2, <2>7 DEF CountsInvariant, ToCount
<1>. QED BY <1>4, <1>5

\* The crawlers' other steps: an objection with a stored vote is not ignored, and
\* one whose handler fails, or that a crawler skips, is missed.
LEMMA CrawlersKeepCounts ==
    ASSUME VotesInvariant, NEW c, ChainFacts(c), CountsInvariant, NEW k \in Crawlers,
           \/ IgnoreVote(k) \/ FindLog(k) \/ FindVote(k)
           \/ FindProposal(k) \/ ProposalCreated(k) \/ ProposalExecuted(k) \/ ProposalUpdated(k)
           \/ HandlerFails(k) \/ CreateFailsHalfway(k) \/ SendFails(k) \/ Crash(k)
    PROVE  CountsInvariant'
<1>1. UNCHANGED <<chain, votes, queue, worker, metrics>>
  BY DEF IgnoreVote, FindLog, FindVote, FindProposal, ProposalCreated, ProposalExecuted,
         ProposalUpdated, HandlerFails, CreateFailsHalfway, SendFails, Crash, counts
<1>2. crawler \in [Crawlers -> CrawlerStates] /\ crawler[k].next \in Nat
  BY DEF VotesInvariant, TypeOK, CrawlerStates
<1>3. ASSUME NEW l, crawler' = [crawler EXCEPT ![k] = l], missed => missed',
             Unsent(k) => missed' \/ l.step = "send",
             Objects(k) => missed' \/ l.step = "send" \/ Objects(k)'
      PROVE  CountsInvariant'
  <2>1. crawler'[k] = l /\ \A d \in Crawlers \ {k} : crawler'[d] = crawler[d]
    BY <1>3, OneMoves
  <2>2. ToCount => ToCount'
    BY <1>1, <1>3, <2>1, StillToCount DEF Unsent
  <2>. QED BY <1>1, <2>2, CountsStay
<1>4. ASSUME NEW s \in {"idle", "send"}, Pass(k, s), Current(k) \in Positions, ~Unsent(k),
             missed => missed',
             \/ missed' \/ ~Is(Current(k), "objection")
             \/ ~\E r \in votes : r.who = chain[Current(k)].who
      PROVE  CountsInvariant'
  <2>1. crawler'[k] = Passed(k, s)
    BY <1>4, OneMoves DEF Pass
  <2>2. \/ crawler'[k].next = crawler[k].next
        \/ crawler'[k].next = crawler[k].next + 1 /\ Current(k) = crawler[k].next
    BY <1>4, <2>1, PassedType
  <2>3. Objects(k) => missed' \/ Objects(k)'
    BY <1>1, <1>2, <1>4, <2>2, ObjectsStays
  <2>. QED BY <1>3, <1>4, <2>3 DEF Pass
<1>5. ASSUME NEW s \in {"find", "write"}, NEW f, Go(k, s, f), ~Unsent(k), UNCHANGED missed
      PROVE  CountsInvariant'
  <2>. DEFINE l == [crawler[k] EXCEPT !.step = s, !.found = f]
  <2>1. crawler' = [crawler EXCEPT ![k] = l] /\ l.next = crawler[k].next
    BY <1>2, <1>5 DEF Go, CrawlerStates
  <2>. HIDE DEF l
  <2>2. crawler'[k].next = crawler[k].next
    BY <2>1, OneMoves
  <2>3. Objects(k) => Objects(k)'
    BY <1>1, <1>2, <2>2, ObjectsStays
  <2>. QED BY <1>3, <1>5, <2>1, <2>3
<1>6. CASE IgnoreVote(k)
  <2>1. Pass(k, "idle") /\ Current(k) \in Positions /\ ~Unsent(k) /\ UNCHANGED missed
    BY <1>6 DEF IgnoreVote, AtEvent, At, Unsent, counts
  <2>2. ASSUME Is(Current(k), "objection") PROVE ~\E r \in votes : r.who = chain[Current(k)].who
    <3>1. ToUpdate(Current(k)) = {}
      BY <1>6, <2>2 DEF IgnoreVote, AtEvent, Is
    <3>2. OnPlugin(chain[Current(k)].who) = {}
      BY <2>2, <3>1 DEF ToUpdate, ObjectionCast, Is
    <3>3. kind = "objection"
      BY <2>1, <2>2 DEF ChainFacts, ObjectionsAreVotes
    <3>. QED BY <3>2, <3>3, ObjectorsVoteIsFound
  <2>. QED BY <1>4, <2>1, <2>2
<1>7. CASE ProposalExecuted(k) \/ ProposalUpdated(k) \/ CreateFailsHalfway(k)
  <2>1. /\ Pass(k, "idle") /\ Current(k) \in Positions /\ ~Unsent(k) /\ UNCHANGED missed
        /\ ~Is(Current(k), "objection")
    BY <1>7 DEF ProposalExecuted, ProposalUpdated, CreateFailsHalfway, AtEvent, At, Unsent, counts, Is
  <2>. QED BY <1>4, <2>1
<1>8. CASE FindLog(k)
  <2>1. ~Unsent(k) /\ UNCHANGED missed /\ (Go(k, "find", 0) \/ Go(k, "write", 0))
    BY <1>8 DEF FindLog, AtEvent, At, Unsent, counts
  <2>. QED BY <1>5, <2>1
<1>9. CASE FindVote(k)
  <2>1. ~Unsent(k) /\ UNCHANGED missed /\ \E f : Go(k, "write", f)
    BY <1>9 DEF FindVote, AtEvent, At, Unsent, counts
  <2>. QED BY <1>5, <2>1
<1>10. CASE FindProposal(k)
  <2>1. /\ ~Unsent(k) /\ UNCHANGED missed /\ Current(k) \in Positions /\ ~Is(Current(k), "objection")
        /\ Pass(k, "idle") \/ Go(k, "write", 0)
    BY <1>10 DEF FindProposal, AtEvent, At, Unsent, counts, Is
  <2>. QED BY <1>4, <1>5, <2>1
<1>11. CASE ProposalCreated(k)
  <2>. DEFINE l == [Passed(k, "send") EXCEPT !.redrive = OutOfOrder(Current(k))]
  <2>1. crawler' = [crawler EXCEPT ![k] = l] /\ UNCHANGED missed /\ Current(k) \in Positions
    BY <1>11 DEF ProposalCreated, AtEvent, At, counts
  <2>2. l.step = "send"
    BY <2>1, PassedType DEF CrawlerStates
  <2>. HIDE DEF l
  <2>. QED BY <1>3, <2>1, <2>2
<1>12. CASE HandlerFails(k)
  <2>1. /\ ~Unsent(k) /\ Current(k) \in Positions /\ (Pass(k, "idle") \/ Pass(k, "send"))
        /\ missed' = (missed \/ chain[Current(k)].kind = "objection")
    BY <1>12 DEF HandlerFails, At, Unsent
  <2>2. (missed => missed') /\ (missed' \/ ~Is(Current(k), "objection"))
    BY <2>1, Zenon DEF Is
  <2>. QED BY <1>4, <2>1, <2>2
<1>13. CASE SendFails(k)
  <2>1. missed' /\ crawler' = [crawler EXCEPT ![k] = [crawler[k] EXCEPT !.step = "idle"]]
    BY <1>2, <1>13 DEF SendFails, Sent
  <2>. QED BY <1>3, <2>1
<1>14. CASE Crash(k)
  <2>1. PICK d \in Crawlers : \E p \in Checkpoints(d) :
           /\ crawler' = [crawler EXCEPT ![k] = From(p)]
           /\ missed' = (missed \/ Unsent(k) \/ (kind = "objection" /\ p > Current(k)))
    BY <1>14 DEF Crash
  <2>2. PICK p \in Checkpoints(d) :
           /\ crawler' = [crawler EXCEPT ![k] = From(p)]
           /\ missed' = (missed \/ Unsent(k) \/ (kind = "objection" /\ p > Current(k)))
    BY <2>1
  <2>3. missed \/ Unsent(k) => missed'
    BY <2>2, Zenon
  <2>4. ASSUME Objects(k), ~missed' PROVE Objects(k)'
    <3>1. kind = "objection"
      BY <2>4 DEF Objects, ChainFacts, ObjectionsAreVotes
    <3>2. crawler[k].redrive = {}
      BY <3>1 DEF ChainFacts, CreatedAt
    <3>3. ~(p > Current(k)) /\ Current(k) = crawler[k].next
      BY <2>2, <2>4, <3>1, <3>2, Zenon DEF Current
    <3>4. p \in Nat
      BY DEF Checkpoints
    <3>5. crawler'[k] = From(p)
      BY <2>2, OneMoves, Zenon
    <3>6. crawler'[k].next = p /\ p <= crawler[k].next
      BY <1>2, <3>3, <3>4, <3>5 DEF From
    <3>. QED BY <1>1, <1>2, <2>4, <3>4, <3>6, ObjectsStays
  <2>. QED BY <1>3, <2>2, <2>3, <2>4
<1>. QED BY <1>6, <1>7, <1>8, <1>9, <1>10, <1>11, <1>12, <1>13, <1>14

\* A message that waits, or a snapshot that is not of the stored votes, leaves nothing to show.
LEMMA MessagesKeepCounts ==
    ASSUME VotesInvariant, HandlersHaveRead, CountsInvariant,
           \/ \E k \in Crawlers : SendMessage(k)
           \/ StartMetrics \/ RetryMetrics \/ FinishMetrics \/ MetricsFail \/ DropDuplicate
    PROVE  CountsInvariant'
<1>1. UNCHANGED <<chain, votes, proposal>>
  BY DEF SendMessage, StartMetrics, RetryMetrics, FinishMetrics, MetricsFail, DropDuplicate
<1>2. /\ Tally' = Tally
      /\ UNCHANGED <<crawler, missed>> => (ToCount' <=> ToCount)
  BY <1>1 DEF Tally, ToCount, Unsent, Objects, Positions, Is
<1>3. queue \in Nat /\ (~proposal.exists => votes = {} /\ metrics = {})
  BY DEF CountsInvariant, HandlersHaveRead
<1>4. CASE \E k \in Crawlers : SendMessage(k)
  <2>1. queue' = queue + 1
    BY <1>4 DEF SendMessage
  <2>2. queue' \in Nat /\ queue' # 0
    BY <1>3, <2>1
  <2>. QED BY <2>2, Zenon DEF CountsInvariant
<1>5. CASE StartMetrics \/ RetryMetrics
  <2>1. queue' \in Nat
    BY <1>3, <1>5 DEF StartMetrics, RetryMetrics
  <2>2. worker'.read = Tally /\ worker'.busy
    <3>1. CASE StartMetrics
      BY <3>1 DEF StartMetrics
    <3>2. CASE RetryMetrics
      <4>1. worker' = [worker EXCEPT !.read = Tally] /\ worker.busy
        BY <3>2 DEF RetryMetrics
      <4>. QED BY <3>2, <4>1 DEF RetryMetrics
    <3>. QED BY <1>5, <3>1, <3>2
  <2>. QED BY <1>2, <2>1, <2>2, Zenon DEF CountsInvariant
<1>6. CASE FinishMetrics
  <2>1. /\ worker.busy /\ metrics' = IF proposal.exists THEN worker.read ELSE metrics
        /\ worker' = Idle /\ UNCHANGED <<queue, missed, crawler>>
    BY <1>6 DEF FinishMetrics
  <2>2. ~worker'.busy
    BY <2>1 DEF Idle
  <2>3. ~proposal.exists => metrics' = {} /\ Tally = {}
    BY <1>3, <2>1 DEF Tally
  <2>4. ASSUME ~ToCount', queue' = 0 PROVE metrics' = Tally'
    <3>1. worker.read = Tally
      BY <1>2, <2>1, <2>4, Zenon DEF CountsInvariant
    <3>. QED BY <1>2, <2>1, <2>3, <3>1
  <2>. QED BY <1>3, <2>1, <2>2, <2>4, Zenon DEF CountsInvariant
<1>7. CASE MetricsFail
  <2>1. missed' /\ UNCHANGED queue
    BY <1>7 DEF MetricsFail
  <2>. QED BY <1>3, <2>1, Zenon DEF CountsInvariant, ToCount
<1>8. CASE DropDuplicate
  <2>1. /\ queue' \in Nat /\ UNCHANGED <<metrics, worker, crawler>> /\ worker.busy
        /\ missed' = (missed \/ worker.read # Tally)
    BY <1>3, <1>8 DEF DropDuplicate
  <2>2. ~ToCount' => worker.read = Tally
    BY <2>1, Zenon DEF ToCount
  <2>. QED BY <1>2, <2>1, <2>2, Zenon DEF CountsInvariant
<1>. QED BY <1>4, <1>5, <1>6, <1>7, <1>8

CountedInvariant ==
    VotesInvariant /\ ProposalType /\ (\E c \in Positions : ChainFacts(c)) /\ HandlersHaveRead
    /\ CountsInvariant

\* Each kind of step keeps the chain's facts and the counts.
LEMMA CountedInvariantHolds == Spec => []CountedInvariant
<1>1. Init => CountedInvariant
  <2>. SUFFICES ASSUME Init PROVE CountedInvariant
    OBVIOUS
  <2>1. VotesInvariant /\ \E c \in Positions : ChainFacts(c)
    BY InitEstablishesInvariant, InitEstablishesChainFacts
  <2>2. CountsInvariant /\ ProposalType
    BY DEF Init, CountsInvariant, ProposalType, Tally, Idle
  <2>3. \A k \in Crawlers : crawler[k].step = "idle" /\ ~crawler[k].gone
    BY DEF Init, From
  <2>4. HandlersHaveRead
    BY <2>3 DEF Init, HandlersHaveRead
  <2>. QED BY <2>1, <2>2, <2>4 DEF CountedInvariant
<1>2. CountedInvariant /\ VotesInvariant' /\ [Next]_vars => CountedInvariant'
  <2>. SUFFICES ASSUME CountedInvariant, VotesInvariant', [Next]_vars PROVE CountedInvariant'
    OBVIOUS
  <2>. USE DEF CountedInvariant
  <2>0. PICK c \in Positions : ChainFacts(c)
    OBVIOUS
  <2>p. ProposalType' /\ (proposal.exists => proposal'.exists)
    BY ProposalTypeKept
  <2>1. SUFFICES ChainFacts(c)' /\ HandlersHaveRead' /\ CountsInvariant'
    BY <2>p DEF ChainFacts, CreatedAt
  <2>2. CASE UNCHANGED vars
    <3>1. UNCHANGED <<kind, chain, crawler, proposal, votes, queue, worker, metrics, missed>>
      BY <2>2 DEF vars, counts
    <3>2. ChainFacts(c)'
      BY <2>0, <2>2, OtherStepsKeepChainFacts
    <3>3. (ToCount' <=> ToCount) /\ HandlersHaveRead'
      BY <3>1 DEF ToCount, Unsent, Objects, Positions, Is, HandlersHaveRead, Current
    <3>. QED BY <3>1, <3>2, <3>3, CountsStay
  <2>3. CASE \/ \E v \in Voters : ChainVotes(v) \/ ChainObjects(v) \/ ChainClears(v) \/ ChainApproves(v)
             \/ \E v, d \in Voters : ChainOverrides(v, d)
             \/ \E k \in {"execute", "cancel", "edit"} : ChainDecides(k)
    <3>1. ChainFacts(c)' /\ \E events : LaterTx(events) /\ Emit(events)
      BY <2>0, <2>3, ContractKeepsChainFacts
    <3>2. /\ UNCHANGED <<kind, crawler, proposal, votes, queue, worker, metrics, missed>>
          /\ \A k \in Crawlers : crawler[k] = From(1)
      BY <3>1 DEF Emit, counts
    <3>3. \A k \in Crawlers : crawler[k].step = "idle"
      BY <3>2 DEF From
    <3>4. HandlersHaveRead'
      BY <3>2, <3>3 DEF HandlersHaveRead
    <3>5. \A p \in Positions : p \in Positions' /\ chain'[p] = chain[p]
      BY <3>1, EmitExtends DEF LaterTx
    <3>6. ToCount => ToCount'
      BY <3>2, <3>5 DEF ToCount, Unsent, Objects, Is
    <3>. QED BY <3>1, <3>2, <3>4, <3>6, CountsStay
  <2>4. ASSUME NEW k \in Crawlers,
               \/ IgnoreVote(k) \/ FindLog(k) \/ FindVote(k)
               \/ FindProposal(k) \/ ProposalCreated(k) \/ ProposalExecuted(k) \/ ProposalUpdated(k)
               \/ HandlerFails(k) \/ CreateFailsHalfway(k) \/ SendMessage(k) \/ SendFails(k) \/ Crash(k)
        PROVE  ChainFacts(c)' /\ HandlersHaveRead' /\ CountsInvariant'
    <3>1. ChainFacts(c)' /\ HandlersHaveRead'
      BY <2>0, <2>4, <2>p, OtherStepsKeepChainFacts, CrawlersHaveRead
    <3>. QED BY <2>0, <2>4, <3>1, CrawlersKeepCounts, MessagesKeepCounts
  <2>5. ASSUME NEW k \in Crawlers, WriteVote(k)
        PROVE  ChainFacts(c)' /\ HandlersHaveRead' /\ CountsInvariant'
    BY <2>0, <2>5, OtherStepsKeepChainFacts, WriteHasRead, WriteKeepsCounts
  <2>6. CASE StartMetrics \/ RetryMetrics \/ FinishMetrics \/ MetricsFail \/ DropDuplicate
    <3>1. ChainFacts(c)' /\ CountsInvariant'
      BY <2>0, <2>6, OtherStepsKeepChainFacts, MessagesKeepCounts
    <3>2. /\ UNCHANGED <<kind, chain, crawler, proposal, votes>>
          /\ ~proposal.exists => metrics' = metrics
      BY <2>6 DEF StartMetrics, RetryMetrics, FinishMetrics, MetricsFail, DropDuplicate
    <3>3. HandlersHaveRead'
      BY <3>2 DEF HandlersHaveRead, Current, Positions
    <3>. QED BY <3>1, <3>3
  <2>. QED BY <2>2, <2>3, <2>4, <2>5, <2>6, Steps
<1>. QED BY <1>1, <1>2, VotesInvariantHolds, PTL DEF Spec

\* However the handlers of several crawlers, the messages to the metrics service,
\* its transactions and the votes it reads interleave, when nothing is left to do
\* the stored counts are those of the stored votes, unless the last message about
\* them was lost (proposalMetrics, the activeJobs test of the queue).
THEOREM CountsFollowVotes == Spec => []MetricsFollowVotes
<1>1. CountedInvariant => MetricsFollowVotes
  <2>. SUFFICES ASSUME CountedInvariant, Quiet, ~missed PROVE metrics = Tally
    BY DEF MetricsFollowVotes
  <2>1. /\ \A k \in Crawlers : crawler[k].next > Len(chain) /\ ~Unsent(k)
        /\ queue = 0 /\ ~worker.busy
    BY DEF Quiet, CaughtUp
  <2>2. Len(chain) \in Nat /\ \A k \in Crawlers : crawler[k].next \in Nat
    BY LenProperties DEF CountedInvariant, VotesInvariant, TypeOK, CrawlerStates
  <2>3. ~ToCount
    BY <2>1, <2>2 DEF ToCount, Objects, Positions
  <2>. QED BY <2>1, <2>3, Zenon DEF CountedInvariant, CountsInvariant
<1>. QED BY <1>1, CountedInvariantHolds, PTL

-----------------------------------------------------------------------------
(* The stored votes and proposal *)

\* Crawler k is still to handle event p, and what its handler does counts: it does
\* not when it is about to update a vote that has been deleted since it read it.
Waits(k, p) ==
    /\ p >= crawler[k].next \/ p \in crawler[k].redrive
    /\ ~(p = Current(k) /\ crawler[k].gone /\ chain[p].kind \in Updates)

\* Event p is still to be handled, by a crawler or by the loop of proposalCreated.
Due(c, p) == (\E k \in Crawlers : Waits(k, p)) \/ (~proposal.exists /\ p < c)

\* Where the crawlers are, with respect to the creation of the proposal, and what
\* those that are about to write have read.
CrawlersAt(c) ==
    \A k \in Crawlers :
        /\ ~proposal.exists => crawler[k].next <= c
        /\ crawler[k].redrive # {} => crawler[k].next = c + 1 /\ proposal.exists
        /\ AtEvent(k, "write", {"override"}) => Current(k) > crawler[k].found
        /\ AtEvent(k, "write", Updates) => crawler[k].found # 0
        /\ crawler[k].found # 0 =>
              \E r \in votes : r.who = chain[Current(k)].who /\ (~crawler[k].gone => r.pos = crawler[k].found)

\* Every vote of the chain is stored, replaced or still to be handled.
CastsAreKept(c) ==
    \A p \in Positions : IsCast(p) => Due(c, p) \/ \E r \in votes : r.who = chain[p].who

CastOf(p, v) == IsCast(p) /\ chain[p].who = v

\* The stored vote is the last one, and knows the one before, but for what is due.
LastVote(c, r) ==
    /\ \A q \in Positions : CastOf(q, r.who) => q <= r.pos \/ Due(c, q)
    /\ \/ Latest(r.replaced, {q \in Positions : CastOf(q, r.who) /\ q < r.pos})
       \/ \E q \in Positions : CastOf(q, r.who) /\ q # r.pos /\ Due(c, q)

\* It carries the last override, the objection and the clearing that followed it.
Overridden(c, r) ==
    /\ r.over = 0 \/ (r.over \in Where("override", r.who) /\ r.over > r.pos)
    /\ \A o \in Where("override", r.who) : r.pos < o => o <= r.over \/ Due(c, o)

Objected(c, r) ==
    /\ r.source = 0 \/ r.source \in Where("objection", r.who)
    /\ \A q \in Where("objection", r.who) : r.source = q \/ Due(c, q)

Cleared(c, r) ==
    ~Recast(r.who) =>
        /\ r.cleared = 0 \/ r.cleared \in Where("clear", r.who)
        /\ \A d \in Where("clear", r.who) : r.cleared = d \/ Due(c, d)

VoteFact(c, r) == LastVote(c, r) /\ Overridden(c, r) /\ Objected(c, r) /\ Cleared(c, r)

ProposalFacts(c) ==
    /\ proposal.executed = 0 \/ proposal.executed \in Where("execute", NoOne)
    /\ \A p \in Where("execute", NoOne) : proposal.executed = p \/ Due(c, p)
    /\ proposal.canceled = 0 \/ proposal.canceled \in Where("cancel", NoOne)
    /\ \A p \in Where("cancel", NoOne) : proposal.canceled = p \/ Due(c, p)
    /\ \/ \E p \in Where("edit", NoOne) : Due(c, p)
       \/ Latest(proposal.edited, Where("edit", NoOne))

StoreFacts(c) ==
    CrawlersAt(c) /\ CastsAreKept(c) /\ (\A r \in votes : VoteFact(c, r)) /\ ProposalFacts(c)

\* The loop of proposalCreated handles the first of what is left to it; the
\* crawler the next event.
LEMMA CurrentFacts ==
    ASSUME VotesInvariant, NEW c, ChainFacts(c), NEW k \in Crawlers
    PROVE  /\ Current(k) \in Nat /\ crawler[k].next \in Nat /\ c \in Nat /\ c \in Positions
           /\ crawler[k].redrive = {} => Current(k) = crawler[k].next
           /\ crawler[k].redrive # {} => /\ Current(k) \in crawler[k].redrive /\ Current(k) < c
                                         /\ \A q \in crawler[k].redrive : Current(k) <= q
           /\ \A q \in crawler[k].redrive : q \in Nat /\ q < c
<1>1. crawler[k].next \in Nat /\ c \in Nat /\ c <= 3 /\ c \in Positions /\ crawler[k].redrive \subseteq 1 .. c - 1
  BY ChainElements DEF VotesInvariant, TypeOK, CrawlerStates, ChainFacts, CreatedAt
<1>2. CASE crawler[k].redrive = {}
  BY <1>1, <1>2 DEF Current
<1>3. CASE crawler[k].redrive # {}
  <2>. DEFINE S == crawler[k].redrive
  <2>1. \A q \in S : q = 1 \/ q = 2
    BY <1>1
  <2>2. \E x \in S : \A y \in S : x <= y
    <3>1. CASE 1 \in S
      BY <2>1, <3>1
    <3>2. CASE 1 \notin S
      BY <1>3, <2>1, <3>2
    <3>. QED BY <3>1, <3>2
  <2>3. Current(k) \in S /\ \A y \in S : Current(k) <= y
    BY <1>3, <2>2 DEF Current, Min
  <2>. QED BY <1>1, <1>3, <2>3
<1>. QED BY <1>1, <1>2, <1>3

\* A crawler that passes an event still has every other one to handle, and what a
\* later event says of votes.
LEMMA PassLeavesTheRest ==
    ASSUME VotesInvariant, NEW c, ChainFacts(c), CrawlersAt(c), NEW k \in Crawlers, Current(k) \in Positions,
           NEW s \in {"idle", "send"}, crawler'[k] = Passed(k, s), UNCHANGED chain,
           NEW q \in Positions
    PROVE  /\ Waits(k, q) /\ q # Current(k) => Waits(k, q)'
           /\ q > Current(k) /\ chain[q].kind \in VoteEvents => Waits(k, q)'
<1>1. /\ Current(k) \in Nat /\ crawler[k].next \in Nat /\ c \in Nat /\ q \in Nat /\ q > 0
      /\ crawler[k].redrive = {} => Current(k) = crawler[k].next
      /\ crawler[k].redrive # {} => /\ Current(k) \in crawler[k].redrive /\ Current(k) > 0
                                    /\ crawler[k].next = c + 1
  BY CurrentFacts, ChainElements DEF CrawlersAt, Positions
<1>2. /\ ~crawler'[k].gone
      /\ crawler[k].redrive = {} => crawler'[k].next = crawler[k].next + 1 /\ crawler'[k].redrive = {}
      /\ crawler[k].redrive # {} => /\ crawler'[k].next = crawler[k].next
                                    /\ crawler'[k].redrive = crawler[k].redrive \ {Current(k)}
  BY PassedType
<1>3. ASSUME q >= crawler[k].next \/ q \in crawler[k].redrive, q # Current(k)
      PROVE  q >= crawler'[k].next \/ q \in crawler'[k].redrive
  BY <1>1, <1>2, <1>3
<1>4. ASSUME q > Current(k), chain[q].kind \in VoteEvents PROVE q >= crawler[k].next
  <2>1. CASE crawler[k].redrive = {}
    BY <1>1, <1>4, <2>1
  <2>2. CASE crawler[k].redrive # {}
    <3>1. q # c /\ ~(q < c)
      BY <1>1, <1>4, <2>2 DEF ChainFacts, CreatedAt, Is, IsCast, VoteEvents
    <3>. QED BY <1>1, <2>2, <3>1
  <2>. QED BY <2>1, <2>2
<1>. QED BY <1>1, <1>2, <1>3, <1>4 DEF Waits

\* What is due stays due, if it still waits for the crawler that moves.
LEMMA DueStays ==
    ASSUME UNCHANGED chain, NEW k \in Crawlers, NEW c, NEW q, Due(c, q),
           \A d \in Crawlers \ {k} :
              /\ crawler'[d].next = crawler[d].next /\ crawler'[d].redrive = crawler[d].redrive
              /\ Current(d)' = Current(d)
              /\ crawler'[d].gone => crawler[d].gone \/ q # Current(d) \/ chain[q].kind \notin Updates,
           Waits(k, q) => Waits(k, q)',
           ~proposal.exists /\ q < c => Due(c, q)'
    PROVE  Due(c, q)'
<1>1. CASE ~proposal.exists /\ q < c
  BY <1>1
<1>2. CASE Waits(k, q)
  BY <1>2 DEF Due
<1>3. ASSUME NEW d \in Crawlers \ {k}, Waits(d, q) PROVE Due(c, q)'
  <2>1. Waits(d, q)'
    BY <1>3 DEF Waits
  <2>. QED BY <2>1 DEF Due
<1>. QED BY <1>1, <1>2, <1>3 DEF Due

-----------------------------------------------------------------------------
(* One stored vote over a step: a record like it, when what was due is due *)

\* It stays its voter's last vote.
LEMMA LastVoteStays ==
    ASSUME VotesInvariant, NEW c, UNCHANGED chain, NEW r, LastVote(c, r),
           NEW new, new.who = r.who, new.pos = r.pos, new.replaced = r.replaced,
           \A q \in Positions : CastOf(q, r.who) /\ Due(c, q) => q = r.pos \/ Due(c, q)'
    PROVE  LastVote(c, new)'
<1>1. /\ Positions' = Positions /\ \A q : CastOf(q, r.who)' <=> CastOf(q, r.who)
      /\ \A q \in Positions : q \in Nat
  BY ChainElements DEF Positions, CastOf, IsCast
<1>2. \A q \in Positions : CastOf(q, r.who) => q <= r.pos \/ Due(c, q)'
  BY <1>1 DEF LastVote
<1>3. \/ Latest(r.replaced, {q \in Positions : CastOf(q, r.who) /\ q < r.pos})
      \/ \E q \in Positions : CastOf(q, r.who) /\ q # r.pos /\ Due(c, q)'
  BY <1>1 DEF LastVote
<1>4. {q \in Positions' : CastOf(q, r.who)' /\ q < r.pos} = {q \in Positions : CastOf(q, r.who) /\ q < r.pos}
  BY <1>1
<1>5. \/ Latest(r.replaced, {q \in Positions' : CastOf(q, r.who)' /\ q < r.pos})
      \/ \E q \in Positions' : CastOf(q, r.who)' /\ q # r.pos /\ Due(c, q)'
  BY <1>1, <1>3, <1>4
<1>6. \A q \in Positions' : CastOf(q, r.who)' => q <= r.pos \/ Due(c, q)'
  BY <1>1, <1>2
<1>. QED BY <1>5, <1>6 DEF LastVote, Latest, CastOf, IsCast

\* It keeps its last override.
LEMMA OverriddenStays ==
    ASSUME NEW c, UNCHANGED chain, NEW r, Overridden(c, r),
           NEW new, new.who = r.who, new.pos = r.pos, new.over = r.over,
           \A o \in Where("override", r.who) : r.pos < o /\ Due(c, o) => o <= r.over \/ Due(c, o)'
    PROVE  Overridden(c, new)'
<1>1. Where("override", r.who)' = Where("override", r.who)
  BY DEF Where, Positions
<1>2. \A o \in Where("override", r.who) : r.pos < o => o <= r.over \/ Due(c, o)'
  BY Zenon DEF Overridden
<1>. QED BY <1>1, <1>2 DEF Overridden

\* It keeps its objection.
LEMMA ObjectedStays ==
    ASSUME NEW c, UNCHANGED chain, NEW r, Objected(c, r), NEW new, new.who = r.who, new.source = r.source,
           \A o \in Where("objection", r.who) : Due(c, o) => Due(c, o)'
    PROVE  Objected(c, new)'
<1>1. Where("objection", r.who)' = Where("objection", r.who)
  BY DEF Where, Positions
<1>2. \A o \in Where("objection", r.who) : r.source = o \/ Due(c, o)'
  BY Zenon DEF Objected
<1>. QED BY <1>1, <1>2 DEF Objected

\* It keeps its clearing.
LEMMA ClearedStays ==
    ASSUME NEW c, UNCHANGED chain, NEW r, Cleared(c, r), NEW new, new.who = r.who, new.cleared = r.cleared,
           \A o \in Where("clear", r.who) : Due(c, o) => Due(c, o)'
    PROVE  Cleared(c, new)'
<1>1. Where("clear", r.who)' = Where("clear", r.who) /\ (Recast(r.who)' <=> Recast(r.who))
  BY DEF Where, Positions, Recast
<1>2. ~Recast(r.who) => \A o \in Where("clear", r.who) : r.cleared = o \/ Due(c, o)'
  BY Zenon DEF Cleared
<1>. QED BY <1>1, <1>2 DEF Cleared

\* A vote that the step leaves alone, if the only event that may no longer be due
\* says nothing new about it.
LEMMA VoteStays ==
    ASSUME VotesInvariant, NEW c, UNCHANGED chain, NEW r \in votes, VoteFact(c, r), NEW p,
           \A q \in Positions : Due(c, q) /\ q # p /\ chain[q].who = r.who => Due(c, q)',
           \/ Due(c, p) => Due(c, p)'
           \/ chain[p].who # r.who
           \/ IsCast(p) /\ r.pos = p
           \/ Is(p, "override") /\ (p <= r.over \/ p <= r.pos)
           \/ chain[p].kind \notin VoteEvents
    PROVE  VoteFact(c, r)'
<1>1. r.pos \in Nat /\ r.over \in Nat /\ \A q \in Positions : q \in Nat
  BY ChainElements DEF VotesInvariant, TypeOK, VoteRecords
<1>2. \A k : \A q \in Where(k, r.who) : q \in Positions /\ Is(q, k) /\ chain[q].who = r.who
  BY DEF Where, Is
<1>3. LastVote(c, r)'
  BY LastVoteStays DEF VoteFact, CastOf, IsCast, VoteEvents, Is
<1>4. ASSUME NEW k \in {"override", "objection", "clear"}, NEW q \in Where(k, r.who), Due(c, q)
      PROVE  Due(c, q)' \/ (q = p /\ k = "override" /\ (p <= r.over \/ p <= r.pos))
  BY <1>2, <1>4 DEF IsCast, Is, VoteEvents
<1>5. Overridden(c, r)'
  <2>1. \A o \in Where("override", r.who) : r.pos < o /\ Due(c, o) => o <= r.over \/ Due(c, o)'
    BY <1>1, <1>2, <1>4
  <2>. QED BY <2>1, OverriddenStays DEF VoteFact
<1>6. Objected(c, r)'
  BY <1>4, ObjectedStays DEF VoteFact
<1>7. Cleared(c, r)'
  BY <1>4, ClearedStays DEF VoteFact
<1>. QED BY <1>3, <1>5, <1>6, <1>7 DEF VoteFact

\* The proposal that a step leaves alone, if no decision stops being due.
LEMMA ProposalStays ==
    ASSUME NEW c, ProposalFacts(c), UNCHANGED chain, proposal'.executed = proposal.executed,
           proposal'.canceled = proposal.canceled, proposal'.edited = proposal.edited,
           \A k \in {"execute", "cancel", "edit"} : \A q \in Where(k, NoOne) : Due(c, q) => Due(c, q)'
    PROVE  ProposalFacts(c)'
<1>1. \A k : Where(k, NoOne)' = Where(k, NoOne)
  BY DEF Where, Positions
<1>2. \A q \in Where("execute", NoOne) : proposal.executed = q \/ Due(c, q)'
  BY Zenon DEF ProposalFacts
<1>3. \A q \in Where("cancel", NoOne) : proposal.canceled = q \/ Due(c, q)'
  BY Zenon DEF ProposalFacts
<1>4. (\E q \in Where("edit", NoOne) : Due(c, q)') \/ Latest(proposal.edited, Where("edit", NoOne))
  BY Zenon DEF ProposalFacts
<1>. QED BY <1>1, <1>2, <1>3, <1>4 DEF ProposalFacts, Latest

\* A crawler that takes no part in a step.
StaysPut(d) ==
    /\ crawler'[d].next = crawler[d].next /\ crawler'[d].redrive = crawler[d].redrive
    /\ crawler'[d].step = crawler[d].step /\ crawler'[d].found = crawler[d].found
    /\ crawler'[d].gone <=> crawler[d].gone
    /\ Current(d)' = Current(d)

\* A crawler that is not about to update a vote keeps what is known of the crawlers.
LEMMA MovedCrawlersAt ==
    ASSUME VotesInvariant, NEW c, CrawlersAt(c), UNCHANGED <<chain, votes>>, proposal.exists => proposal'.exists,
           NEW k \in Crawlers, \A d \in Crawlers \ {k} : StaysPut(d),
           ~proposal'.exists => crawler'[k].next <= c,
           crawler'[k].redrive # {} => crawler'[k].next = c + 1 /\ proposal'.exists,
           crawler'[k].found = 0, ~AtEvent(k, "write", Updates)'
    PROVE  CrawlersAt(c)'
<1>. SUFFICES ASSUME NEW d \in Crawlers
     PROVE  /\ ~proposal'.exists => crawler'[d].next <= c
            /\ crawler'[d].redrive # {} => crawler'[d].next = c + 1 /\ proposal'.exists
            /\ AtEvent(d, "write", {"override"})' => Current(d)' > crawler'[d].found
            /\ AtEvent(d, "write", Updates)' => crawler'[d].found # 0
            /\ crawler'[d].found # 0 =>
                  \E r \in votes : /\ r.who = chain[Current(d)'].who
                                   /\ ~crawler'[d].gone => r.pos = crawler'[d].found
  BY DEF CrawlersAt
<1>1. CASE d = k
  BY <1>1 DEF AtEvent, Updates
<1>2. CASE d # k
  <2>1. StaysPut(d)
    BY <1>2
  <2>2. \A s, S : AtEvent(d, s, S)' <=> AtEvent(d, s, S)
    BY <2>1 DEF StaysPut, AtEvent, At, Positions
  <2>. QED BY <2>1, <2>2 DEF StaysPut, CrawlersAt
<1>. QED BY <1>1, <1>2

-----------------------------------------------------------------------------
(* The steps of a crawler *)

\* What was due besides the event that a crawler passes stays due, and that event
\* too while the proposal is not stored.
LEMMA PassDue ==
    ASSUME VotesInvariant, NEW c, ChainFacts(c), CrawlersAt(c), NEW k \in Crawlers, Current(k) \in Positions,
           NEW s \in {"idle", "send"}, crawler'[k] = Passed(k, s), UNCHANGED chain,
           \A d \in Crawlers \ {k} : StaysPut(d), proposal'.exists = proposal.exists,
           NEW q \in Positions, Due(c, q), q # Current(k) \/ ~Waits(k, q) \/ (~proposal.exists /\ q < c)
    PROVE  Due(c, q)'
<1>1. ~proposal.exists /\ q < c => Due(c, q)'
  BY DEF Due
<1>2. CASE q # Current(k) \/ ~Waits(k, q)
  <2>1. Waits(k, q) => Waits(k, q)'
    BY <1>2, PassLeavesTheRest
  <2>. QED BY <1>1, <2>1, DueStays DEF StaysPut
<1>. QED BY <1>1, <1>2

\* Where a crawler goes on to.
LEMMA PassedCrawlersAt ==
    ASSUME VotesInvariant, NEW c, ChainFacts(c), CrawlersAt(c), NEW k \in Crawlers, Current(k) \in Positions,
           NEW s \in {"idle", "send"}, crawler'[k] = Passed(k, s), UNCHANGED chain,
           proposal'.exists = proposal.exists, Current(k) # c \/ proposal.exists
    PROVE  /\ ~proposal'.exists => crawler'[k].next <= c
           /\ crawler'[k].redrive # {} => crawler'[k].next = c + 1 /\ proposal'.exists
           /\ crawler'[k].found = 0 /\ ~AtEvent(k, "write", Updates)'
<1>1. /\ crawler'[k].step = s /\ crawler'[k].found = 0
      /\ crawler[k].redrive = {} => crawler'[k].next = crawler[k].next + 1 /\ crawler'[k].redrive = {}
      /\ crawler[k].redrive # {} => /\ crawler'[k].next = crawler[k].next
                                    /\ crawler'[k].redrive = crawler[k].redrive \ {Current(k)}
  BY PassedType
<1>2. /\ crawler[k].next \in Nat /\ c \in Nat
      /\ crawler[k].redrive = {} => Current(k) = crawler[k].next
  BY CurrentFacts
<1>3. /\ ~proposal.exists => crawler[k].next <= c
      /\ crawler[k].redrive # {} => crawler[k].next = c + 1 /\ proposal.exists
  BY DEF CrawlersAt
<1>4. ~AtEvent(k, "write", Updates)'
  BY <1>1 DEF AtEvent, At
<1>. QED BY <1>1, <1>2, <1>3, <1>4

\* The handlers that find nothing to do, or to write: an event that says nothing new.
LEMMA PassKeepsStore ==
    ASSUME VotesInvariant, NEW c, ChainFacts(c), StoreFacts(c), NEW k \in Crawlers, NEW p, p = Current(k),
           p \in Positions, NEW s \in {"idle", "send"}, crawler'[k] = Passed(k, s),
           UNCHANGED <<chain, votes, proposal>>, \A d \in Crawlers \ {k} : StaysPut(d),
           chain[p].kind \in {"execute", "cancel", "edit"} => FALSE, ~proposal.exists => p # c,
           ~proposal.exists => votes = {},
           IsCast(p) /\ proposal.exists => \E r \in votes : r.who = chain[p].who,
           \A r \in votes : r.who = chain[p].who =>
              \/ ~Waits(k, p)
              \/ IsCast(p) /\ r.pos = p
              \/ Is(p, "override") /\ (p <= r.over \/ p <= r.pos)
              \/ chain[p].kind \notin VoteEvents
    PROVE  StoreFacts(c)'
<1>1. ~proposal.exists => p < c
  <2>1. ~proposal.exists => crawler[k].next <= c /\ crawler[k].redrive = {}
    BY DEF StoreFacts, CrawlersAt
  <2>. QED BY <2>1, CurrentFacts
<1>2. \A q \in Positions : Due(c, q) => Due(c, q)' \/ (q = p /\ Waits(k, p) /\ proposal.exists)
  BY <1>1, PassDue DEF StoreFacts
<1>3. CrawlersAt(c)'
  <2>1. /\ ~proposal'.exists => crawler'[k].next <= c
        /\ crawler'[k].redrive # {} => crawler'[k].next = c + 1 /\ proposal'.exists
        /\ crawler'[k].found = 0 /\ ~AtEvent(k, "write", Updates)'
    BY PassedCrawlersAt DEF StoreFacts
  <2>. QED BY <2>1, MovedCrawlersAt DEF StoreFacts
<1>4. CastsAreKept(c)'
  <2>. SUFFICES ASSUME NEW q \in Positions, IsCast(q) PROVE Due(c, q)' \/ \E r \in votes : r.who = chain[q].who
    BY DEF CastsAreKept, Positions, IsCast
  <2>. QED BY <1>2 DEF StoreFacts, CastsAreKept
<1>5. ASSUME NEW r \in votes PROVE VoteFact(c, r)'
  <2>1. VoteFact(c, r)
    BY DEF StoreFacts
  <2>2. \A q \in Positions : Due(c, q) /\ q # p => Due(c, q)'
    BY <1>2
  <2>3. ~Waits(k, p) => (Due(c, p) => Due(c, p)')
    BY <1>2
  <2>. QED BY <2>1, <2>2, <2>3, VoteStays
<1>6. ProposalFacts(c)'
  <2>1. \A j \in {"execute", "cancel", "edit"} : \A q \in Where(j, NoOne) : q \in Positions /\ q # p
    BY DEF Where
  <2>2. \A j \in {"execute", "cancel", "edit"} : \A q \in Where(j, NoOne) : Due(c, q) => Due(c, q)'
    BY <1>2, <2>1
  <2>. QED BY <2>2, ProposalStays DEF StoreFacts
<1>. QED BY <1>3, <1>4, <1>5, <1>6 DEF StoreFacts

\* A step of one crawler leaves the others where they are.
LEMMA OthersStayPut ==
    ASSUME VotesInvariant, NEW k \in Crawlers, NEW l, crawler' = [crawler EXCEPT ![k] = l]
    PROVE  crawler'[k] = l /\ \A d \in Crawlers \ {k} : StaysPut(d)
BY OneMoves DEF StaysPut

\* Votes and a proposal that a step leaves alone, when everything due stays due.
LEMMA FactsStay ==
    ASSUME VotesInvariant, NEW c, StoreFacts(c), UNCHANGED <<chain, votes>>,
           proposal'.executed = proposal.executed,
           proposal'.canceled = proposal.canceled, proposal'.edited = proposal.edited,
           \A q \in Positions : Due(c, q) => Due(c, q)'
    PROVE  CastsAreKept(c)' /\ (\A r \in votes : VoteFact(c, r))' /\ ProposalFacts(c)'
<1>1. CastsAreKept(c)'
  BY DEF StoreFacts, CastsAreKept, Positions, IsCast
<1>2. ASSUME NEW r \in votes PROVE VoteFact(c, r)'
  <2>1. PICK p \in Positions : TRUE
    BY LenProperties DEF VotesInvariant, TypeOK, Positions
  <2>. QED BY <2>1, VoteStays DEF StoreFacts
<1>3. ProposalFacts(c)'
  <2>1. \A j : \A q \in Where(j, NoOne) : Due(c, q) => Due(c, q)'
    BY DEF Where
  <2>. QED BY <2>1, ProposalStays DEF StoreFacts
<1>. QED BY <1>1, <1>2, <1>3

\* An event that its handler ignores says nothing new about the stored votes.
LEMMA IgnoreKeepsStore ==
    ASSUME VotesInvariant, OneVotePerVoter, HandlersHaveRead, NEW c, ChainFacts(c), StoreFacts(c),
           NEW k \in Crawlers, IgnoreVote(k)
    PROVE  StoreFacts(c)'
<1>1. PICK p, v : p = Current(k) /\ v = chain[p].who
  OBVIOUS
<1>2. /\ p \in Positions /\ Pass(k, "idle") /\ UNCHANGED <<chain, votes, proposal>>
      /\ \/ chain[p].kind \in {"vote", "approve"} /\ (~proposal.exists \/ Stored(p))
         \/ chain[p].kind \in Updates /\ ToUpdate(p) = {}
  BY <1>1 DEF IgnoreVote, AtEvent, At
<1>3. ~proposal.exists => votes = {}
  BY DEF HandlersHaveRead
<1>4. Is(p, "vote") \/ Is(p, "approve") => ~proposal.exists \/ \E r \in votes : r.pos = p /\ r.who = v
  BY <1>1, <1>2 DEF Stored, VotesInvariant, VotesAreCast, Updates, Is
<1>5. ASSUME NEW r \in votes, r.who = v
      PROVE  (IsCast(p) /\ r.pos = p) \/ (Is(p, "override") /\ (p <= r.over \/ p <= r.pos))
  <2>1. /\ r \in OnPlugin(v) /\ proposal.exists /\ r.over \in Nat /\ r.pos \in Nat /\ p \in Nat
        /\ \A s \in votes : s.who = v => s = r
    BY <1>2, <1>3, <1>5, OnPluginFindsTheVote, ChainElements
    DEF Mine, VotesInvariant, TypeOK, VoteRecords, OneVotePerVoter
  <2>2. CASE chain[p].kind \in {"vote", "approve"}
    BY <1>4, <2>1, <2>2 DEF IsCast, Is
  <2>3. CASE chain[p].kind \in Updates /\ ToUpdate(p) = {}
    <3>1. Is(p, "override") /\ OverrideVoteCast(v, p) = {}
      BY <1>1, <2>1, <2>3 DEF Updates, ToUpdate, ObjectionCast, VoteCleared, Is
    <3>2. ~(p > IF r.over # 0 THEN r.over ELSE r.pos)
      BY <2>1, <3>1 DEF OverrideVoteCast
    <3>. QED BY <2>1, <3>1, <3>2
  <2>. QED BY <1>2, <2>2, <2>3
<1>6. /\ crawler'[k] = Passed(k, "idle") /\ \A d \in Crawlers \ {k} : StaysPut(d)
  BY <1>2, OthersStayPut DEF Pass
<1>7. p # c /\ chain[p].kind \notin {"execute", "cancel", "edit"}
  BY <1>2 DEF ChainFacts, CreatedAt, Updates, Is
<1>8. IsCast(p) /\ proposal.exists => \E r \in votes : r.who = v
  BY <1>4 DEF IsCast, Is
<1>. QED BY <1>1, <1>2, <1>3, <1>5, <1>6, <1>7, <1>8, PassKeepsStore

\* A handler that has read, what it has read being a vote of its voter.
LEMMA GoKeepsStore ==
    ASSUME VotesInvariant, NEW c, ChainFacts(c), StoreFacts(c), NEW k \in Crawlers,
           NEW s \in {"find", "write"}, NEW f, Go(k, s, f), crawler[k].step # "write",
           UNCHANGED <<chain, votes, proposal>>, NEW p, p = Current(k), p \in Positions,
           \/ f = 0 /\ chain[p].kind \notin Updates
           \/ \E r \in votes : r.who = chain[p].who /\ f = r.pos /\ (Is(p, "override") => p > f)
    PROVE  StoreFacts(c)'
<1>1. /\ crawler \in [Crawlers -> CrawlerStates] /\ crawler[k].found = 0 /\ ~crawler[k].gone
      /\ f = 0 \/ f > 0
  BY DEF VotesInvariant, TypeOK, OnTheChain, VotesAreCast, Positions
<1>. DEFINE l == [crawler[k] EXCEPT !.step = s, !.found = f]
<1>2. /\ crawler' = [crawler EXCEPT ![k] = l] /\ l.next = crawler[k].next /\ l.redrive = crawler[k].redrive
      /\ l.step = s /\ l.found = f /\ l.gone = crawler[k].gone
  BY <1>1 DEF Go, CrawlerStates
<1>. HIDE DEF l
<1>3. crawler'[k] = l /\ \A d \in Crawlers \ {k} : StaysPut(d)
  BY <1>2, OthersStayPut
<1>4. Current(k)' = Current(k)
  BY <1>2, <1>3 DEF Current
<1>5. ASSUME NEW q \in Positions, Due(c, q) PROVE Due(c, q)'
  <2>1. Waits(k, q) => Waits(k, q)'
    BY <1>1, <1>2, <1>3 DEF Waits
  <2>2. ~proposal.exists /\ q < c => Due(c, q)'
    BY DEF Due
  <2>. QED BY <1>3, <1>5, <2>1, <2>2, DueStays DEF StaysPut
<1>6. CrawlersAt(c)'
  <2>. SUFFICES ASSUME NEW d \in Crawlers
       PROVE  /\ ~proposal'.exists => crawler'[d].next <= c
              /\ crawler'[d].redrive # {} => crawler'[d].next = c + 1 /\ proposal'.exists
              /\ AtEvent(d, "write", {"override"})' => Current(d)' > crawler'[d].found
              /\ AtEvent(d, "write", Updates)' => crawler'[d].found # 0
              /\ crawler'[d].found # 0 =>
                    \E r \in votes : /\ r.who = chain[Current(d)'].who
                                     /\ ~crawler'[d].gone => r.pos = crawler'[d].found
    BY DEF CrawlersAt
  <2>1. CASE d # k
    <3>1. StaysPut(d)
      BY <1>3, <2>1
    <3>2. \A t, S : AtEvent(d, t, S)' <=> AtEvent(d, t, S)
      BY <3>1 DEF StaysPut, AtEvent, At, Positions
    <3>. QED BY <3>1, <3>2 DEF StaysPut, StoreFacts, CrawlersAt
  <2>2. CASE d = k
    <3>1. /\ ~proposal'.exists => crawler'[k].next <= c
          /\ crawler'[k].redrive # {} => crawler'[k].next = c + 1 /\ proposal'.exists
      BY <1>2, <1>3 DEF StoreFacts, CrawlersAt
    <3>2. CASE f = 0 /\ chain[p].kind \notin Updates
      BY <1>2, <1>3, <1>4, <2>2, <3>1, <3>2 DEF AtEvent, Updates
    <3>3. CASE \E r \in votes : r.who = chain[p].who /\ f = r.pos /\ (Is(p, "override") => p > f)
      <4>1. f # 0
        BY <3>3 DEF VotesInvariant, VotesAreCast, Positions
      <4>2. AtEvent(k, "write", {"override"})' => Is(p, "override")
        BY <1>4 DEF AtEvent, Is
      <4>. QED BY <1>2, <1>3, <1>4, <2>2, <3>1, <3>3, <4>1, <4>2
    <3>. QED BY <3>2, <3>3
  <2>. QED BY <2>1, <2>2
<1>. QED BY <1>5, <1>6, FactsStay DEF StoreFacts

\* The reads of the handlers.
LEMMA ReadsKeepStore ==
    ASSUME VotesInvariant, NEW c, ChainFacts(c), StoreFacts(c), NEW k \in Crawlers,
           FindLog(k) \/ FindVote(k) \/ FindProposal(k)
    PROVE  StoreFacts(c)'
<1>1. PICK p, v : p = Current(k) /\ v = chain[p].who
  OBVIOUS
<1>2. p \in Positions /\ crawler[k].step # "write" /\ UNCHANGED <<chain, votes, proposal>>
  BY <1>1 DEF FindLog, FindVote, FindProposal, AtEvent, At
<1>3. CASE FindLog(k)
  <2>1. (Go(k, "find", 0) \/ Go(k, "write", 0)) /\ chain[p].kind \notin Updates
    BY <1>1, <1>3 DEF FindLog, AtEvent, Updates
  <2>. QED BY <1>1, <1>2, <2>1, GoKeepsStore
<1>4. CASE FindVote(k)
  <2>1. \/ chain[p].kind = "vote" /\ Go(k, "write", 0)
        \/ chain[p].kind = "vote" /\ \E r \in OnPlugin(v) : Go(k, "write", r.pos)
        \/ chain[p].kind \in Updates /\ \E r \in ToUpdate(p) : Go(k, "write", r.pos)
    BY <1>1, <1>4 DEF FindVote, AtEvent
  <2>2. CASE chain[p].kind = "vote" /\ Go(k, "write", 0)
    BY <1>1, <1>2, <2>2, GoKeepsStore DEF Updates
  <2>3. ASSUME NEW r \in OnPlugin(v), Go(k, "write", r.pos), Is(p, "override") => p > r.pos
        PROVE  StoreFacts(c)'
    <3>1. r \in votes /\ r.who = v
      BY DEF OnPlugin
    <3>. QED BY <1>1, <1>2, <2>3, <3>1, GoKeepsStore
  <2>4. ASSUME chain[p].kind \in Updates, NEW r \in ToUpdate(p)
        PROVE  r \in OnPlugin(v) /\ (Is(p, "override") => p > r.pos)
    <3>1. r \in OnPlugin(v) /\ (Is(p, "override") => r \in OverrideVoteCast(v, p))
      BY <1>1, <2>4 DEF Updates, ToUpdate, OverrideVoteCast, ObjectionCast, VoteCleared, Is
    <3>2. ASSUME Is(p, "override") PROVE p > r.pos
      <4>1. p > IF r.over # 0 THEN r.over ELSE r.pos
        BY <3>1, <3>2 DEF OverrideVoteCast
      <4>2. r.over = 0 \/ r.over > r.pos
        BY <3>1 DEF OnPlugin, StoreFacts, VoteFact, Overridden
      <4>3. r.over \in Nat /\ r.pos \in Nat /\ p \in Nat
        BY <1>2, <3>1, ChainElements DEF OnPlugin, VotesInvariant, TypeOK, VoteRecords
      <4>. QED BY <4>1, <4>2, <4>3
    <3>. QED BY <3>1, <3>2
  <2>. QED BY <2>1, <2>2, <2>3, <2>4 DEF Is
<1>5. CASE FindProposal(k)
  <2>1. /\ Is(p, "create") /\ p = c
        /\ Go(k, "write", 0) \/ (proposal.exists /\ Pass(k, "idle"))
    BY <1>1, <1>2, <1>5 DEF FindProposal, AtEvent, Is, ChainFacts, CreatedAt
  <2>2. CASE Go(k, "write", 0)
    BY <1>1, <1>2, <2>1, <2>2, GoKeepsStore DEF Updates, Is
  <2>3. CASE proposal.exists /\ Pass(k, "idle")
    <3>1. crawler'[k] = Passed(k, "idle") /\ \A d \in Crawlers \ {k} : StaysPut(d)
      BY <2>3, OthersStayPut DEF Pass
    <3>2. ~IsCast(p) /\ chain[p].kind \notin VoteEvents /\ chain[p].kind \notin {"execute", "cancel", "edit"}
      BY <2>1 DEF Is, IsCast, VoteEvents
    <3>. QED BY <1>1, <1>2, <2>3, <3>1, <3>2, PassKeepsStore
  <2>. QED BY <2>1, <2>2, <2>3
<1>. QED BY <1>3, <1>4, <1>5


\* A crawler's message to the metrics service.
LEMMA SendKeepsStore ==
    ASSUME VotesInvariant, NEW c, StoreFacts(c), NEW k \in Crawlers, SendMessage(k) \/ SendFails(k)
    PROVE  StoreFacts(c)'
<1>. DEFINE l == [crawler[k] EXCEPT !.step = "idle"]
<1>1. /\ crawler' = [crawler EXCEPT ![k] = l] /\ crawler[k].step = "send"
      /\ UNCHANGED <<chain, votes, proposal>> /\ crawler[k] \in CrawlerStates
  BY DEF SendMessage, SendFails, Sent, Unsent, VotesInvariant, TypeOK
<1>2. /\ l.next = crawler[k].next /\ l.redrive = crawler[k].redrive /\ l.step = "idle"
      /\ l.found = 0 /\ ~l.gone
  BY <1>1 DEF CrawlerStates, VotesInvariant, OnTheChain
<1>. HIDE DEF l
<1>3. crawler'[k] = l /\ \A d \in Crawlers \ {k} : StaysPut(d)
  BY <1>1, OthersStayPut
<1>4. ASSUME NEW q \in Positions, Due(c, q) PROVE Due(c, q)'
  <2>1. Waits(k, q) => Waits(k, q)'
    BY <1>2, <1>3 DEF Waits
  <2>2. ~proposal.exists /\ q < c => Due(c, q)'
    BY <1>1 DEF Due
  <2>. QED BY <1>1, <1>3, <1>4, <2>1, <2>2, DueStays DEF StaysPut
<1>5. CrawlersAt(c)'
  <2>1. ~AtEvent(k, "write", Updates)'
    BY <1>2, <1>3 DEF AtEvent, At
  <2>. QED BY <1>1, <1>2, <1>3, <2>1, MovedCrawlersAt DEF StoreFacts, CrawlersAt
<1>. QED BY <1>1, <1>4, <1>5, FactsStay DEF StoreFacts

\* A crawler that starts again from an event it has not passed.
LEMMA CrashKeepsStore ==
    ASSUME VotesInvariant, NEW c, ChainFacts(c), StoreFacts(c), NEW k \in Crawlers, Crash(k), trouble' = {}
    PROVE  StoreFacts(c)'
<1>0. PICK d \in Crawlers : \E p \in Checkpoints(d) :
        /\ crawler' = [crawler EXCEPT ![k] = From(p)]
        /\ trouble' = IF p > Current(k) THEN trouble \cup {"skipped"} ELSE trouble
  BY DEF Crash
<1>1. PICK p \in Checkpoints(d) :
        /\ crawler' = [crawler EXCEPT ![k] = From(p)]
        /\ trouble' = IF p > Current(k) THEN trouble \cup {"skipped"} ELSE trouble
  BY <1>0
<1>2. UNCHANGED <<chain, votes, proposal>>
  BY DEF Crash
<1>3. /\ p \in Nat /\ p <= crawler[d].next /\ crawler[d].next \in Nat /\ Current(k) \in Nat /\ c \in Nat
      /\ crawler[k].next \in Nat
  BY <1>1, CurrentFacts DEF Checkpoints
<1>4. p <= Current(k)
  BY <1>1, <1>3
<1>5. From(p).next = p /\ From(p).redrive = {} /\ From(p).step = "idle" /\ From(p).found = 0 /\ ~From(p).gone
  BY DEF From
<1>6. crawler'[k] = From(p) /\ \A o \in Crawlers \ {k} : StaysPut(o)
  BY <1>1, OthersStayPut
<1>7. ASSUME NEW q \in Positions, Due(c, q) PROVE Due(c, q)'
  <2>1. ASSUME Waits(k, q) PROVE Waits(k, q)'
    <3>1. q >= crawler[k].next \/ q \in crawler[k].redrive
      BY <2>1 DEF Waits
    <3>2. crawler[k].redrive # {} => crawler[k].next = c + 1
      BY DEF StoreFacts, CrawlersAt
    <3>3. q \in Nat
      BY ChainElements
    <3>4. q >= Current(k)
      <4>1. CASE crawler[k].redrive = {}
        BY <3>1, <4>1, CurrentFacts
      <4>2. CASE crawler[k].redrive # {}
        <5>1. Current(k) < c /\ \A o \in crawler[k].redrive : Current(k) <= o
          BY <4>2, CurrentFacts
        <5>. QED BY <1>3, <3>1, <3>2, <3>3, <4>2, <5>1
      <4>. QED BY <4>1, <4>2
    <3>5. q >= p
      BY <1>3, <1>4, <3>3, <3>4
    <3>. QED BY <1>5, <1>6, <3>5 DEF Waits
  <2>2. ~proposal.exists /\ q < c => Due(c, q)'
    BY <1>2 DEF Due
  <2>. QED BY <1>2, <1>6, <1>7, <2>1, <2>2, DueStays DEF StaysPut
<1>8. CrawlersAt(c)'
  <2>1. ~proposal'.exists => crawler'[k].next <= c
    <3>1. ~proposal.exists => crawler[d].next <= c
      BY DEF StoreFacts, CrawlersAt
    <3>. QED BY <1>2, <1>3, <1>5, <1>6, <3>1
  <2>2. ~AtEvent(k, "write", Updates)'
    BY <1>5, <1>6 DEF AtEvent, At
  <2>. QED BY <1>2, <1>5, <1>6, <2>1, <2>2, MovedCrawlersAt DEF StoreFacts
<1>. QED BY <1>2, <1>7, <1>8, FactsStay DEF StoreFacts

\* Once the proposal is stored, the loop of proposalCreated has the events before it
\* to handle, and the crawler those after it.
LEMMA CreateKeepsStore ==
    ASSUME VotesInvariant, ProposalType, NEW c, ChainFacts(c), StoreFacts(c), NEW k \in Crawlers,
           ProposalCreated(k)
    PROVE  StoreFacts(c)'
<1>. DEFINE l == [Passed(k, "send") EXCEPT !.redrive = OutOfOrder(c)]
<1>1. /\ Current(k) = c /\ c \in Positions /\ UNCHANGED <<chain, votes>>
      /\ proposal' = [proposal EXCEPT !.exists = TRUE]
      /\ crawler' = [crawler EXCEPT ![k] = l]
  BY DEF ProposalCreated, AtEvent, At, ChainFacts, CreatedAt, Is
<1>2. crawler[k].redrive = {} /\ c \in Nat
  <2>1. crawler[k].redrive # {} => Current(k) < c
    BY CurrentFacts
  <2>2. c \in Nat
    BY CurrentFacts
  <2>. QED BY <1>1, <2>1, <2>2
<1>3. /\ l.next = c + 1 /\ l.redrive = OutOfOrder(c) /\ l.step = "send" /\ l.found = 0 /\ ~l.gone
  <2>1. /\ Passed(k, "send") \in CrawlerStates /\ Passed(k, "send").next = crawler[k].next + 1
        /\ Passed(k, "send").step = "send" /\ Passed(k, "send").found = 0 /\ ~Passed(k, "send").gone
        /\ Current(k) = crawler[k].next
    BY <1>1, <1>2, PassedType
  <2>. QED BY <1>1, <2>1 DEF CrawlerStates
<1>. HIDE DEF l
<1>4. crawler'[k] = l /\ \A d \in Crawlers \ {k} : StaysPut(d)
  BY <1>1, OthersStayPut
<1>5. /\ proposal'.exists /\ proposal'.executed = proposal.executed
      /\ proposal'.canceled = proposal.canceled /\ proposal'.edited = proposal.edited
  BY <1>1 DEF ProposalType
<1>6. ASSUME NEW q \in Positions, q # c PROVE Due(c, q)'
  <2>1. q \in Nat /\ q > 0
    BY ChainElements DEF Positions
  <2>2. CASE q < c
    <3>1. chain[q].tx = chain[c].tx /\ chain[q].kind \in {"vote", "approve", "execute"}
      <4>1. q <= c /\ c <= c
        BY <1>2, <2>1, <2>2
      <4>. QED BY <1>1, <2>2, <4>1 DEF ChainFacts, CreatedAt
    <3>2. q \in OutOfOrder(c)
      BY <1>2, <2>1, <2>2, <3>1 DEF OutOfOrder
    <3>. QED BY <1>3, <1>4, <3>2 DEF Due, Waits
  <2>3. CASE q > c
    <3>1. q >= l.next
      BY <1>2, <1>3, <2>1, <2>3
    <3>. QED BY <1>3, <1>4, <3>1 DEF Due, Waits
  <2>. QED BY <1>2, <1>6, <2>1, <2>2, <2>3
<1>7. Is(c, "create")
  BY <1>1 DEF ChainFacts, CreatedAt
<1>8. CrawlersAt(c)'
  <2>1. ~AtEvent(k, "write", Updates)'
    BY <1>3, <1>4 DEF AtEvent, At
  <2>. QED BY <1>1, <1>3, <1>4, <1>5, <2>1, MovedCrawlersAt DEF StoreFacts
<1>9. CastsAreKept(c)'
  BY <1>1, <1>6, <1>7 DEF CastsAreKept, Positions, IsCast, Is
<1>10. ASSUME NEW r \in votes PROVE VoteFact(c, r)'
  <2>1. chain[c].kind \notin VoteEvents
    BY <1>7 DEF VoteEvents, Is
  <2>. QED BY <1>1, <1>6, <2>1, VoteStays DEF StoreFacts
<1>11. ProposalFacts(c)'
  <2>1. \A j \in {"execute", "cancel", "edit"} : \A q \in Where(j, NoOne) : q \in Positions /\ q # c
    BY <1>7 DEF Where, Is
  <2>. QED BY <1>1, <1>5, <1>6, <2>1, ProposalStays DEF StoreFacts
<1>. QED BY <1>1, <1>8, <1>9, <1>10, <1>11 DEF StoreFacts

\* A crawler passes an event: what else was due still is.
LEMMA PassKeepsTheRest ==
    ASSUME VotesInvariant, NEW c, ChainFacts(c), StoreFacts(c), NEW k \in Crawlers, NEW p, p = Current(k),
           p \in Positions, p # c, NEW s \in {"idle", "send"}, Pass(k, s), UNCHANGED <<chain, votes>>,
           proposal'.exists = proposal.exists
    PROVE  /\ CrawlersAt(c)'
           /\ \A q \in Positions : Due(c, q) => Due(c, q)' \/ (q = p /\ proposal.exists)
           /\ ~proposal.exists => p < c
<1>1. /\ crawler'[k] = Passed(k, s) /\ \A d \in Crawlers \ {k} : StaysPut(d)
  BY OthersStayPut DEF Pass
<1>2. ~proposal.exists => p < c
  <2>1. ~proposal.exists => crawler[k].next <= c /\ crawler[k].redrive = {}
    BY DEF StoreFacts, CrawlersAt
  <2>. QED BY <2>1, CurrentFacts
<1>3. \A q \in Positions : Due(c, q) => Due(c, q)' \/ (q = p /\ proposal.exists)
  BY <1>1, <1>2, PassDue DEF StoreFacts
<1>4. CrawlersAt(c)'
  <2>1. /\ ~proposal'.exists => crawler'[k].next <= c
        /\ crawler'[k].redrive # {} => crawler'[k].next = c + 1 /\ proposal'.exists
        /\ crawler'[k].found = 0 /\ ~AtEvent(k, "write", Updates)'
    BY <1>1, PassedCrawlersAt DEF StoreFacts
  <2>. QED BY <1>1, <2>1, MovedCrawlersAt DEF StoreFacts
<1>. QED BY <1>2, <1>3, <1>4

\* What that leaves of the facts about votes, for an event that is not about them.
LEMMA DecisionsKeepVotes ==
    ASSUME VotesInvariant, NEW c, StoreFacts(c), NEW p \in Positions, chain[p].kind \notin VoteEvents,
           UNCHANGED <<chain, votes>>,
           \A q \in Positions : Due(c, q) => Due(c, q)' \/ q = p
    PROVE  CastsAreKept(c)' /\ (\A r \in votes : VoteFact(c, r))'
<1>1. CastsAreKept(c)'
  <2>1. ~IsCast(p)
    BY DEF IsCast, VoteEvents
  <2>. QED BY <2>1 DEF StoreFacts, CastsAreKept, Positions, IsCast
<1>2. ASSUME NEW r \in votes PROVE VoteFact(c, r)'
  BY VoteStays DEF StoreFacts
<1>. QED BY <1>1, <1>2

\* The proposal keeps its first execution: there is one.
LEMMA ExecutedKeepsStore ==
    ASSUME VotesInvariant, ProposalType, NEW c, ChainFacts(c), StoreFacts(c), NEW k \in Crawlers,
           ProposalExecuted(k)
    PROVE  StoreFacts(c)'
<1>1. PICK p : p = Current(k)
  OBVIOUS
<1>2. /\ p \in Positions /\ Is(p, "execute") /\ Pass(k, "idle") /\ UNCHANGED <<chain, votes>>
      /\ proposal' = IF proposal.exists /\ proposal.executed = 0
                     THEN [proposal EXCEPT !.executed = p] ELSE proposal
  BY <1>1 DEF ProposalExecuted, AtEvent, At, Is
<1>3. /\ proposal'.exists = proposal.exists /\ proposal'.canceled = proposal.canceled
      /\ proposal'.edited = proposal.edited
      /\ proposal'.executed = IF proposal.exists /\ proposal.executed = 0 THEN p ELSE proposal.executed
  BY <1>2 DEF ProposalType
<1>4. /\ p # c /\ p \in Where("execute", NoOne) /\ \A q \in Where("execute", NoOne) : q = p
      /\ chain[p].kind \notin VoteEvents
  BY <1>2 DEF ChainFacts, CreatedAt, DecidedOnce, Is, Where, VoteEvents
<1>5. /\ CrawlersAt(c)'
      /\ \A q \in Positions : Due(c, q) => Due(c, q)' \/ (q = p /\ proposal.exists)
  BY <1>1, <1>2, <1>3, <1>4, PassKeepsTheRest
<1>6. CastsAreKept(c)' /\ (\A r \in votes : VoteFact(c, r))'
  BY <1>2, <1>4, <1>5, DecisionsKeepVotes
<1>7. ProposalFacts(c)'
  <2>1. \A j : Where(j, NoOne)' = Where(j, NoOne)
    BY <1>2 DEF Where, Positions
  <2>2. proposal'.executed = 0 \/ proposal'.executed \in Where("execute", NoOne)
    BY <1>3, <1>4 DEF StoreFacts, ProposalFacts
  <2>3. proposal'.executed = p \/ Due(c, p)'
    <3>1. proposal.executed = p \/ Due(c, p)
      BY <1>4 DEF StoreFacts, ProposalFacts
    <3>2. proposal.executed = 0 \/ proposal.executed = p
      BY <1>4 DEF StoreFacts, ProposalFacts
    <3>. QED BY <1>2, <1>3, <1>5, <3>1, <3>2
  <2>4. \A j \in {"cancel", "edit"} : \A q \in Where(j, NoOne) : Due(c, q) => Due(c, q)'
    BY <1>2, <1>5 DEF Where, Is
  <2>5. \A q \in Where("cancel", NoOne) : proposal.canceled = q \/ Due(c, q)'
    BY <2>4, Zenon DEF StoreFacts, ProposalFacts
  <2>6. (\E q \in Where("edit", NoOne) : Due(c, q)') \/ Latest(proposal.edited, Where("edit", NoOne))
    BY <2>4, Zenon DEF StoreFacts, ProposalFacts
  <2>7. proposal.canceled = 0 \/ proposal.canceled \in Where("cancel", NoOne)
    BY DEF StoreFacts, ProposalFacts
  <2>. QED BY <1>3, <1>4, <2>1, <2>2, <2>3, <2>5, <2>6, <2>7 DEF ProposalFacts, Latest
<1>. QED BY <1>5, <1>6, <1>7 DEF StoreFacts

\* The proposal is canceled once; of the editions the last stays, once it is handled.
LEMMA UpdatedKeepsStore ==
    ASSUME VotesInvariant, ProposalType, NEW c, ChainFacts(c), StoreFacts(c), NEW k \in Crawlers,
           ProposalUpdated(k)
    PROVE  StoreFacts(c)'
<1>1. PICK p : p = Current(k)
  OBVIOUS
<1>2. /\ p \in Positions /\ chain[p].kind \in {"cancel", "edit"} /\ Pass(k, "idle")
      /\ UNCHANGED <<chain, votes>>
      /\ proposal' = IF ~proposal.exists THEN proposal
                     ELSE IF Is(p, "cancel") THEN [proposal EXCEPT !.canceled = p]
                     ELSE [proposal EXCEPT !.edited = p]
  BY <1>1 DEF ProposalUpdated, AtEvent, At, Is
<1>3. /\ proposal'.exists = proposal.exists /\ proposal'.executed = proposal.executed
      /\ proposal'.canceled = IF proposal.exists /\ Is(p, "cancel") THEN p ELSE proposal.canceled
      /\ proposal'.edited = IF proposal.exists /\ Is(p, "edit") THEN p ELSE proposal.edited
  BY <1>2 DEF ProposalType, Is
<1>4. /\ p # c /\ ~(p < c) /\ chain[p].kind \notin VoteEvents /\ chain[p].who = NoOne
  BY <1>2 DEF ChainFacts, CreatedAt, DecidedOnce, Is, VoteEvents
<1>5. /\ CrawlersAt(c)' /\ proposal.exists
      /\ \A q \in Positions : Due(c, q) => Due(c, q)' \/ q = p
  BY <1>1, <1>2, <1>3, <1>4, PassKeepsTheRest
<1>6. CastsAreKept(c)' /\ (\A r \in votes : VoteFact(c, r))'
  BY <1>2, <1>4, <1>5, DecisionsKeepVotes
<1>7. ASSUME NEW q \in Positions, q > p, chain[q].kind = "edit" PROVE Due(c, q)'
  <2>1. /\ p \in Nat /\ c \in Nat /\ q \in Nat
        /\ crawler[k].redrive = {} => p = crawler[k].next
        /\ crawler[k].redrive # {} => p < c
    BY <1>1, CurrentFacts, ChainElements
  <2>2. crawler[k].redrive = {}
    BY <1>4, <2>1
  <2>3. crawler'[k].next = p + 1 /\ ~crawler'[k].gone
    <3>1. crawler'[k] = Passed(k, "idle")
      BY <1>2, OthersStayPut DEF Pass
    <3>. QED BY <1>1, <1>2, <2>1, <2>2, <3>1, PassedType
  <2>. QED BY <1>7, <2>1, <2>3 DEF Due, Waits
<1>8. ProposalFacts(c)'
  <2>1. \A j : Where(j, NoOne)' = Where(j, NoOne)
    BY <1>2 DEF Where, Positions
  <2>2. \A j \in {"execute", "cancel", "edit"} : \A q \in Where(j, NoOne) :
            Due(c, q) => Due(c, q)' \/ (q = p /\ Is(p, j))
    BY <1>5 DEF Where, Is
  <2>3. /\ proposal.executed = 0 \/ proposal.executed \in Where("execute", NoOne)
        /\ \A q \in Where("execute", NoOne) : proposal.executed = q \/ Due(c, q)'
    <3>1. ~Is(p, "execute")
      BY <1>2 DEF Is
    <3>. QED BY <2>2, <3>1, Zenon DEF StoreFacts, ProposalFacts
  <2>4. /\ proposal'.canceled = 0 \/ proposal'.canceled \in Where("cancel", NoOne)
        /\ \A q \in Where("cancel", NoOne) : proposal'.canceled = q \/ Due(c, q)'
    <3>1. CASE Is(p, "cancel")
      BY <1>2, <1>3, <1>4, <1>5, <3>1 DEF Where, Is, ChainFacts, DecidedOnce
    <3>2. CASE ~Is(p, "cancel")
      <4>1. proposal'.canceled = proposal.canceled
        BY <1>3, <3>2
      <4>. QED BY <2>2, <3>2, <4>1, Zenon DEF StoreFacts, ProposalFacts
    <3>. QED BY <3>1, <3>2
  <2>5. (\E q \in Where("edit", NoOne) : Due(c, q)') \/ Latest(proposal'.edited, Where("edit", NoOne))
    <3>1. CASE Is(p, "edit")
      <4>1. proposal'.edited = p /\ p \in Where("edit", NoOne) /\ p \in Nat
        BY <1>2, <1>3, <1>4, <1>5, <3>1, ChainElements DEF Where, Is
      <4>2. \A q \in Where("edit", NoOne) : q \in Positions /\ q \in Nat /\ chain[q].kind = "edit"
        BY ChainElements DEF Where
      <4>3. CASE \E q \in Where("edit", NoOne) : q > p
        BY <1>7, <4>2, <4>3
      <4>4. CASE \A q \in Where("edit", NoOne) : ~(q > p)
        BY <4>1, <4>2, <4>4 DEF Latest
      <4>. QED BY <4>3, <4>4
    <3>2. CASE ~Is(p, "edit")
      <4>1. proposal'.edited = proposal.edited
        BY <1>3, <3>2
      <4>. QED BY <2>2, <3>2, <4>1, Zenon DEF StoreFacts, ProposalFacts
    <3>. QED BY <3>1, <3>2
  <2>. QED BY <1>3, <2>1, <2>3, <2>4, <2>5 DEF ProposalFacts, Latest
<1>. QED BY <1>5, <1>6, <1>8 DEF StoreFacts

\* The contract emits while every crawler has the whole chain to handle.
LEMMA EmitKeepsStore ==
    ASSUME VotesInvariant, NEW c, ChainFacts(c), StoreFacts(c), NEW events, LaterTx(events), Emit(events)
    PROVE  StoreFacts(c)'
<1>1. /\ Positions \subseteq Positions' /\ \A p \in Positions : chain'[p] = chain[p]
      /\ \A q \in Positions' : q \in Nat /\ q >= 1
      /\ UNCHANGED <<crawler, proposal, votes>> /\ \A k \in Crawlers : crawler[k] = From(1)
  <2>1. events \in Seq(Events)
    BY DEF LaterTx
  <2>. QED BY <2>1, EmitExtends DEF Emit
<1>2. \A k \in Crawlers : /\ crawler[k].next = 1 /\ crawler[k].redrive = {} /\ crawler[k].step = "idle"
                          /\ crawler[k].found = 0 /\ ~crawler[k].gone
  BY <1>1 DEF From
<1>3. \A q \in Positions' : Due(c, q)'
  <2>1. PICK k \in Crawlers : TRUE
    BY ProposalsAssumption
  <2>. QED BY <1>1, <1>2, <2>1 DEF Due, Waits
<1>4. \A j, v : \A q \in Where(j, v) : q \in Where(j, v)'
  BY <1>1 DEF Where
<1>5. \A j, v : \A q \in Where(j, v)' : Due(c, q)'
  BY <1>3 DEF Where
<1>6. CrawlersAt(c)'
  BY <1>1, <1>2 DEF StoreFacts, CrawlersAt, AtEvent, At
<1>7. CastsAreKept(c)'
  BY <1>3 DEF CastsAreKept
<1>8. ASSUME NEW r \in votes PROVE VoteFact(c, r)'
  <2>1. VoteFact(c, r)
    BY DEF StoreFacts
  <2>2. LastVote(c, r)'
    <3>1. CASE \E q \in Positions' : CastOf(q, r.who)' /\ q # r.pos
      BY <1>3, <3>1 DEF LastVote
    <3>2. CASE \A q \in Positions' : CastOf(q, r.who)' => q = r.pos
      <4>1. \A q \in Positions : CastOf(q, r.who) => q = r.pos
        BY <1>1, <3>2 DEF CastOf, IsCast
      <4>2. r.pos \in Nat /\ ~(r.pos < r.pos)
        BY DEF VotesInvariant, TypeOK, VoteRecords
      <4>3. Latest(r.replaced, {q \in Positions : CastOf(q, r.who) /\ q < r.pos})
        BY <2>1, <4>1 DEF VoteFact, LastVote
      <4>4. {q \in Positions : CastOf(q, r.who) /\ q < r.pos} = {}
        BY <4>1, <4>2
      <4>5. {q \in Positions' : CastOf(q, r.who)' /\ q < r.pos} = {}
        BY <3>2, <4>2
      <4>6. Latest(r.replaced, {q \in Positions' : CastOf(q, r.who)' /\ q < r.pos})
        BY <4>3, <4>4, <4>5
      <4>. QED BY <1>3, <4>6 DEF LastVote, Latest
    <3>. QED BY <3>1, <3>2
  <2>3. Overridden(c, r)'
    BY <1>4, <1>5, <2>1, Zenon DEF VoteFact, Overridden
  <2>4. Objected(c, r)'
    BY <1>4, <1>5, <2>1, Zenon DEF VoteFact, Objected
  <2>5. Cleared(c, r)'
    <3>1. Recast(r.who) => Recast(r.who)'
      BY <1>4, Zenon DEF Recast
    <3>. QED BY <1>4, <1>5, <2>1, <3>1, Zenon DEF VoteFact, Cleared
  <2>. QED BY <2>2, <2>3, <2>4, <2>5 DEF VoteFact
<1>9. ProposalFacts(c)'
  <2>1. ProposalFacts(c) /\ UNCHANGED proposal
    BY <1>1 DEF StoreFacts
  <2>2. CASE Where("edit", NoOne)' = {}
    <3>1. Where("edit", NoOne) = {}
      BY <1>4, <2>2
    <3>2. Latest(proposal.edited, {})
      BY <2>1, <3>1 DEF ProposalFacts
    <3>. QED BY <1>4, <1>5, <2>1, <2>2, <3>2, Zenon DEF ProposalFacts, Latest
  <2>3. CASE Where("edit", NoOne)' # {}
    BY <1>4, <1>5, <2>1, <2>3, Zenon DEF ProposalFacts
  <2>. QED BY <2>2, <2>3
<1>. QED BY <1>1, <1>6, <1>7, <1>8, <1>9 DEF StoreFacts

-----------------------------------------------------------------------------
(* The transaction of a vote's handler *)

\* It deletes no vote but that of the event's voter, in favour of another of that
\* voter's; an update deletes none.
LEMMA WriteDeletes ==
    ASSUME VotesInvariant, NEW k \in Crawlers, WriteVote(k), NEW p, p = Current(k)
    PROVE  /\ \A x \in Deleted : /\ chain[p].kind = "vote" /\ ~Stored(p)
                                 /\ x # 0 /\ chain[x].who = chain[p].who
           /\ \A r \in votes : \E s \in votes' : s.who = r.who
           /\ IsCast(p) => \E s \in votes' : s.who = chain[p].who
<1>1. \A r \in votes : r.pos # 0 /\ chain[r.pos].who = r.who
  BY DEF VotesInvariant, VotesAreCast, Positions
<1>2. crawler[k].found # 0 => chain[crawler[k].found].who = chain[p].who
  BY DEF VotesInvariant, OnTheChain
<1>3. p \in Positions /\ chain[p].kind \in VoteEvents
  BY WrittenVotes
<1>4. CASE IsCast(p) /\ Stored(p)
  <2>1. votes' = votes
    BY <1>4, WrittenVotes DEF IsCast
  <2>. QED BY <1>1, <1>4, <2>1 DEF Deleted, Stored, IsCast
<1>5. CASE chain[p].kind = "vote" /\ ~Stored(p)
  <2>1. PICK new : /\ NewVote(new, chain[p].who, p, crawler[k].found)
                   /\ votes' = {r \in votes : crawler[k].gone \/ r.pos # crawler[k].found} \cup {new}
    BY <1>5, WrittenVotes
  <2>2. new \in votes' /\ new.who = chain[p].who
    BY <2>1 DEF NewVote
  <2>3. ASSUME NEW r \in votes PROVE r \in votes' \/ (r.who = chain[p].who /\ r.pos = crawler[k].found)
    BY <1>1, <1>2, <2>1
  <2>4. \A r \in votes : \E s \in votes' : s.who = r.who
    BY <2>2, <2>3
  <2>5. ASSUME NEW x \in Deleted PROVE x # 0 /\ chain[x].who = chain[p].who
    <3>1. PICK r \in votes : r.pos = x /\ r \notin votes'
      BY <2>5 DEF Deleted
    <3>. QED BY <1>1, <2>3, <3>1
  <2>. QED BY <1>5, <2>2, <2>4, <2>5
<1>6. CASE chain[p].kind = "approve" /\ ~Stored(p)
  <2>1. PICK new : NewVote(new, chain[p].who, p, 0) /\ votes' = votes \cup {new}
    BY <1>6, WrittenVotes
  <2>2. new \in votes' /\ new.who = chain[p].who /\ votes \subseteq votes'
    BY <2>1 DEF NewVote
  <2>. QED BY <1>6, <2>2 DEF Deleted
<1>7. CASE chain[p].kind \in Updates
  <2>1. \A r \in votes : \E s \in votes' : s.who = r.who /\ s.pos = r.pos
    <3>. SUFFICES ASSUME NEW r \in votes PROVE \E s \in votes' : s.who = r.who /\ s.pos = r.pos
      OBVIOUS
    <3>1. IF ~crawler[k].gone /\ r.pos = crawler[k].found
          THEN \E new \in votes' : SetBy(new, r, p) ELSE r \in votes'
      BY <1>7, WrittenVotes
    <3>. QED BY <3>1 DEF SetBy
  <2>2. Deleted = {} /\ ~IsCast(p)
    BY <1>7, <2>1 DEF Deleted, Updates, IsCast
  <2>. QED BY <2>1, <2>2
<1>. QED BY <1>3, <1>4, <1>5, <1>6, <1>7 DEF IsCast, VoteEvents, Updates

\* What was due besides the event itself stays due, but for updates of a vote that
\* is deleted; and later events of votes are due.
LEMMA WriteDue ==
    ASSUME VotesInvariant, HandlersHaveRead, NEW c, ChainFacts(c), StoreFacts(c), NEW k \in Crawlers,
           WriteVote(k), NEW p, p = Current(k), NEW q \in Positions
    PROVE  /\ /\ Due(c, q) /\ (q # p \/ ~Waits(k, p))
              /\ chain[q].who # chain[p].who \/ chain[q].kind \notin Updates \/ Deleted = {}
              => Due(c, q)'
           /\ q > p /\ chain[q].kind \in VoteEvents => Due(c, q)'
<1>1. p \in Positions /\ UNCHANGED <<chain, proposal>>
  BY WrittenVotes DEF WriteVote
<1>2. PICK s \in {"idle", "send"} : crawler'[k] = Passed(k, s)
  BY WriteMoves
<1>3. CrawlersAt(c)
  BY DEF StoreFacts
<1>4. ASSUME q > p, chain[q].kind \in VoteEvents PROVE Due(c, q)'
  BY <1>1, <1>2, <1>3, <1>4, PassLeavesTheRest DEF Due
<1>5. ASSUME Due(c, q), q # p \/ ~Waits(k, p),
             chain[q].who # chain[p].who \/ chain[q].kind \notin Updates \/ Deleted = {}
      PROVE  Due(c, q)'
  <2>1. Waits(k, q) => Waits(k, q)'
    BY <1>1, <1>2, <1>3, <1>5, PassLeavesTheRest
  <2>2. ASSUME NEW d \in Crawlers \ {k}, crawler'[d].gone, ~crawler[d].gone, q = Current(d),
               chain[q].kind \in Updates
        PROVE  FALSE
    <3>1. crawler[d].found \in Deleted
      BY <2>2, WriteMoves
    <3>2. crawler[d].found # 0 /\ chain[crawler[d].found].who = chain[p].who
      BY <3>1, WriteDeletes
    <3>3. chain[q].who = chain[p].who
      BY <2>2, <3>2 DEF VotesInvariant, OnTheChain
    <3>. QED BY <1>5, <2>2, <3>1, <3>3
  <2>3. \A d \in Crawlers \ {k} :
           /\ crawler'[d].next = crawler[d].next /\ crawler'[d].redrive = crawler[d].redrive
           /\ Current(d)' = Current(d)
           /\ crawler'[d].gone => crawler[d].gone \/ q # Current(d) \/ chain[q].kind \notin Updates
    BY <2>2, WriteMoves
  <2>4. ~proposal.exists /\ q < c => Due(c, q)'
    BY <1>1 DEF Due
  <2>. QED BY <1>1, <1>5, <2>1, <2>3, <2>4, DueStays
<1>. QED BY <1>4, <1>5

\* The other crawlers know whether the vote they have read is there.
LEMMA WriteCrawlersAt ==
    ASSUME VotesInvariant, VotesInvariant', HandlersHaveRead, NEW c, ChainFacts(c), StoreFacts(c),
           NEW k \in Crawlers, WriteVote(k), NEW p, p = Current(k)
    PROVE  CrawlersAt(c)'
<1>1. p \in Positions /\ UNCHANGED <<chain, proposal>> /\ proposal.exists
  BY WrittenVotes, WriteHasRead DEF WriteVote
<1>. SUFFICES ASSUME NEW d \in Crawlers
     PROVE  /\ ~proposal'.exists => crawler'[d].next <= c
            /\ crawler'[d].redrive # {} => crawler'[d].next = c + 1 /\ proposal'.exists
            /\ AtEvent(d, "write", {"override"})' => Current(d)' > crawler'[d].found
            /\ AtEvent(d, "write", Updates)' => crawler'[d].found # 0
            /\ crawler'[d].found # 0 =>
                  \E r \in votes' : /\ r.who = chain'[Current(d)'].who
                                    /\ ~crawler'[d].gone => r.pos = crawler'[d].found
  BY DEF CrawlersAt
<1>2. CASE d = k
  <2>1. PICK s \in {"idle", "send"} : crawler'[k] = Passed(k, s)
    BY WriteMoves
  <2>2. /\ ~proposal'.exists => crawler'[k].next <= c
        /\ crawler'[k].redrive # {} => crawler'[k].next = c + 1 /\ proposal'.exists
        /\ crawler'[k].found = 0 /\ ~AtEvent(k, "write", Updates)'
    BY <1>1, <2>1, PassedCrawlersAt DEF StoreFacts
  <2>. QED BY <1>2, <2>2 DEF AtEvent, Updates
<1>3. CASE d # k
  <2>1. /\ crawler'[d].next = crawler[d].next /\ crawler'[d].redrive = crawler[d].redrive
        /\ crawler'[d].step = crawler[d].step /\ crawler'[d].found = crawler[d].found
        /\ crawler'[d].gone <=> crawler[d].gone \/ crawler[d].found \in Deleted
        /\ Current(d)' = Current(d)
    BY <1>3, WriteMoves
  <2>2. \A s, S : AtEvent(d, s, S)' <=> AtEvent(d, s, S)
    BY <1>1, <2>1 DEF AtEvent, At, Positions
  <2>3. ASSUME crawler[d].found # 0
        PROVE  \E r \in votes' : /\ r.who = chain[Current(d)].who
                                 /\ ~crawler'[d].gone => r.pos = crawler[d].found
    <3>1. PICK r \in votes : r.who = chain[Current(d)].who /\ (~crawler[d].gone => r.pos = crawler[d].found)
      BY <2>3 DEF StoreFacts, CrawlersAt
    <3>2. CASE crawler'[d].gone
      <4>1. PICK s \in votes' : s.who = r.who
        BY WriteDeletes
      <4>. QED BY <3>1, <3>2, <4>1
    <3>3. CASE ~crawler'[d].gone
      <4>1. r.pos = crawler[d].found /\ r.pos \notin Deleted
        BY <2>1, <3>1, <3>3
      <4>2. PICK s \in votes' : s.pos = r.pos
        BY <4>1 DEF Deleted
      <4>3. s.who = chain[s.pos].who /\ r.who = chain[r.pos].who
        BY <1>1 DEF VotesInvariant, VotesAreCast
      <4>. QED BY <3>1, <4>1, <4>2, <4>3
    <3>. QED BY <3>2, <3>3
  <2>. QED BY <1>1, <2>1, <2>2, <2>3 DEF StoreFacts, CrawlersAt
<1>. QED BY <1>2, <1>3

\* The vote that an update sets.
LEMMA UpdateKeepsFact ==
    ASSUME VotesInvariant, OneVotePerVoter, HandlersHaveRead, NEW c, ChainFacts(c), StoreFacts(c),
           NEW k \in Crawlers, WriteVote(k), NEW p, p = Current(k), chain[p].kind \in Updates,
           NEW r \in votes, r.who = chain[p].who, r.pos = crawler[k].found, NEW s, SetBy(s, r, p)
    PROVE  VoteFact(c, s)'
<1>1. /\ p \in Positions /\ UNCHANGED chain /\ p \in Nat /\ p > 0 /\ r.pos \in Nat /\ r.over \in Nat
      /\ AtEvent(k, "write", Updates)
  BY WrittenVotes, ChainElements
  DEF WriteVote, Positions, AtEvent, At, VotesInvariant, TypeOK, VoteRecords
<1>2. Deleted = {} /\ ~IsCast(p)
  BY WriteDeletes DEF Updates, IsCast
<1>3. \A q \in Positions : Due(c, q) /\ q # p => Due(c, q)'
  BY <1>2, WriteDue
<1>4. /\ VoteFact(c, r) /\ s.who = r.who /\ s.pos = r.pos /\ s.replaced = r.replaced
      /\ s.over = IF Is(p, "override") THEN p ELSE r.over
      /\ s.source = IF Is(p, "objection") THEN p ELSE r.source
      /\ s.cleared = IF Is(p, "clear") THEN p ELSE r.cleared
  BY DEF StoreFacts, SetBy, Is
<1>5. \A j, v : Where(j, v)' = Where(j, v)
  BY <1>1 DEF Where, Positions
<1>6. \A j : /\ \A q \in Where(j, r.who) : q \in Positions /\ q \in Nat /\ Is(q, j) /\ SameVoter(p, q)
             /\ Is(p, j) => p \in Where(j, r.who)
  BY <1>1, ChainElements DEF Where, Is, SameVoter
<1>7. LastVote(c, s)'
  <2>1. \A q \in Positions : CastOf(q, r.who) /\ Due(c, q) => Due(c, q)'
    BY <1>2, <1>3 DEF CastOf
  <2>. QED BY <1>1, <1>4, <2>1, LastVoteStays DEF VoteFact
<1>8. Overridden(c, s)'
  <2>1. CASE Is(p, "override")
    <3>1. p > r.pos
      <4>1. AtEvent(k, "write", {"override"})
        BY <1>1, <2>1 DEF AtEvent, Is
      <4>. QED BY <4>1 DEF StoreFacts, CrawlersAt
    <3>2. \A o \in Where("override", r.who) : o <= p \/ Due(c, o)'
      <4>. SUFFICES ASSUME NEW o \in Where("override", r.who), o > p PROVE Due(c, o)'
        BY <1>1, <1>6
      <4>. QED BY <1>6, WriteDue DEF Is, VoteEvents
    <3>. QED BY <1>4, <1>5, <1>6, <2>1, <3>1, <3>2 DEF Overridden
  <2>2. CASE ~Is(p, "override")
    <3>1. \A o \in Where("override", r.who) : Due(c, o) => Due(c, o)'
      BY <1>3, <1>6, <2>2
    <3>. QED BY <1>1, <1>4, <2>2, <3>1, OverriddenStays DEF VoteFact
  <2>. QED BY <2>1, <2>2
<1>9. Objected(c, s)'
  <2>1. CASE Is(p, "objection")
    <3>1. \A q \in Where("objection", r.who) : q = p
      <4>. SUFFICES ASSUME NEW q \in Where("objection", r.who) PROVE q = p
        OBVIOUS
      <4>1. /\ q \in Positions /\ q \in Nat /\ Is(q, "objection") /\ SameVoter(p, q)
        BY <1>6
      <4>2. /\ kind = "objection"
            /\ p > 1 /\ Is(p - 1, "vote") /\ SameVoter(p - 1, p)
            /\ q > 1 /\ Is(q - 1, "vote") /\ SameVoter(q - 1, q)
        BY <1>1, <2>1, <4>1 DEF ChainFacts, ObjectionsAreVotes
      <4>3. p - 1 \in Positions /\ q - 1 \in Positions /\ SameVoter(p - 1, q - 1)
        BY <1>1, <4>1, <4>2, LenProperties DEF Positions, SameVoter, VotesInvariant, TypeOK
      <4>4. q - 1 = p - 1
        BY <4>2, <4>3 DEF ChainFacts, ObjectionsAreVotes
      <4>. QED BY <1>1, <4>1, <4>4
    <3>. QED BY <1>4, <1>5, <1>6, <2>1, <3>1 DEF Objected
  <2>2. CASE ~Is(p, "objection")
    <3>1. \A o \in Where("objection", r.who) : Due(c, o) => Due(c, o)'
      BY <1>3, <1>6, <2>2
    <3>. QED BY <1>1, <1>4, <2>2, <3>1, ObjectedStays DEF VoteFact
  <2>. QED BY <2>1, <2>2
<1>10. Cleared(c, s)'
  <2>1. CASE Is(p, "clear")
    <3>1. ASSUME NEW d \in Where("clear", r.who), d # p PROVE Recast(r.who)
      <4>1. d \in Positions /\ d \in Nat /\ Is(d, "clear") /\ SameVoter(p, d)
        BY <1>6
      <4>2. PICK a \in {p, d} : \E o \in Positions : a < o /\ Is(o, "vote") /\ SameVoter(o, a)
        <5>1. CASE p < d
          BY <1>1, <2>1, <4>1, <5>1 DEF ChainFacts, ClearsFollowVotes
        <5>2. CASE d < p
          BY <1>1, <2>1, <4>1, <5>2 DEF ChainFacts, ClearsFollowVotes, SameVoter
        <5>. QED BY <1>1, <3>1, <4>1, <5>1, <5>2
      <4>. QED BY <1>1, <1>6, <2>1, <4>1, <4>2 DEF Recast, Where, Is, SameVoter
    <3>2. ~Recast(r.who) => \A d \in Where("clear", r.who) : d = p
      BY <3>1
    <3>3. Recast(r.who)' <=> Recast(r.who)
      BY <1>5 DEF Recast
    <3>. QED BY <1>4, <1>5, <1>6, <2>1, <3>2, <3>3 DEF Cleared
  <2>2. CASE ~Is(p, "clear")
    <3>1. \A o \in Where("clear", r.who) : Due(c, o) => Due(c, o)'
      BY <1>3, <1>6, <2>2
    <3>. QED BY <1>1, <1>4, <2>2, <3>1, ClearedStays DEF VoteFact
  <2>. QED BY <2>1, <2>2
<1>. QED BY <1>7, <1>8, <1>9, <1>10 DEF VoteFact

\* The vote that a handler stores, in place of the one it has read.
LEMMA CastKeepsFact ==
    ASSUME VotesInvariant, ReadsHold, HandlersHaveRead, NEW c, ChainFacts(c), StoreFacts(c),
           NEW k \in Crawlers, WriteVote(k), NEW p, p = Current(k), IsCast(p), ~Stored(p),
           NEW s, NEW old, NewVote(s, chain[p].who, p, old),
           old = IF Is(p, "vote") THEN crawler[k].found ELSE 0
    PROVE  VoteFact(c, s)'
<1>1. PICK v : v = chain[p].who
  OBVIOUS
<1>2. /\ p \in Positions /\ UNCHANGED chain /\ p \in Nat /\ p > 0
      /\ Is(p, "vote") => AtEvent(k, "write", {"vote"})
  BY WrittenVotes, ChainElements DEF WriteVote, Positions, AtEvent, At, Is
<1>3. /\ s.who = v /\ s.pos = p /\ s.replaced = old /\ s.over = 0 /\ s.source = 0 /\ s.cleared = 0
  BY <1>1 DEF NewVote
<1>4. \A j : \A q \in Where(j, v) : q \in Positions /\ q \in Nat /\ Is(q, j) /\ SameVoter(p, q)
  BY <1>1, ChainElements DEF Where, Is, SameVoter
<1>5. \A j, w : Where(j, w)' = Where(j, w)
  BY <1>2 DEF Where, Positions
<1>6. \A q \in Positions : Due(c, q) /\ q # p /\ IsCast(q) => Due(c, q)'
  BY WriteDue DEF IsCast, Updates
<1>7. \A q \in Positions : q > p /\ chain[q].kind \in VoteEvents => Due(c, q)'
  BY WriteDue
\* The vote it has read is the voter's only one.
<1>8. /\ old = 0 => \A r \in votes : r.who # v
      /\ old # 0 => \E r \in votes : r.who = v /\ r.pos = old
  <2>1. \A r \in votes : r.pos # 0
    BY DEF VotesInvariant, VotesAreCast, Positions
  <2>2. CASE Is(p, "vote")
    <3>1. \A r \in votes : r.who = v => r.pos = crawler[k].found /\ ~crawler[k].gone
      BY <1>1, <1>2, <2>2 DEF ReadsHold, Mine
    <3>2. crawler[k].found # 0 => \E r \in votes : r.who = v
      BY <1>1 DEF StoreFacts, CrawlersAt
    <3>. QED BY <2>1, <2>2, <3>1, <3>2
  <2>3. CASE ~Is(p, "vote")
    <3>1. Mine(v) = {}
      BY <1>1, <1>2, <2>3, ApprovesOnce DEF IsCast, Is
    <3>. QED BY <2>3, <3>1 DEF Mine
  <2>. QED BY <2>2, <2>3
<1>9. LastVote(c, s)'
  <2>. DEFINE before == {q \in Positions : CastOf(q, v) /\ q < p}
  <2>1. \A q \in Positions : CastOf(q, v) => q <= p \/ Due(c, q)'
    <3>. SUFFICES ASSUME NEW q \in Positions, CastOf(q, v), q > p PROVE Due(c, q)'
      BY <1>2, ChainElements
    <3>. QED BY <1>7 DEF CastOf, IsCast, VoteEvents
  <2>2. \/ Latest(old, before)
        \/ \E q \in Positions : CastOf(q, v) /\ q # p /\ Due(c, q)'
    <3>1. CASE old = 0
      <4>1. \A q \in before : Due(c, q)' /\ q # p /\ CastOf(q, v) /\ q \in Positions
        <5>. SUFFICES ASSUME NEW q \in before PROVE Due(c, q)' /\ q # p /\ CastOf(q, v) /\ q \in Positions
          OBVIOUS
        <5>1. q \in Positions /\ IsCast(q) /\ chain[q].who = v /\ q # p
          BY <1>2, ChainElements DEF CastOf
        <5>2. Due(c, q)
          BY <1>8, <3>1, <5>1 DEF StoreFacts, CastsAreKept
        <5>. QED BY <1>6, <5>1, <5>2 DEF CastOf
      <4>2. CASE before = {}
        BY <3>1, <4>2 DEF Latest
      <4>3. CASE before # {}
        BY <4>1, <4>3
      <4>. QED BY <4>2, <4>3
    <3>2. CASE old # 0
      <4>1. PICK r \in votes : r.who = v /\ r.pos = old
        BY <1>8, <3>2
      <4>2. old \in Positions /\ CastOf(old, v) /\ old # p /\ old \in Nat
        BY <4>1, ChainElements DEF VotesInvariant, VotesAreCast, CastOf, IsCast, Stored
      <4>3. \A q \in Positions : CastOf(q, v) => q <= old \/ Due(c, q)
        BY <4>1 DEF StoreFacts, VoteFact, LastVote
      <4>4. CASE old > p
        BY <1>7, <4>2, <4>4 DEF CastOf, IsCast, VoteEvents
      <4>5. CASE old < p
        <5>1. old \in before
          BY <4>2, <4>5
        <5>2. CASE \A q \in before : q <= old
          BY <5>1, <5>2 DEF Latest
        <5>3. ASSUME NEW q \in before, ~(q <= old)
              PROVE  \E o \in Positions : CastOf(o, v) /\ o # p /\ Due(c, o)'
          <6>1. Due(c, q) /\ q # p /\ IsCast(q)
            BY <1>2, <4>3, <5>3 DEF CastOf
          <6>. QED BY <1>6, <6>1
        <5>. QED BY <5>2, <5>3
      <4>6. old > p \/ old < p
        BY <1>2, <4>2
      <4>. QED BY <4>4, <4>5, <4>6
    <3>. QED BY <3>1, <3>2
  <2>3. /\ Positions' = Positions /\ \A q : CastOf(q, v)' <=> CastOf(q, v)
    BY <1>2 DEF Positions, CastOf, IsCast
  <2>4. {q \in Positions' : CastOf(q, v)' /\ q < p} = before
    BY <2>3
  <2>. HIDE DEF before
  <2>5. \/ Latest(old, {q \in Positions' : CastOf(q, v)' /\ q < p})
        \/ \E q \in Positions' : CastOf(q, v)' /\ q # p /\ Due(c, q)'
    BY <2>2, <2>3, <2>4
  <2>6. \A q \in Positions' : CastOf(q, v)' => q <= p \/ Due(c, q)'
    BY <2>1, <2>3
  <2>. QED BY <1>3, <2>5, <2>6 DEF LastVote, Latest, CastOf, IsCast
<1>10. Overridden(c, s)'
  <2>1. \A o \in Where("override", v) : p < o => Due(c, o)'
    BY <1>4, <1>7 DEF Is, VoteEvents
  <2>. QED BY <1>3, <1>5, <2>1 DEF Overridden
<1>11. Objected(c, s)'
  <2>1. ASSUME NEW q \in Where("objection", v) PROVE Due(c, q)'
    <3>1. q \in Positions /\ q \in Nat /\ Is(q, "objection") /\ SameVoter(p, q)
      BY <1>4
    <3>2. kind = "objection" /\ q > 1 /\ Is(q - 1, "vote") /\ SameVoter(q - 1, q)
      BY <3>1 DEF ChainFacts, ObjectionsAreVotes
    <3>3. Is(p, "vote")
      BY <1>2, <3>2 DEF IsCast, Is, VotesInvariant, PluginEvents
    <3>4. q - 1 \in Positions /\ SameVoter(p, q - 1)
      BY <3>1, <3>2, LenProperties DEF Positions, SameVoter, VotesInvariant, TypeOK
    <3>5. q - 1 = p
      BY <1>2, <3>2, <3>3, <3>4 DEF ChainFacts, ObjectionsAreVotes
    <3>. QED BY <1>2, <1>7, <3>1, <3>5 DEF Is, VoteEvents
  <2>. QED BY <1>3, <1>5, <2>1 DEF Objected
<1>12. Cleared(c, s)'
  <2>1. ASSUME ~Recast(v), NEW d \in Where("clear", v) PROVE Due(c, d)'
    <3>1. d \in Positions /\ d \in Nat /\ Is(d, "clear")
      BY <1>4
    <3>2. Is(p, "vote")
      <4>1. kind = "token"
        BY <3>1 DEF ChainFacts, ClearsFollowVotes
      <4>. QED BY <1>2, <4>1 DEF IsCast, Is, VotesInvariant, PluginEvents
    <3>3. p \in Where("vote", v)
      BY <1>1, <1>2, <3>2 DEF Where, Is
    <3>4. ~(d < p) /\ d # p
      BY <2>1, <3>1, <3>2, <3>3 DEF Recast, Is
    <3>. QED BY <1>2, <1>7, <3>1, <3>4 DEF Is, VoteEvents
  <2>2. Recast(v)' <=> Recast(v)
    BY <1>5 DEF Recast
  <2>. QED BY <1>3, <1>5, <2>1, <2>2 DEF Cleared
<1>. QED BY <1>9, <1>10, <1>11, <1>12 DEF VoteFact

\* After the transaction the store is the chain's, but for what is still due.
LEMMA WriteKeepsStore ==
    ASSUME VotesInvariant, VotesInvariant', ReadsHold, OneVotePerVoter, OneVotePerVoter',
           HandlersHaveRead, NEW c, ChainFacts(c), StoreFacts(c), NEW k \in Crawlers, WriteVote(k)
    PROVE  StoreFacts(c)'
<1>1. PICK p, v : p = Current(k) /\ v = chain[p].who
  OBVIOUS
<1>2. /\ p \in Positions /\ UNCHANGED <<chain, proposal>> /\ chain[p].kind \in VoteEvents
      /\ Positions' = Positions
  BY <1>1, WrittenVotes DEF WriteVote, Positions
<1>3. CrawlersAt(c)'
  BY <1>1, WriteCrawlersAt
<1>4. \A q \in Positions : Due(c, q) /\ q # p /\ chain[q].kind \notin Updates => Due(c, q)'
  BY <1>1, WriteDue
<1>5. CastsAreKept(c)'
  <2>. SUFFICES ASSUME NEW q \in Positions, IsCast(q) PROVE Due(c, q)' \/ \E r \in votes' : r.who = chain[q].who
    BY <1>2 DEF CastsAreKept, IsCast
  <2>1. CASE q = p
    BY <1>1, <2>1, WriteDeletes
  <2>2. CASE q # p
    <3>1. Due(c, q) \/ \E r \in votes : r.who = chain[q].who
      BY DEF StoreFacts, CastsAreKept
    <3>2. (\E r \in votes : r.who = chain[q].who) => \E r \in votes' : r.who = chain[q].who
      BY WriteDeletes
    <3>. QED BY <1>4, <2>2, <3>1, <3>2 DEF IsCast, Updates
  <2>. QED BY <2>1, <2>2
<1>6. ASSUME NEW r \in votes, r \in votes', r.who # v \/ (Deleted = {} /\ r.pos = p /\ IsCast(p))
                                                     \/ (Deleted = {} /\ ~Waits(k, p))
      PROVE  VoteFact(c, r)'
  <2>1. VoteFact(c, r)
    BY DEF StoreFacts
  <2>2. \A q \in Positions : Due(c, q) /\ q # p /\ chain[q].who = r.who => Due(c, q)'
    BY <1>1, <1>6, WriteDue
  <2>3. Deleted = {} /\ ~Waits(k, p) => (Due(c, p) => Due(c, p)')
    BY <1>1, <1>2, WriteDue
  <2>. QED BY <1>1, <1>2, <1>6, <2>1, <2>2, <2>3, VoteStays
<1>7. ASSUME NEW s \in votes' PROVE VoteFact(c, s)'
  <2>1. CASE IsCast(p) /\ Stored(p)
    <3>1. votes' = votes /\ Deleted = {}
      BY <1>1, <2>1, WrittenVotes DEF IsCast, Deleted
    <3>2. PICK r \in votes : r.pos = p /\ r.who = v
      BY <1>1, <2>1 DEF Stored, VotesInvariant, VotesAreCast
    <3>3. s.who = v => s = r
      BY <3>1, <3>2 DEF OneVotePerVoter
    <3>. QED BY <1>6, <2>1, <3>1, <3>2, <3>3
  <2>2. CASE IsCast(p) /\ ~Stored(p)
    <3>. DEFINE old == IF Is(p, "vote") THEN crawler[k].found ELSE 0
    <3>1. PICK new : /\ NewVote(new, v, p, old) /\ new \in votes'
                     /\ \A r \in votes' : r = new \/ r \in votes
      BY <1>1, <2>2, WrittenVotes DEF IsCast, Is
    <3>. HIDE DEF old
    <3>2. VoteFact(c, new)'
      BY <1>1, <2>2, <3>1, CastKeepsFact DEF old
    <3>3. new.who = v
      BY <3>1 DEF NewVote
    <3>4. s.who = v => s = new
      BY <3>1, <3>3 DEF OneVotePerVoter
    <3>. QED BY <1>6, <3>1, <3>2, <3>4
  <2>3. CASE ~IsCast(p)
    <3>1. chain[p].kind \in Updates /\ Deleted = {}
      BY <1>1, <1>2, <2>3, WriteDeletes DEF IsCast, VoteEvents, Updates
    <3>2. PICK r \in votes : IF ~crawler[k].gone /\ r.pos = crawler[k].found THEN SetBy(s, r, p) ELSE s = r
      BY <1>1, <3>1, WrittenVotes
    <3>3. CASE crawler[k].gone
      <4>1. s = r /\ ~Waits(k, p)
        BY <1>1, <3>1, <3>2, <3>3 DEF Waits
      <4>. QED BY <1>6, <3>1, <4>1
    <3>4. CASE ~crawler[k].gone
      <4>1. PICK o \in votes : o.who = v /\ o.pos = crawler[k].found
        <5>1. AtEvent(k, "write", Updates)
          BY <1>1, <1>2, <3>1, WrittenVotes DEF AtEvent, At
        <5>. QED BY <1>1, <3>4, <5>1 DEF StoreFacts, CrawlersAt
      <4>2. CASE r.who = v
        <5>1. r = o
          BY <4>1, <4>2 DEF OneVotePerVoter
        <5>. QED BY <1>1, <3>1, <3>2, <3>4, <4>1, <5>1, UpdateKeepsFact
      <4>3. CASE r.who # v
        <5>1. r.pos # crawler[k].found
          BY <4>1, <4>3 DEF VotesInvariant, VotesAreCast
        <5>. QED BY <1>6, <3>2, <4>3, <5>1
      <4>. QED BY <4>2, <4>3
    <3>. QED BY <3>3, <3>4
  <2>. QED BY <2>1, <2>2, <2>3
<1>8. ProposalFacts(c)'
  <2>1. \A j \in {"execute", "cancel", "edit"} : \A q \in Where(j, NoOne) :
            q \in Positions /\ q # p /\ chain[q].kind \notin Updates
    BY <1>2 DEF Where, VoteEvents, Updates
  <2>2. \A j \in {"execute", "cancel", "edit"} : \A q \in Where(j, NoOne) : Due(c, q) => Due(c, q)'
    BY <1>4, <2>1
  <2>. QED BY <1>2, <2>2, ProposalStays DEF StoreFacts
<1>. QED BY <1>3, <1>5, <1>7, <1>8 DEF StoreFacts

-----------------------------------------------------------------------------
(* The store once the crawlers have caught up *)

\* Until a handler fails, two votes of one voter race or a crawler skips an event,
\* the store is the chain's but for what is still due.
StoreInvariant ==
    CountedInvariant /\ \E c \in Positions : ChainFacts(c) /\ (trouble = {} => StoreFacts(c))

\* Before anything is handled nothing is stored, and all is due.
LEMMA InitEstablishesStore ==
    ASSUME Init, NEW c, ChainFacts(c)
    PROVE  StoreFacts(c)
<1>1. /\ votes = {} /\ c \in Nat /\ c >= 1
      /\ ~proposal.exists /\ proposal.executed = 0 /\ proposal.canceled = 0 /\ proposal.edited = 0
      /\ \A q \in Positions : q \in Nat /\ q >= 1
  <2>1. c \in Positions /\ VotesInvariant
    BY InitEstablishesInvariant DEF ChainFacts, CreatedAt
  <2>2. \A q \in Positions : q \in Nat /\ q >= 1
    BY <2>1, ChainElements DEF Positions
  <2>. QED BY <2>1, <2>2 DEF Init
<1>2. \A k \in Crawlers : /\ crawler[k].next = 1 /\ crawler[k].redrive = {} /\ crawler[k].step = "idle"
                          /\ crawler[k].found = 0 /\ ~crawler[k].gone
  BY DEF Init, From
<1>3. \A q \in Positions : Due(c, q)
  <2>1. PICK k \in Crawlers : TRUE
    BY ProposalsAssumption
  <2>. QED BY <1>1, <1>2, <2>1 DEF Due, Waits
<1>4. CrawlersAt(c) /\ CastsAreKept(c) /\ \A r \in votes : VoteFact(c, r)
  BY <1>1, <1>2, <1>3 DEF CrawlersAt, CastsAreKept, AtEvent, At
<1>5. ProposalFacts(c)
  <2>1. \A j : \A q \in Where(j, NoOne) : Due(c, q)
    BY <1>3 DEF Where
  <2>. QED BY <1>1, <2>1 DEF ProposalFacts, Latest
<1>. QED BY <1>4, <1>5 DEF StoreFacts

\* Steps of the metrics service.
LEMMA UnchangedStore ==
    ASSUME VotesInvariant, NEW c, StoreFacts(c), UNCHANGED <<chain, crawler, proposal, votes>>
    PROVE  StoreFacts(c)'
<1>1. \A q : Due(c, q)' <=> Due(c, q)
  BY DEF Due, Waits, Current
<1>2. CrawlersAt(c)'
  BY DEF StoreFacts, CrawlersAt, AtEvent, At, Current, Positions
<1>. QED BY <1>1, <1>2, FactsStay DEF StoreFacts

\* Trouble is never forgotten.
LEMMA TroubleStays ==
    ASSUME [Next]_vars, trouble' = {}
    PROVE  trouble = {}
<1>1. trouble \subseteq trouble'
  BY Steps
  DEF vars, faults, counts, ChainVotes, ChainObjects, ChainClears, ChainApproves, ChainOverrides, ChainDecides,
      Emit, WriteVote, IgnoreVote, FindLog, FindVote, FindProposal, ProposalCreated, ProposalExecuted,
      ProposalUpdated, HandlerFails, CreateFailsHalfway, Lost, SendMessage, SendFails, Crash,
      StartMetrics, RetryMetrics, FinishMetrics, MetricsFail, DropDuplicate
<1>. QED BY <1>1

\* Every step keeps the store the chain's but for what is due, or is trouble.
LEMMA StepKeepsStore ==
    ASSUME CountedInvariant, VotesInvariant', NEW c, ChainFacts(c), StoreFacts(c), [Next]_vars,
           trouble = {}, trouble' = {}
    PROVE  StoreFacts(c)'
<1>1. /\ VotesInvariant /\ ProposalType /\ HandlersHaveRead /\ ReadsHold /\ OneVotePerVoter
      /\ OneVotePerVoter'
  BY DEF CountedInvariant, VotesInvariant
<1>2. CASE UNCHANGED vars \/ StartMetrics \/ RetryMetrics \/ FinishMetrics \/ MetricsFail \/ DropDuplicate
  <2>1. UNCHANGED <<chain, crawler, proposal, votes>>
    BY <1>2 DEF vars, StartMetrics, RetryMetrics, FinishMetrics, MetricsFail, DropDuplicate
  <2>. QED BY <1>1, <2>1, UnchangedStore
<1>3. CASE \/ \E v \in Voters : ChainVotes(v) \/ ChainObjects(v) \/ ChainClears(v) \/ ChainApproves(v)
           \/ \E v, d \in Voters : ChainOverrides(v, d)
           \/ \E k \in {"execute", "cancel", "edit"} : ChainDecides(k)
  <2>1. \E events : LaterTx(events) /\ Emit(events)
    BY <1>1, <1>3, ContractKeepsChainFacts
  <2>. QED BY <1>1, <2>1, EmitKeepsStore
<1>4. ASSUME NEW k \in Crawlers, HandlerFails(k) \/ CreateFailsHalfway(k) PROVE FALSE
  BY <1>4 DEF HandlerFails, CreateFailsHalfway, Lost
<1>5. ASSUME NEW k \in Crawlers,
             \/ IgnoreVote(k) \/ FindLog(k) \/ FindVote(k)
             \/ FindProposal(k) \/ ProposalCreated(k) \/ ProposalExecuted(k) \/ ProposalUpdated(k)
             \/ SendMessage(k) \/ SendFails(k) \/ Crash(k) \/ WriteVote(k)
      PROVE  StoreFacts(c)'
  BY <1>1, <1>5, IgnoreKeepsStore, ReadsKeepStore, CreateKeepsStore, ExecutedKeepsStore,
     UpdatedKeepsStore, SendKeepsStore, CrashKeepsStore, WriteKeepsStore
<1>. QED BY <1>2, <1>3, <1>4, <1>5, Steps

LEMMA StoreInvariantHolds == Spec => []StoreInvariant
<1>1. Init => StoreInvariant \/ ~CountedInvariant
  BY InitEstablishesChainFacts, InitEstablishesStore DEF StoreInvariant
<1>2. StoreInvariant /\ CountedInvariant' /\ [Next]_vars => StoreInvariant'
  <2>. SUFFICES ASSUME StoreInvariant, CountedInvariant', [Next]_vars PROVE StoreInvariant'
    OBVIOUS
  <2>1. PICK c \in Positions : ChainFacts(c) /\ (trouble = {} => StoreFacts(c))
    BY DEF StoreInvariant
  <2>2. CountedInvariant /\ VotesInvariant /\ VotesInvariant'
    BY DEF StoreInvariant, CountedInvariant
  <2>3. ChainFacts(c)'
    BY <2>1, <2>2, ContractKeepsChainFacts, OtherStepsKeepChainFacts, Steps
  <2>4. trouble' = {} => StoreFacts(c)'
    BY <2>1, <2>2, TroubleStays, StepKeepsStore
  <2>. QED BY <2>3, <2>4 DEF StoreInvariant, ChainFacts, CreatedAt
<1>. QED BY <1>1, <1>2, CountedInvariantHolds, PTL DEF Spec

Casts(v) == Where("vote", v) \cup Where("approve", v)
After(k, v, p) == {q \in Where(k, v) : q > p}

\* The vote of a voter, when nothing is due.
LEMMA NothingDue ==
    ASSUME VotesInvariant, NEW c, ChainFacts(c), StoreFacts(c), \A q \in Positions : ~Due(c, q),
           NEW r \in votes, NEW v, r.who = v
    PROVE  /\ r.pos = LastOf(Casts(v)) /\ r.replaced = LastOf(Casts(v) \ {r.pos})
           /\ r.over = LastOf(After("override", v, r.pos))
           /\ r.source = LastOf(After("objection", v, r.pos))
           /\ Recast(v) \/ r.cleared = LastOf(After("clear", v, r.pos))
<1>. DEFINE n == Len(chain)
            cast == Casts(v)
            after(k) == {p \in Where(k, v) : p > r.pos}
<1>1. n \in Nat /\ Positions = 1 .. n /\ \A q \in Positions : q \in Nat /\ q # 0
  BY LenProperties DEF VotesInvariant, TypeOK, Positions
<1>2. \A k : /\ Where(k, v) \in SUBSET (1 .. n)
             /\ \A q \in Where(k, v) : q \in Positions /\ Is(q, k) /\ chain[q].who = v
  BY <1>1 DEF Where, Is
<1>3. /\ \A q : q \in cast <=> q \in Positions /\ CastOf(q, v)
      /\ cast \in SUBSET (1 .. n)
  BY <1>2 DEF Where, CastOf, IsCast, Casts
<1>4. VoteFact(c, r) /\ r.pos \in cast /\ r.pos \in Positions
  BY <1>3 DEF StoreFacts, VotesInvariant, VotesAreCast, CastOf, IsCast
<1>. HIDE DEF n
<1>5. \A k : after(k) \in SUBSET (1 .. n)
  BY <1>2
<1>6. \A q \in cast : q <= r.pos
  BY <1>3, <1>4 DEF VoteFact, LastVote
<1>7. r.pos = LastOf(cast)
  <2>1. Latest(r.pos, cast)
    BY <1>4, <1>6 DEF Latest
  <2>. QED BY <1>1, <1>3, <2>1, LatestIsLast
<1>8. r.replaced = LastOf(cast \ {r.pos})
  <2>1. {q \in Positions : CastOf(q, v) /\ q < r.pos} = cast \ {r.pos}
    BY <1>1, <1>3, <1>4, <1>6
  <2>2. Latest(r.replaced, cast \ {r.pos})
    BY <1>4, <2>1 DEF VoteFact, LastVote
  <2>3. cast \ {r.pos} \in SUBSET (1 .. n)
    BY <1>3
  <2>. QED BY <1>1, <2>2, <2>3, LatestIsLast
<1>9. r.over = LastOf(after("override"))
  <2>1. r.over = 0 \/ r.over \in after("override")
    BY <1>4 DEF VoteFact, Overridden
  <2>2. \A o \in after("override") : o <= r.over /\ o # 0 /\ o \in Nat
    BY <1>1, <1>2, <1>4 DEF VoteFact, Overridden
  <2>3. Latest(r.over, after("override"))
    BY <2>1, <2>2 DEF Latest
  <2>. QED BY <1>1, <1>5, <2>3, LatestIsLast
<1>10. r.source = LastOf(after("objection"))
  <2>1. ASSUME NEW x \in Where("objection", v) PROVE x > r.pos
    <3>1. x \in Positions /\ Is(x, "objection") /\ chain[x].who = v
      BY <1>2
    <3>2. kind = "objection" /\ x > 1 /\ Is(x - 1, "vote") /\ chain[x - 1].who = v
      BY <3>1 DEF ChainFacts, ObjectionsAreVotes, SameVoter
    <3>3. Is(r.pos, "vote") /\ chain[r.pos].who = v
      BY <1>3, <1>4, <3>2 DEF VotesInvariant, PluginEvents, CastOf, IsCast, Is
    <3>4. x - 1 \in Positions
      BY <1>1, <3>1, <3>2
    <3>5. x - 1 = r.pos
      BY <1>4, <3>2, <3>3, <3>4 DEF ChainFacts, ObjectionsAreVotes, SameVoter
    <3>. QED BY <1>1, <3>1, <3>5
  <2>2. r.source = 0 \/ r.source \in after("objection")
    BY <1>4, <2>1 DEF VoteFact, Objected
  <2>3. \A x \in after("objection") : r.source = x /\ x <= x
    BY <1>1, <1>2, <1>4 DEF VoteFact, Objected
  <2>4. \A x \in after("objection") : x # 0
    BY <1>1, <1>2
  <2>5. Latest(r.source, after("objection"))
    BY <2>2, <2>3, <2>4 DEF Latest
  <2>. QED BY <1>1, <1>5, <2>5, LatestIsLast
<1>11. ASSUME ~Recast(v) PROVE r.cleared = LastOf(after("clear"))
  <2>1. ASSUME NEW x \in Where("clear", v) PROVE x > r.pos
    <3>1. x \in Positions /\ Is(x, "clear") /\ kind = "token"
      BY <1>2 DEF ChainFacts, ClearsFollowVotes
    <3>2. Is(r.pos, "vote")
      BY <1>3, <1>4, <3>1 DEF VotesInvariant, PluginEvents, CastOf, IsCast, Is
    <3>3. r.pos \in Where("vote", v)
      BY <1>3, <1>4, <3>2 DEF Where, CastOf, Is
    <3>4. ~(x < r.pos) /\ x # r.pos
      BY <1>11, <3>1, <3>2, <3>3 DEF Recast, Is
    <3>. QED BY <1>1, <1>4, <3>1, <3>4
  <2>2. r.cleared = 0 \/ r.cleared \in after("clear")
    BY <1>4, <1>11, <2>1 DEF VoteFact, Cleared
  <2>3. \A x \in after("clear") : r.cleared = x /\ x <= x
    BY <1>1, <1>2, <1>4, <1>11 DEF VoteFact, Cleared
  <2>4. \A x \in after("clear") : x # 0
    BY <1>1, <1>2
  <2>5. Latest(r.cleared, after("clear"))
    BY <2>2, <2>3, <2>4 DEF Latest
  <2>. QED BY <1>1, <1>5, <2>5, LatestIsLast
<1>. QED BY <1>7, <1>8, <1>9, <1>10, <1>11 DEF After

\* Once every crawler has caught up, what is stored is what the chain's events
\* amount to: each voter's last vote with the one it replaced, its overrides,
\* objection and clearing, and the proposal with its execution, cancellation and
\* last edit; however the steps of the handlers of proposalHandler.ts and
\* multisig.ts interleave, and however often crawlers go over the same logs.  It
\* is so unless a handler failed, two votes of one voter raced or a crawler
\* skipped what it was going over, and but for the clearing of a recast vote.
THEOREM StoreIsTheChains == Spec => []StoreFollowsTheChain
<1>1. StoreInvariant => StoreFollowsTheChain
  <2>. SUFFICES ASSUME StoreInvariant, CaughtUp, trouble = {}
                PROVE  /\ \A v \in Voters : \/ Mine(v) = Expected(v)
                                            \/ Recast(v) /\ Uncleared(Mine(v)) = Uncleared(Expected(v))
                       /\ proposal = [exists |-> TRUE, executed |-> LastOf(Where("execute", NoOne)),
                                      canceled |-> LastOf(Where("cancel", NoOne)),
                                      edited |-> LastOf(Where("edit", NoOne))]
    BY DEF StoreFollowsTheChain
  <2>0. VotesInvariant /\ ProposalType /\ OneVotePerVoter
    BY DEF StoreInvariant, CountedInvariant, VotesInvariant
  <2>1. PICK c \in Positions : ChainFacts(c) /\ StoreFacts(c)
    BY DEF StoreInvariant
  <2>. DEFINE n == Len(chain)
  <2>2. /\ n \in Nat /\ Positions = 1 .. n /\ c \in Nat /\ c <= n
        /\ \A k \in Crawlers : crawler[k].next \in Nat /\ crawler[k].next > n /\ crawler[k].redrive = {}
    BY <2>0, LenProperties DEF VotesInvariant, TypeOK, CrawlerStates, CaughtUp, Positions
  <2>3. proposal.exists
    <3>1. PICK k \in Crawlers : TRUE
      BY ProposalsAssumption
    <3>. QED BY <2>1, <2>2, <3>1 DEF StoreFacts, CrawlersAt
  <2>4. \A q \in Positions : ~Due(c, q)
    BY <2>2, <2>3 DEF Due, Waits
  <2>5. \A k, w : Where(k, w) \in SUBSET (1 .. n) /\ \A q \in Where(k, w) : q \in Positions /\ ~Due(c, q)
    BY <2>2, <2>4 DEF Where
  <2>6. /\ proposal.executed = LastOf(Where("execute", NoOne))
        /\ proposal.canceled = LastOf(Where("cancel", NoOne))
        /\ proposal.edited = LastOf(Where("edit", NoOne))
    <3>1. \A k, w : \A q \in Where(k, w) : q <= q /\ q # 0
      BY <2>2, <2>5
    <3>2. Latest(proposal.executed, Where("execute", NoOne))
      BY <2>1, <2>5, <3>1, Zenon DEF StoreFacts, ProposalFacts, Latest
    <3>3. Latest(proposal.canceled, Where("cancel", NoOne))
      BY <2>1, <2>5, <3>1, Zenon DEF StoreFacts, ProposalFacts, Latest
    <3>4. Latest(proposal.edited, Where("edit", NoOne))
      BY <2>1, <2>5, Zenon DEF StoreFacts, ProposalFacts
    <3>. QED BY <2>2, <2>5, <3>2, <3>3, <3>4, LatestIsLast
  <2>7. proposal = [exists |-> TRUE, executed |-> LastOf(Where("execute", NoOne)),
                    canceled |-> LastOf(Where("cancel", NoOne)), edited |-> LastOf(Where("edit", NoOne))]
    BY <2>0, <2>3, <2>6 DEF ProposalType
  <2>8. ASSUME NEW v \in Voters
        PROVE  Mine(v) = Expected(v) \/ (Recast(v) /\ Uncleared(Mine(v)) = Uncleared(Expected(v)))
    <3>1. CASE Mine(v) = {}
      <4>1. Casts(v) = {}
        <5>1. ASSUME NEW q \in Casts(v) PROVE FALSE
          <6>1. q \in Positions /\ IsCast(q) /\ chain[q].who = v
            BY DEF Casts, Where, IsCast
          <6>. QED BY <2>1, <2>4, <3>1, <6>1 DEF StoreFacts, CastsAreKept, Mine
        <5>. QED BY <5>1
      <4>. QED BY <3>1, <4>1 DEF Expected, Casts
    <3>2. ASSUME NEW r \in Mine(v)
          PROVE  Mine(v) = Expected(v) \/ (Recast(v) /\ Uncleared(Mine(v)) = Uncleared(Expected(v)))
      <4>1. Mine(v) = {r} /\ r \in votes /\ r.who = v /\ r \in VoteRecords
        BY <2>0 DEF Mine, OneVotePerVoter, VotesInvariant, TypeOK
      <4>2. Casts(v) # {}
        BY <2>0, <4>1 DEF VotesInvariant, VotesAreCast, Casts, Where
      <4>. DEFINE last == LastOf(After("clear", v, r.pos))
                  e == [who |-> v, pos |-> r.pos, replaced |-> r.replaced, over |-> r.over,
                        source |-> r.source, cleared |-> last]
      <4>3. /\ r.pos = LastOf(Casts(v)) /\ r.replaced = LastOf(Casts(v) \ {r.pos})
            /\ r.over = LastOf(After("override", v, r.pos))
            /\ r.source = LastOf(After("objection", v, r.pos))
            /\ Recast(v) \/ r.cleared = last
        BY <2>0, <2>1, <2>4, <4>1, NothingDue
      <4>4. Expected(v) = {e}
        BY <4>2, <4>3 DEF Expected, Casts, After
      <4>. HIDE DEF last
      <4>5. r = [e EXCEPT !.cleared = r.cleared] /\ [r EXCEPT !.cleared = 0] = [e EXCEPT !.cleared = 0]
        BY <4>1 DEF VoteRecords
      <4>6. Uncleared(Mine(v)) = Uncleared(Expected(v))
        BY <4>1, <4>4, <4>5 DEF Uncleared
      <4>7. r.cleared = last => r = e
        BY <4>1 DEF VoteRecords
      <4>. QED BY <4>1, <4>3, <4>4, <4>6, <4>7
    <3>. QED BY <3>1, <3>2
  <2>. QED BY <2>7, <2>8
<1>. QED BY <1>1, StoreInvariantHolds, PTL

=============================================================================
