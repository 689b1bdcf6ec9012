# Copernica: a TLA+ verification project

Copernica is a content-centric network in Rust. Programs (*protocols*) ask for
data by name; *brokers* pass requests on to other links and responses back to
whoever asked; *links* carry packets between the two over some transport. This
project models the core of it in TLA+, checks the models with TLC and proves
theorems about them with TLAPS.

Paths below are relative to the repository.

## 1. Inventory

| component | state | operations | interacts with |
|---|---|---|---|
| **Broker** `copernica-broker/src/broker.rs` | `blooms` and `b2l` (a channel per lookup id); bounded channels `l2b`, `r2b` and one `b2l` per link (25 packets each) | `peer_with_link`, `run`; a *router thread* and a *delivery thread* | links through `l2b` and `b2l`; the threads through `r2b` |
| **Router** `copernica-broker/src/router.rs` | none: it works on the tables the router thread lends it | `handle_packet` | Blooms, Bayes, the response store |
| **Blooms** `copernica-broker/src/bloom_filter.rs` | per link two LRU caches ("Pheromones") of 250 names: pending requests and forwarded requests | create, contains (which also touches) | Router |
| **Bayes** `copernica-broker/src/bayes.rs` | how often each link, and the class *choke*, was trained, in all and per name | `add_link`, `train`, `super_train`, `classify` | Router |
| **TxRx** `copernica-protocols/src/txrx.rs` | five response channels, each with a mutex; a map of incomplete responses shared by clones | `next`, `respond`, five `*_request` calls built on `send_and_receive`, `process_aimd`, `reconstruct_responses` | links through `p2l`/`l2p`; the protocol's thread feeds the response channels |
| **Echo** `copernica-protocols/src/echo.rs` | a TxRx | `run` (dispatch thread), ten ping functions | TxRx |
| **Links** `copernica-links/src` | transport ends | `run`: an inbound and an outbound thread; Reed-Solomon coding | broker or protocol channels; the transport |
| **Names, identities, wire format** `copernica-common/src` | none | serialisation, dispatch on length, encryption | links |
| **Operations** `copernica-common/src/operations.rs` | a log of entries | `message_from`, `found_response_upstream`, ... | every thread logs; the tests compare the log |
| **Test network** `copernica-tests/src/network.rs` | two brokers, six links, two protocols | `ping_pong` | all of the above |
| **Monitor, sentinel, services** | a visualiser; an LED; commented-out code | | nobody depends on them |

What is hard about it:

* *Memory that forgets.* A router's knowledge of who asked and who was asked is
  in LRU caches; every frame and every retry inserts a duplicate, every lookup
  reorders the cache, and an interest is never removed except by eviction. So a
  response may find too many takers, or none.
* *Threads and bounded channels.* A packet passes three bounded channels and
  two threads. All sends block, and one thread serves all links.
* *Copies.* `run()` copies the broker's tables: the delivery thread does not
  see links peered later, and the response store is cloned for every call and
  thrown away.
* *Two names for one link.* A LinkId contains the `reply_to` of the last packet,
  so one link appears to the router under several LinkIds.
* *Learning.* Requests train the classifier towards the choke before it is
  decided whether they are forwarded; in the end requests are dropped, for what
  became of the same name or, if the name is new, of all the others.
* *Loss, repetition and timeouts* in TxRx: workers that outlive their call,
  duplicates counted as progress, concurrent calls that share a map.
* *Rings of blocking channels.* Requests and responses share the channels of
  each direction, and a dispatch thread that blocks on a send takes nothing in.
* *Silent ends.* A frame that cannot be decoded ends the inbound thread of a
  link, and nothing else notices.
* *Sizes instead of tags.* A packet is told from another by its length alone,
  and sizes travel in fields of one and two bytes.

PROJECT.json lists these hazards, each at its line, with the property that
covers it.

What makes the components correct:

* Router and broker: a response goes only to links that asked, and was requested
  of a link with another identity; a request is not reflected to its asker; the
  newest interest of each link is not forgotten; nothing is lost, repeated or
  overtaken between the decision and the link; the channels drain.
* Bayes: links that answer come first; a request is dropped only when requests
  outweigh links and answers; a name that is dropped at a later request than its
  first stays dropped while it is the only one asked for and nothing is answered.
* TxRx: a call that returns has every frame it asked for, in order; what it
  returns belongs to the name it asked for; timeouts do not corrupt later calls.
* Echo: a response comes to the workers that wait for it; threads wait for each
  other for good only when nothing can be done about it.
* Links: what is decoded was encoded by the peer; errors within the code's reach
  are corrected; a link of channels loses and reorders nothing.
* Wire format: packets of different kinds have different lengths; data survives
  the padding.

## 2. Modules

Written in this order; each builds on the ones before it.

| module | models |
|---|---|
| `Pheromone` | the LRU cache (crate uluru, external) as a sequence, newest first |
| `Bayes` | the classifier: its two tables, exact scores, rankings |
| `Router` | `handle_packet`: one operator per branch, over a record of the router thread's tables |
| `RouterCalls` | successive calls of `handle_packet`, no channels: long histories |
| `InterestForwarding` | the abstract specification of a broker: who may be sent what, and a FIFO queue per link |
| `Broker` | links, channels, both threads, peering, late peering, links that stop |
| `BrokerProperties` | the broker's invariants and action properties, and the refinement mapping to `InterestForwarding` |
| `MCBroker`, `MCRouterCalls` | the instances for TLC |
| `Queues` | the part of a queue that is of some kind, as a recursive function; used where properties count |
| `FoldProofs` | induction, and the lemmas it gives on parts of queues and on sums over finite sets |
| `RouterProofs` | lemmas on caches, orders of links, and the tables of a router |
| `RouterCallsProofs` | the theorems on long histories of a router |
| `BrokerProofs` | the theorems on the broker, its refinement among them |
| `TxRx` | request calls with their windows, workers and timeouts, over a network that loses, repeats and reorders |
| `TxRxProperties` | invariants and liveness of the calls |
| `TxRxRequests` | the calls with a count of the requests each of them sends for each frame |
| `MCTxRx`, `MCTxRxRequests` | the instances for TLC |
| `TxRxProofs` | the theorems on the calls |
| `WireFormat` | what is written on a transport and how it is read: sizes, offsets, trailers, dispatch on lengths |
| `Link` | one direction of a link: outbound thread, transport, the inbound threads at the other end; uses `WireFormat` |
| `LinkProperties`, `MCLink` | what a link delivers; eight set-ups of it |
| `LinkProofs` | the theorems on what is written and read, and on what a link delivers |
| `Echo` | two protocols joined by links: callers, workers, dispatch threads and the bounded channels between them |
| `EchoProperties`, `MCEcho` | routing of responses, and who may wait for whom; the instance for TLC |
| `EchoProofs` | the theorems on the ring of channels |
| `PingPong` | the test network: two instances of `Broker`, the call of `TxRx`, six links, two dispatch threads |
| `PingPongProperties` | what the test expects, the refinement of `TxRx`, and the inductive invariant behind both |
| `PingPongProofs` | the theorems on the test network, its refinement of `TxRx` among them |

The network of `TxRx` alone stands for links, brokers and responder, and allows
more than they do; that it allows all they do is the property
`AnswersEachRequestOnce` of `PingPong`, in which the brokers, the links and the
call are put together.

How state and actions correspond to the code, first of the broker:

* `router.known` is the key set of `blooms` in the router thread,
  `router.pending[l]` and `router.forwarded[l]` the two caches of a link,
  `router.count` and `router.freq` the tables `Links::count` and `BFIs::bfis`.
  A name stands for an HBFI without its frame, which is what both
  `HBFIExcludeFrame` and `to_bfis` compare.
* `out` holds the packets of the current call that are still to be sent.
  `handle_packet` updates tables between sends; as those tables belong to one
  thread, updating them first and sending afterwards is indistinguishable.
* `l2b`, `r2b`, `chan[l]` are the channels; `held` is the packet the delivery
  thread has taken and not delivered; `table` is its copy of `b2l`.
* Weights are compared as integers: the product of the likelihood and the prior
  is scaled by `InvMinProb * Total`. The sort leaves ties in the order of a
  HashSet, so every order of equal weights is allowed. Exactly at the drop
  threshold the code's product may be rounded either way, and the model allows
  both (`MayDeepSix`, `MayPass`).
* Loops over a HashMap send in any order (`SetToSeqs`).
* `history` is written and never read by the actions: who asked for what, who
  was asked for what, and the latest of both.
* The branch `weight < 0.00` of the forwarding loop cannot be taken, no weight is
  negative; it is left out. So are logging and `Operations`.

And of the request calls:

* The five request functions are copies of each other that differ in their
  response channel. `TxRx` has one such channel, and the calls that use it: on
  clones of one TxRx several at a time, else one after the other. Calls ask for
  ranges that are not empty.
* `pending`, `window` and `size` are the local variables of a call. Its phase is
  `ready` at the top of the loop, `waiting` in `recv_timeout`, and `returned` or
  `failed` at the end.
* `worker[c]` is the thread of the last window of call c: `missing` is
  `total - counter`, `returned` and `strays` the two sets of `Data`. A call that
  times out fails, so only the last worker of a call can outlive it. `holder` is
  the worker that has locked the receiver: it keeps the lock while it waits.
* Sets of packets are ordered by frame number alone, and an insertion does not
  replace: `Kept`. Map entries are keyed by frame number, and an insertion does
  replace: `Merged`.
* `wire[p]` counts the requests for p and the responses p under way. A request
  that is lost and a response that is lost look alike to the caller, so the model
  does not tell them apart. `Arrive` is the dispatch thread of the protocol.
* A window is sent in one step: nothing of the call can be observed between its
  sends, and a response that arrives in between waits in the channel.
* `disturbed` is history: calls in progress when their name was registered again.

Of the wire format and the links:

* Bytes are a sequence of fields, each with its size and the one value written
  there. Readers ask for byte offsets, as the code does, and get `Torn` if those
  are not the boundaries of a field. Only numbers are taken apart into bytes:
  name indices, frame numbers, the sizes in the headers and the length of the
  data. The size of a name is taken modulo 2^8 and that of a packet modulo 2^16.
* A cypher text is its plain text and its secret, a tag that of one cypher text, a
  signature its signer and what was signed. `Failed` is both an `Err` and a panic.
* `Link` has the owner's channel (`bs2l`), the packet in the hands of the
  outbound thread (`sending`, with the ends it has still to send it to), a
  channel or a socket per end (`wire`), the inbound threads, which are `running`
  or `over`, and the channels to their owners (`l2bs`). Responses of a set-up are
  made by `respond`, so that what is sent is what a protocol can send.
* A frame knows how many of its bytes are wrong. Up to half the bytes of the
  code they are corrected. Beyond it, decoding fails or yields a frame with one field
  changed. A size that was changed is taken to fail. The corruptor overwrites
  three bytes with zeros, which some of them may have been before.
* A datagram may be lost, repeated, overtaken and garbled. A datagram that would
  not fit the buffer of 1500 bytes fails to decode; the largest packet, of 1409
  bytes, is 1445 bytes with its code.

Of Echo:

* A `way` is one direction between two protocols: the channel to the link, what
  its outbound thread holds, the channel of the transport, what the inbound
  thread holds, and the channel to the other protocol. Each of the five blocks
  only while the next is full, so they are one FIFO queue of
  `3 * BOUNDED_BUFFER_SIZE + 2` places: 77 in the code.
* `hand[p]` is what the dispatch thread of p is about to send: a response to the
  link (`respond`) or to a response channel. `due[c]` counts the responses the
  workers of caller c have still to see. A window is a number of requests, for
  what the frames are is in `TxRx`; the worker starts when the last one is sent.
* The ten ping functions are five in clear and the same five encrypted, and
  encryption decides nothing here. Which channel a response of each kind comes
  through is written down three times in the code, by hand, and so it is here: the
  argument a ping function puts in its name (`Args`), the arm of the dispatch
  thread's match for that argument (`Arms`), and the receiver its request function
  passes to its workers (`Receivers`). A caller has a kind, an identity it asks, and
  a plan of windows. A timeout appears as the next window, which may begin at once.

Of the test network:

* The two instances of `Broker` have their own tables and channels; their peers, the
  delivery thread's copy of the table, and that they run, are those of the test
  from the start. `unsent` holds the frames of a window that are not asked for yet,
  whose requests `TxRx` sends in one step.
* A frame passes 32 places on its way: `unsent`, the channels and hands in which it
  is a request (2 to 17), and those in which it is a response (18 to 32).
  `QueueAt` gives the queue of each; those of the brokers are passed in both
  directions and are two places, told apart by the kind of packet. What is counted
  in all of them is `UnderWay`, the `wire` of `TxRx`.
* The thread of a link, and the dispatch thread of a response, takes a packet
  when it can pass it on. Packets in their hands are in `Link` and `Echo`. Each
  link has one LinkId here. For the datagram link that is so because its broker
  is peered under `link_id4` with the address of the other end, which is
  the LinkId its inbound thread makes of every packet.
* An entry is logged in the step it belongs to. The code logs before it
  sends, so the log runs ahead of the model's by what blocked threads have
  in their hands; the end is logged when the call has returned. The labels
  are the names of the nodes.
* A lost datagram also stands for one that was sent before the thread of the
  other end had bound its socket. Repeated datagrams are left out here (see
  `Link`). Only after a loss does a second pass without an answer.

## 3. Runs

Run a configuration with `tlc -config X.cfg M`, where M is the module given in
PROJECT.json.

| configuration | bounds | checks |
|---|---|---|
| `BrokerThreeLinks` | 3 links, 2 names, caches of 2, channels of 1, 4 arrivals | `IndInv` (the invariant of the proof), `NoUnsolicitedResponse`, `LastAskersAreAnswered` |
| `BrokerReplyTo` | 2 links, one under two LinkIds, 3 arrivals | `NoReflectedRequest`; `ForwardingSafety`, the refinement of `InterestForwarding` |
| `BrokerLiveness` | 3 links, 1 name, 2 arrivals, fairness | `ForwardingLiveness`, `Drains` |
| `BrokerForwardedAgain` | 2 links, 1 name, 2 arrivals | violates `NotForwardedAgain`, see below |
| `RouterLearning` | 3 links, 2 names, threshold 60%, 7 trainings | `IndInv` (the invariant of the proof), `AnsweringLinksFirst`, `DeepSixedAgainUnlessFirst` |
| `RouterStore` | 2 links, 1 name, 3 frames, a store of 2 kept between calls, threshold 90%, 24 trainings | `IndInv` (the invariant of the proof), `RecentResponsesAreServed`, `DeepSixedOnlyIfUnanswered` |
| `TxRxLossy` | 2 calls at a time, 2 names, 3 frames, one loss, one repetition | `IndInv` (the invariant of the proof), `ReturnsAreComplete` |
| `TxRxTimely` | 2 calls in turn, 2 names, 4 frames, two repetitions, no timeouts, fairness | `TimelyCallsReturn`, `EachFrameIsAskedOnce`, `NothingLeftBehind` |
| `TxRxEnds` | 2 calls at a time, 2 names, 3 frames, one loss, fairness | `EveryCallEnds` |
| `LinkSetups` | 8 set-ups, up to 6 packets, channels of 1; one datagram lost, one repeated, one garbled | `TypeOK`, `ReliableInOrder`, `SealedPacketsAreGenuine`, `PayloadsSurvive`, `OnlyNoiseDeafens`, `NoReceiverRunsAhead`, `NothingIsStuck` |
| `EchoRing` | 2 protocols, 7 callers of all five kinds, 6 plans, ways of 2, response channels of 1, one loss, two repetitions, fairness | `IndInv` (the invariant of the proof), `ResponsesReachTheirCallers`, `BlockedOnlyByStrays`, `SmallDemandsAreMet`, `EndsIdleOrFull` |
| `PingPong` | the network of the tests, channels of 1, caches of 4, 4 frames, one loss, 16 arrivals at each broker, fairness | `IndInv` (the invariant of the proof), `LogIsAsExpected`, `AnswersEachRequestOnce`, `PongUnlessLost` |

Why the bounds suffice. Three arrivals are a request, its answer and one packet
that races them; with channels of one place every send can block. To evict a name
from a cache of two and to be answered afterwards takes four. With two links and
the code's threshold of 90% a name is first dropped at its 19th unanswered
request, so 24 trainings pass through the threshold; with 60% that is so at the
fourth, or the sixth once a third link is known, and seven leave room for a retry,
an answer or another name. Both cases of `DeepSixedAgainUnlessFirst` occur: a name
that is dropped after its earlier requests, and one that is dropped at its first
request because of those for the other name.
The minimal probability (1e-9 in the code, `1 / InvMinProb` here) only has to be
smaller than any ratio of counts that occurs. MaxArrivals and MaxTrained bound the
runs, so the broker really comes to a stop in them and deadlock is not checked;
that it does not stop earlier is what `Drains` says.

For TxRx, three frames make a window of one, then one of two, which loss and
strays can leave short and which falls back to one; four, which the ping functions of
Echo ask for, add a window of three that is cut to one. Of two names one is asked for in
two ranges that overlap, so calls meet frames they did not ask for. Two calls at a
time have each other's responses as strays, and one that timed out leaves its
worker to the other. Two repetitions can fill a whole window. Calls
end, so the runs end, and deadlock is not checked: that calls do not get stuck is
`EveryCallEnds` and `TimelyCallsReturn`.

The set-ups of `MCLink` have each kind of link, clear and encrypted, an address of
each size that occurs, both kinds of packet in clear and in cypher text, and
payloads of 0, of few, of `DATA_SIZE` and of one byte more, which is refused.
Frame numbers and indices have bytes of zeros and ones at either end. Two ends
on one link show how they are served; six small packets fill every channel of
length one up to the outbound thread and one more.

In `EchoRing` the ring holds six packets: two ways of two and two hands. The plans ask
for less, for just as much and for more, from one side and from both; one has a
window of eight, wider than the ring with its response channel, and one has two
callers of the same channel, of whom one asks an identity that nobody has. Between
them the plans call the functions of all five kinds, each with its own arm of the
match and its own channel, so that one that disagrees with the others shows. Two
repetitions overflow a response channel of one. With the channels of the code the
ring holds 156, and 26 more wait in and before a response channel.

In `PingPong` four frames go through windows of one, two and one, and each
broker should see four requests and four responses; 16 arrivals would show
any that come twice. A cache of four holds the name once for each frame.

These three systems come to a stop when their plans are done, all is delivered
or the test has ended, so deadlock is not checked: `NothingIsStuck`,
`EndsIdleOrFull` and `PongUnlessLost` say where they may stop.

Links, names and calls are interchangeable where the configuration says
`SYMMETRY`; the liveness runs do not use it.

Fairness. The two threads are loops that block only in `recv` and `send`, hence
weak fairness of `RouteNext`, `SendRouted`, `TakeRouted` and of the send of the
delivery thread (`Deliver` or `FailToDeliver`, whichever the state of the channel
allows). Weak fairness of `LinkTakes` assumes that every link that was peered is
run, or dropped; a link that is peered, kept and never run blocks the broker once
25 packets wait for it. Sending, peering and stopping are not fair.

In `TxRx` a call is weakly fair as a whole, because its thread blocks only in
`recv_timeout`, which ends by a report or by a timeout; so is a worker, and the
arrival of what is not lost. The mutex of the receiver is not fair: a worker may
be overtaken by others as long as they want it. `Timely` takes timeouts away; it
is set in the runs about a network that answers within the second the code
allows.

In `Echo` callers, workers and dispatch threads are weakly fair. `Dispatch`,
`Respond` and `HandOver` are steps of one loop and never enabled together. A
caller's window is over when it was counted or when its second has passed,
so that the next one begins in any case. Losses and repetitions are not fair. In
`PingPong` each thread is weakly fair: the caller, its worker, both dispatch
threads, both threads of each link and of each broker. Losses are not.

What the code does not promise. A call whose name is registered again while it
runs loses the frames it has, and returns short without an error: such calls are
left out of `ReturnsAreComplete` by `disturbed`. Two calls at a time for one name
can count each other's responses and ask again for ever: `EveryCallEnds` leaves
out calls that have a rival. A worker left by a call that timed out takes
responses of later calls until it has seen as many of its own name as it missed.

What the runs show besides.

* Two protocols that call each other can block each other for good: with 156
  packets outstanding, every channel is full and both dispatch threads wait to
  respond. This needs no fault. `EndsIdleOrFull` says that there is no
  other way but a response channel that overflows.
* As the worker of a window starts after the last request was sent, a single
  window of 182 requests never gets out: its first responses fill the response
  channel, and the rest the ring. Windows grow by one at a time, so only a
  request of more than sixteen thousand frames gets there.
* A link with two ends serves them in turn. One that went deaf stops the other
  after the channels are full. An encrypted link is for one end: a second one is
  deafened by the first packet.
* Whether a retry of a dropped request helps depends on when the name was first
  asked for. The choke is trained for a name before it is asked about it. A name the
  classifier has never seen is judged by how often any request was trained (its
  prior), and may be dropped at its first request for what became of others. Now it
  is known, by one request, and the retry is forwarded. A name that was asked for
  before it was dropped is dropped again, for each retry adds to its share.
* The address to reply to, and the sizes in the header, are not under the seal
  of an encrypted link. What is delivered is genuine all the same.
* A lost datagram in the test makes `ping` panic and the test wait for ever.

Finding. `bloom_filter.rs:30-31` says that the forwarded requests of a link are
remembered "so as not to forward the request on the face again". The router does
not read them when it forwards: a repeated request is sent on the same links
again. `BrokerForwardedAgain` shows it.

## 4. Proofs

All of it is proved for every value of the constants that the assumptions of the
modules allow; the runs above check the same properties, and the inductive
invariants, on small instances. Each safety property that a passing run checks is
proved.

| module | theorems |
|---|---|
| `BrokerProofs` | `InvariantTheorem`, `TypeTheorem`, `NoUnsolicitedResponseTheorem`, `NoReflectedRequestTheorem`, `LastAskersAreAnsweredTheorem` (an action property), `ForwardingTheorem` (the refinement) |
| `RouterCallsProofs` | `InvariantTheorem`; the action properties `DeepSixedOnlyIfUnansweredTheorem`, `DeepSixedAgainUnlessFirstTheorem`, `AnsweringLinksFirstTheorem`, `RecentResponsesAreServedTheorem` |
| `TxRxProofs` | `InvariantTheorem`, `ReturnsAreCompleteTheorem`, `EachFrameIsAskedOnceTheorem`, `NothingLeftBehindTheorem` |
| `LinkProofs` | on the wire format: `HbfiRoundTrip`, `DataRoundTrip`, `ExtractInserted`, `NarrowWaistRoundTrip`, `LinkPacketRoundTrip`, `SealedOrFailed`; on links: `LinkTypeCorrect`, `ReliableInOrderTheorem`, `SealedPacketsAreGenuineTheorem`, `PayloadsSurviveTheorem`, `OnlyNoiseDeafensTheorem`, `NoReceiverRunsAheadTheorem`, `NothingIsStuckTheorem` |
| `EchoProofs` | `InvariantTheorem`, `ResponsesReachTheirCallersTheorem`, `BlockedOnlyByStraysTheorem` |
| `PingPongProofs` | `InvariantTheorem`, `LogIsAsExpectedTheorem`, `AnswersEachRequestOnceTheorem` (the refinement) |

Several of these properties count: requests of a queue, answers over all links, what
is awaited over all callers. The library's induction theorems take a predicate as a
parameter, and the provers cannot instantiate it. `FoldProofs` derives what is
needed with sets in place of predicates: a set that has 0, and n + 1 with every n,
has all numbers (from the well-foundedness of `<`); so has a set of sets that has
the empty one and grows by any element every finite set. From these follow that a
part of a queue (`Only`, a recursive function) changes by one when one element is
appended or taken, and that the sum of a function over a finite set changes as the
function does at one place.

### The broker

The properties are not inductive: that a response in `out` was asked for depends on
what the caches hold. So `IndInv` adds `Justified` (whatever a cache holds is in the
history, and a link with pending names is known to the router), `Remembered` (a
cache holds the name inserted last; here the size of a cache must be at least one,
and the fact that a touch keeps the elements of a cache is what makes it inductive),
and `Unstarted` for the states before `run()`.

The argument goes bottom up: `RouterProofs` says what insertion and touching do to
the elements and length of a cache, and what admitting a link and training a class
do to the tables; one lemma per branch of `handle_packet` concludes `CallKeeps`
(what a call keeps and what it may send); `MovesKeep` covers every step that only
moves packets; `NextKeeps` joins them.

`ForwardingTheorem` is `Spec => ForwardingSafety`: initial states map to initial
states, and each step of the broker is one of `InterestForwarding` or a stutter. A
call of the router with what it sends is one abstract step (`RoutedPassesOn`); the
abstract queue of a link is its part of the channel, of `held`, `r2b` and `out`
joined (`QueueParts`), so packets that move from one to the next keep their place in
it. The step that starts the broker needs that nothing was sent before
(`Unstarted`). The liveness part, `ForwardingLiveness`, is only model-checked.

The assumptions: finitely many links, the choke is not a link, caches and channels
have at least one place, the threshold is between 51% and 100%.

### The router's memory

`IndInv` of `RouterCalls` ties the tables, which are all the code has, to the
history, which is what the properties speak of:

* `TablesTally`: the counts of a link are its answers, times the super-training,
  summed over names, and the choke was trained for a name as often as it was asked
  for. This is where the sums are needed: a training adds to one entry and to one
  total.
* `DroppedStayOut`: a name that was deep-sixed when it had been asked for before has
  no way past the choke. The request that was dropped, and every one for the same
  name after it, trains the choke once more, for the name and in all; as its share
  was at the threshold or above it, the share grows, and what may have been a tie is
  none now (`KeptBackAgain`). `dropped` is the name of the last request, if it was
  deep-sixed and no answer, new link or other request came since.
* `RecentAreStored`: the i-th of the recent responses is among the first i of the
  store. A touch or an insertion moves others back by one at most, and only those in
  front of it (`TouchedMovesBack`, `InsertedMovesBack`).

`DeepSixedAgainUnlessFirst` says what becomes of that name when it is asked for once
more, in both cases. If it had been asked for before it was deep-sixed,
`DroppedStayOut` keeps it out. If not, its one request is all that speaks against it
now: one among at least two trainings, as the link that asks was counted, which is
below any threshold above one half (`OneRequestPasses`), and it goes to all its
targets.

The action properties follow from these with the arithmetic of the scores, products
of counts that the solver is led through term by term. The theorems assume finitely
many links and names, a minimal probability below one, a positive super-training and
a threshold between 51% and 100%. `AnsweringLinksFirstTheorem` assumes besides that
there were fewer calls than the inverse of the minimal probability (`MaxTrained <
InvMinProb`), 10^9 in the code. That is not an artefact of the proof: a link that
never answered for a name has the minimal likelihood for it and, with enough answers
for others, a prior that outweighs it.

### The request calls

`IndInv`: that a result is complete is not inductive, for it says nothing before the
call returns. `Accounted` does: each frame a call asks for is in its queue, in its
window or in the map. To collect a window keeps it because a response is put under
the name of the call (`Sorted`: entries and workers do not mix up names), replaces
nothing but itself (`SamePacket`), and finds an entry to go to (`Tidy`); what was
not counted is queued again. `ReturnsAreCompleteTheorem` is a consequence. When the
queue is empty at the top of the loop there is no window either (`Tidy`), so
`Accounted` and `Sorted` make the entry of the name, cut to the range, the answer.
Nothing is assumed of the calls and names, and no frame number is bounded but by
`LastFrame`.

`NothingLeftBehindTheorem` and `EachFrameIsAskedOnceTheorem` are about calls made in
turn on a network that is timely (`ASSUME Timely, MaxActive = 1`), the constants of
the run that checks the properties, as long as nothing was lost or repeated. The
invariant of the first adds `OneAtATime` (no worker outlives its call, because no
call times out) and `Balanced` (what is under way is exactly what the window still
misses, each once, and the worker waits for as many). It is the equality that is
inductive: with "at most" a worker could end early, and what is left would be a stray
of the next call.

That equality alone would allow a frame to be asked for after it was answered. So
`TxRxRequests` counts, per call and frame, the requests a step puts on the wire, and
`CountsAskedFor` says that there was one for each frame a call was to ask for and has
taken off its queue, and none for any other. A window adds one for what it takes off
the queue. To collect a window leaves the count and must leave the queue as it is:
by `Balanced` the worker has counted a response to each frame of the window, so none
has failed (`Failed`) and none is queued again.

### Wire format

A writer's bytes are a sequence of fields, a reader asks for offsets. `EndsConcat`
and `SliceMiddle` say what a slice of three parts joined is when the offsets are the
ends of the middle one; `NameLayout`, `ClearLayout` and `SealedLayout` compute those
offsets for what the writers produce and find those the readers use. Numbers are
taken apart into bytes and put together again by recursive functions of the byte's
index (`U64RoundTrip`). The four kinds of packet have different sizes
(`PacketSizes`), so the dispatch on the size finds the reader of the kind.
`SealedOrFailed` is about bytes that are `Like` those of an encrypted packet: of the
same fields, some of them torn.

The assumptions say that the values which stand for something else (`Torn`,
`Failed`, `Absent`) are not numbers or contents, and that the filter of a name has
four indices of 16 bits.

### Links

There are three invariants. `Typed` says what each place may hold: what is on a
transport are frames of handed packets, and what is decoded from them is `AsSent`,
or came through noise (by the round trips above). `Counted` counts: what each end
was sent and is still due, and what is queued, add up to what the link was handed,
for links of channels (`Balance`); for datagrams, which may be repeated, it is at
least that less what was lost. `Ordered` numbers: on a link of channels, each place
holds a run of consecutive packets that begins where the place in front of it ends.

`SealedPacketsAreGenuine`, `PayloadsSurvive` and `OnlyNoiseDeafens` follow from
`Typed`, `NoReceiverRunsAhead` and `NothingIsStuck` from `Counted`, and
`ReliableInOrder` from `Ordered`. The assumptions on set-ups (`SetupsAssumption`,
`PacketsAssumption`, `EndsAssumption`) are that no end is bound to a link twice,
both ends agree on whether it is encrypted, and it is handed packets that protocols
can write: TLC evaluates them for the eight of `MCLink`.

### Echo

Where a response ends up is decided several steps before, so `AllInPlace` follows it
back: `PacketsGoTheirWay` (on a way are the requests of its own protocol, and
responses to those of its peer) and `HandsHoldTheirOwn`. The proof splits it by the
variables it reads (`CallsOK`, `WaysOK`, `HandsOK`, `ChannelsOK`, `FaultsOK`), with
a lemma for each action and lemmas on what appending, taking and removing leave in a
sequence. `ResponsesReachTheirCallersTheorem` is a consequence.

The channel of a response is found through three tables: `TablesAgree` says that they
agree for each of the five kinds, and nothing else in the proof looks into them.

`NothingUnasked`, the other half of `IndInv`, says for each response channel that
what is under way for it anywhere (on both ways, in both hands, in the channel) is
at most what its callers' workers will count, and what was repeated. A loss makes it
smaller and a repetition counts for itself; every other step moves a packet from one
of the five places to the next, or takes one and counts it.
`BlockedOnlyByStraysTheorem` follows: a full channel whose workers wait for nothing
holds `BufferSize` responses, and the dispatch thread one more.

They assume that each protocol has one peer, whose peer it is, that a channel has at
least one place, and that callers are finitely many.

### The test network

Neither the log nor the refinement is inductive: that a log entry is not made once
too often depends on how many packets are still on their way to the thread that makes
it, and that a response is not the second one for its request on what two routers
remember. `IndInv` of `PingPongProperties` has six parts:

* `InPlace`: each of the 32 places holds only packets that belong there, addressed
  to or by the link of that place. A router that sent a packet back, or on to a wrong
  link, would break it.
* `CallOK`: what the worker waits for is what the window misses, and no frame is
  both in the queue of the call and in its window.
* `FramesOnce`: a frame that has no answer yet is in at most one place, every other
  frame in none. `FramesKept`: frames that were asked for are past `unsent` or in it,
  answered, or lost; nothing else takes any away.
* `RoutersOK`: a router has been asked by one of its links only and has asked only
  the other, and still remembers the name if a request has gone through (caches hold
  at least one name, and there is but one). Its choke has been trained no more often
  than requests have gone through, at most four times, so it never drops one: the
  share of the choke stays below the threshold of 90%.
* `LogFollows`: with n[k] frames past place k, each entry has been logged at least as
  often as `AtHops` says for n, and at most as often as it says for n and the lost
  frames together. A lost frame was past the places before it was lost, and the
  invariant does not say which.

A lemma per action (`...Keeps`) has two halves. `HandsOn` says that a step takes a
packet from one place and puts it into the next, and which place that is; there is
one for each of the channels, links, dispatch threads and broker steps, and those
of the routers rest on the lemmas of `RouterProofs` on a router that has two links
(which links a request is sent to, and whom a response). `GoesOn` says what this does
to the sums: `Past(j)` grows by one and no other does, and what is under way stays
as it is, unless the last place hands a response over. Both the frames and the log
follow from it. The sums over places are those of `FoldProofs` (`AfterGrown`,
`MovedSums`). `Lose` is the only step that takes from a sum, and gives to `losses`.

`LogIsAsExpectedTheorem`: no more than four frames are ever past a place, so nothing
is logged more often than expected; the end is logged when the call has returned,
when `Answered` holds all four frames and each is past every place.

`AnswersEachRequestOnceTheorem` is `Spec => T!Spec`: `BeginWindow` is the `SendWindow`
of `TxRx`, `HandOver` an `Arrive`, a loss the `Lose` of the frame that is lost, and the
steps of the call are its own. Every other step moves a frame to another place, which
leaves `UnderWay` as it is: a stutter. That `Arrive` may happen needs that the response
is under way, and that it is the only one follows from `FramesOnce`.

It is assumed that channels and caches have at least one place, that 1 / `InvMinProb`
is below one, and that `Nothing` stands for nothing else. The network itself and the
number of frames, four, are those of the test.

### Model-checked only

* All liveness: `ForwardingLiveness`, `Drains`, `TimelyCallsReturn`,
  `EveryCallEnds`, `SmallDemandsAreMet`, `EndsIdleOrFull`, `PongUnlessLost`. They
  rest on fairness, hence on ENABLED, which the prover does not handle.
* `NotForwardedAgain` is false.

## 5. Plan

Done, in this order:

1. the broker, the router, the classifier, the caches, and the theorems on
   the broker;
2. the request calls of `TxRx` and the theorems on them;
3. `WireFormat` and `Link`: both threads of every kind of link, with sizes,
   corrupted and undecodable frames;
4. `Echo`: the dispatch threads and what full channels hold up, and the theorems
   on them;
5. `PingPong`: the components together, as in the tests;
6. the theorems on `RouterCalls`, `WireFormat` and `Link`, on the counts of
   `TxRx` and `Echo`, and on the refinement of `InterestForwarding`;
7. the theorems on `PingPong`: that brokers and links in the order of the test are
   a case of the network of `TxRx`, and that they log what the test expects.

Left: the same for any chain of brokers and any number of frames. With more than four
unanswered requests under way the choke of a router may come to drop one, so it takes
an assumption on how many can be lost.

## Not modelled

* Cryptography (`identity.rs`): key handling and ciphers. `WireFormat` takes them
  as ideal; `verifpal.vp` is the repository's own model of the exchange.
* `log.rs`, the labels and texts of `operations.rs`, and `Operations::Off`: output
  only. What is logged, and when, is in `PingPong`.
* The monitor (a terminal visualiser), the sentinel (an LED), the services
  (commented out), `packets.rs` (not compiled), and the helpers and
  scaffolding of the tests (`common.rs`, `main.rs`, `tryme.rs`).
* Of links: that `new` refuses an address of the wrong kind and `run` a link
  no channel was bound to. Both end before there is a thread.
* Of TxRx: `TxRx::Inert`, which answers every call with an error, and the
  decryption of the data that is returned, which is `extract` in `WireFormat`.
* Constructors, getters and printing of the data types.

Hazards without a property:

* `broker.rs:117`: the response store is cloned for every call and thrown away.
  Nothing says that it should not be. `Broker` takes it as empty;
  `RouterCalls` has a store that is kept.
* `bayes.rs:14`: the classifier never forgets a name. Growth without bound shows in
  no bounded run.
* `txrx.rs:127`: a call that registers a name takes the entry of another call for
  it. The other returns short; the code promises nothing else (`disturbed`).
* `narrow_waist_packet.rs:112`: the set of unassociated responses is ordered by frame
  number alone, so of two foreign names with one frame only the first stays. `TxRx`
  keeps such a set, but the runs have two names in all, and the clash needs two beside
  the worker's own. `ReturnsAreCompleteTheorem` holds for any number of names.
* `txrx.rs:173`: two calls for one name can keep each other asking for ever.
  `EveryCallEnds` leaves them out, and fails when they are let in.
