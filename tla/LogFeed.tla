------------------------------- MODULE LogFeed -------------------------------
(***************************************************************************)
(* What the log of a pipeline job promises to a client that follows it.    *)
(* Lines come in batches.  A batch is published whole, at positions above  *)
(* all earlier ones, or is dropped; a forgiving store may publish the      *)
(* beginning of one it drops.  The client gets what is published in the    *)
(* order of publication, without a gap or a repetition, except for lines   *)
(* removed before it asked.                                                *)
(***************************************************************************)
EXTENDS Naturals, Sequences

VARIABLES
  feedTaken,      \* the lines that were put into a batch; line n of source s is <<s, n>>
  feedHeld,       \* batches neither published nor dropped
  feedPublished,  \* every line ever published, by position
  feedRemoved,    \* positions whose line was removed
  feedPosition,   \* how far the client has come, 0 before its first answer
  feedDelivered,  \* the positions of the lines it got
  feedForgiving   \* the store keeps the beginning of a batch it drops

feedVars == <<feedTaken, feedHeld, feedPublished, feedRemoved, feedPosition, feedDelivered,
              feedForgiving>>

Kept == (DOMAIN feedPublished) \ feedRemoved

\* The sequence lists the numbers of S, each once, from the smallest on.
Lists(sequence, S) ==
  /\ {sequence[i] : i \in DOMAIN sequence} = S
  /\ \A i, j \in DOMAIN sequence : i < j => sequence[i] < sequence[j]

FeedInit ==
  /\ feedTaken = {}
  /\ feedHeld = {}
  /\ feedPublished = <<>>
  /\ feedRemoved = {}
  /\ feedPosition = 0
  /\ feedDelivered = <<>>
  /\ feedForgiving \in BOOLEAN

\* No line is in two batches, and none comes before an earlier line of its source.
Continues(batch) ==
  \A i \in DOMAIN batch :
    LET before == feedTaken \cup {batch[k] : k \in 1 .. i - 1}
    IN  /\ batch[i] \notin before
        /\ \A n \in 1 .. batch[i][2] - 1 : <<batch[i][1], n>> \in before

Hold ==
  \E batch \in feedHeld' :
    /\ Continues(batch)
    /\ feedHeld' = feedHeld \cup {batch}
    /\ feedTaken' = feedTaken \cup {batch[i] : i \in DOMAIN batch}
    /\ UNCHANGED <<feedPublished, feedRemoved, feedPosition, feedDelivered, feedForgiving>>

\* Lines get positions in their order, above all others.
Publishes(lines) ==
  LET new == (DOMAIN feedPublished') \ (DOMAIN feedPublished)
  IN  /\ DOMAIN feedPublished \subseteq DOMAIN feedPublished'
      /\ \A p \in DOMAIN feedPublished : feedPublished'[p] = feedPublished[p]
      /\ \A p \in DOMAIN feedPublished, q \in new : p < q
      /\ \E at \in [DOMAIN lines -> new] :
           Lists(at, new) /\ \A i \in DOMAIN lines : feedPublished'[at[i]] = lines[i]

Publish ==
  \E batch \in feedHeld :
    /\ feedHeld' = feedHeld \ {batch}
    /\ Publishes(batch)
    /\ UNCHANGED <<feedTaken, feedRemoved, feedPosition, feedDelivered, feedForgiving>>

\* Some batches are dropped, and lines that were in none yet are lost.
Drop ==
  /\ feedHeld' \subseteq feedHeld
  /\ feedTaken \subseteq feedTaken'
  /\ \/ feedPublished' = feedPublished
     \/ /\ feedForgiving
        /\ \E batch \in feedHeld \ feedHeld' : \E n \in 1 .. Len(batch) :
             Publishes(SubSeq(batch, 1, n))
  /\ UNCHANGED <<feedRemoved, feedPosition, feedDelivered, feedForgiving>>

\* The client's first request may ask for the latest lines only.
Join ==
  /\ feedPosition = 0
  /\ feedDelivered' # <<>>
  /\ feedPosition' = feedDelivered'[Len(feedDelivered')]
  /\ Lists(feedDelivered', {p \in Kept : feedDelivered'[1] <= p})
  /\ UNCHANGED <<feedTaken, feedHeld, feedPublished, feedRemoved, feedForgiving>>

Deliver ==
  \E last \in Kept :
    LET page == SubSeq(feedDelivered', Len(feedDelivered) + 1, Len(feedDelivered'))
    IN  /\ feedPosition < last
        /\ feedPosition' = last
        /\ feedDelivered' = feedDelivered \o page
        /\ Lists(page, {p \in Kept : feedPosition < p /\ p <= last})
        /\ UNCHANGED <<feedTaken, feedHeld, feedPublished, feedRemoved, feedForgiving>>

Remove ==
  /\ feedRemoved' \subseteq DOMAIN feedPublished
  /\ feedRemoved \subseteq feedRemoved'
  /\ UNCHANGED <<feedTaken, feedHeld, feedPublished, feedPosition, feedDelivered, feedForgiving>>

FeedNext == Hold \/ Publish \/ Drop \/ Join \/ Deliver \/ Remove

FeedSpec == FeedInit /\ [][FeedNext]_feedVars
=============================================================================
