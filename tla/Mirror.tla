------------------------------- MODULE Mirror -------------------------------
(***************************************************************************)
(* What the synchronization of a table with the objects in memory          *)
(* promises, without threads, transactions, events nor locks: the objects  *)
(* are an image of the table which is only ever brought forward.           *)
(***************************************************************************)
CONSTANTS Keys, Nothing

VARIABLES
    truth,  \* what the object of each key should be
    image,  \* the objects
    dirty   \* keys of which the image may be out of date

vars == <<truth, image, dirty>>

Init == image = truth /\ dirty = {}

\* The table changes on some keys at once; each of them is out of date until it is refreshed.
Change ==
    /\ image' = image
    /\ dirty \subseteq dirty'
    /\ \A k \in Keys \ dirty' : truth'[k] = truth[k]

\* The object of one key that is out of date becomes what the table says at this moment, or
\* is removed, or stays: it never takes a content that the table no longer has.  The key is
\* only forgotten with the object up to date.
Refresh ==
    /\ truth' = truth
    /\ \E k \in dirty :
        /\ image'[k] \in {truth[k], Nothing, image[k]}
        /\ \A l \in Keys \ {k} : image'[l] = image[l]
        /\ \/ dirty' = dirty
           \/ dirty' = dirty \ {k} /\ image'[k] = truth[k]

Next == Change \/ Refresh

Spec == Init /\ [][Next]_vars
=============================================================================
