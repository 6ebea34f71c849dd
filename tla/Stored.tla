------------------------------- MODULE Stored -------------------------------
(* What is kept of a conversation beside its session: an image in its        *)
(* messages (Blob), the links by which it is shared (Share), and the answer  *)
(* as it is streamed (Relay), each over variables of its own.                *)

CONSTANTS Users, Requests, Links, None
VARIABLES links, used, listed, members, deadline, request, failed, expired, raced

Shares == INSTANCE Share WITH Ids <- Links

CONSTANTS Pods, ImageWriters, MaxAttempts, MaxFaults
VARIABLES row, object, message, imageWriter, inflight, job, draining, retry, imagePurge,
    fits, home, lost, faults

Images == INSTANCE Blob WITH Writers <- ImageWriters, writer <- imageWriter,
                             purge <- imagePurge

CONSTANT MaxSaid
VARIABLES upstream, client, ids, said, choices, begun, calls, shown, stored, end

Answers == INSTANCE Relay WITH messages <- begun

\* A link that opens the session can be revoked by who made it (Share).
LinksRevocable == Shares!LinksRevocable
\* A session has one link, and is refused another only while it has (Share).
OneLinkAtATime == Shares!OneLinkAtATime
\* A stored reference to an image can be resolved but for named reasons (Blob).
RefsResolve == Images!RefsResolve
\* An uploaded row has its object, an object its row (Blob).
RowAndObjectAgree == Images!RowAndObjectAgree
\* What a stream said is stored, but for later Anthropic blocks (Relay).
OnlyLaterBlocksLost == Answers!OnlyLaterBlocksLost
\* A Response client sees every item added once and closed, but for named cases (Relay).
ItemsPaired == Answers!ItemsPaired
=============================================================================
