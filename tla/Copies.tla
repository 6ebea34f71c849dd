------------------------------- MODULE Copies -------------------------------
(* Copies of rows that have no module of their own for it: the read cache of *)
(* endpoints and models (ReadCache), the cached permissions of users         *)
(* (Account) and the schedulers that follow a cron job's row (CronReload),   *)
(* each over variables of its own.                                           *)

CONSTANTS CacheKeys, Flights, RowWriters, MaxWrites
VARIABLES table, cacheEntry, reader, writer, late, unswept

Reads == INSTANCE ReadCache WITH Keys <- CacheKeys, Readers <- Flights,
                                 Writers <- RowWriters, entry <- cacheEntry

CONSTANTS People, Handlers, Nobody
VARIABLES role, gone, userCache, handler, excused

Accounts == INSTANCE Account WITH Users <- People, Actors <- Handlers, None <- Nobody,
                                  deleted <- gone, act <- handler

CONSTANTS Pods, Specs, MaxUpdates, MaxLost, MaxBoots
VARIABLES row, scheduled, orphans, update, inbox, heard, boot, updates, lostNotices, boots, astray

Reloads == INSTANCE CronReload WITH entry <- scheduled, lost <- lostNotices

\* An entry shows the last committed write but for named reasons (ReadCache).
EntriesCurrent == Reads!EntriesCurrent
\* A cached permission is the row's but for named reasons (Account).
CacheFollowsRow == Accounts!CacheFollowsRow
\* With nothing in progress every instance runs what the row says (CronReload).
SettledFollowsRow == Reloads!SettledFollowsRow
=============================================================================
