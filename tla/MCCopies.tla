------------------------------ MODULE MCCopies ------------------------------
(* Rows and the copies made of them: the credential and its cached token     *)
(* (OAuthToken), API keys and the entries that accept them (KeyAuth), users  *)
(* and their cached permissions (Account), endpoints and models and their    *)
(* read cache (ReadCache), and the schedulers that follow a cron job's row   *)
(* (CronReload).  They share no state: a behaviour moves the one its focus   *)
(* names.                                                                    *)
(*                                                                           *)
(* The same interchangeable values stand for the goroutines of each, and for *)
(* the users and the instances, so that one symmetry serves all.             *)
EXTENDS OAuthToken, KeyAuth, Copies, TLC

VARIABLE focus

accountVars == <<role, gone, userCache, handler, excused>>
readVars == <<table, cacheEntry, reader, writer, late, unswept>>
reloadVars == <<row, scheduled, orphans, update, inbox, heard, boot, updates, lostNotices,
                boots, astray>>

MCInit ==
    /\ Init /\ KAInit /\ Accounts!Init /\ Reads!Init /\ Reloads!Init
    /\ focus \in {"credential", "keys", "accounts", "reads", "schedules"}
    \* what is not looked at begins in one of its initial states only
    /\ focus # "accounts" => role = [u \in People |-> "user"]
    /\ focus # "schedules" => row.spec = CHOOSE s \in Specs : TRUE

MCNext ==
    \/ focus = "credential" /\ Next /\ UNCHANGED <<focus, kaVars, accountVars, readVars, reloadVars>>
    \/ focus = "keys" /\ KANext /\ UNCHANGED <<focus, vars, accountVars, readVars, reloadVars>>
    \/ focus = "accounts" /\ Accounts!Next /\ UNCHANGED <<focus, vars, kaVars, readVars, reloadVars>>
    \/ focus = "reads" /\ Reads!Next /\ UNCHANGED <<focus, vars, kaVars, accountVars, reloadVars>>
    \/ focus = "schedules" /\ Reloads!Next /\ UNCHANGED <<focus, vars, kaVars, accountVars, readVars>>

MCSpec == MCInit /\ [][MCNext]_<<focus, vars, kaVars, accountVars, readVars, reloadVars>>

Symmetry == Permutations(Callers) \cup Permutations(Users)
=============================================================================
