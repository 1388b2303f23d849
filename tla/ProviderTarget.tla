--------------------------- MODULE ProviderTarget ---------------------------
(***************************************************************************)
(* The runtime provider override: the URL in worker_control that the        *)
(* dashboard writes, and the SwitchableSender of a worker process that      *)
(* looks it up (delivery/switchable.go). The sender caches it for           *)
(* overrideCacheTTL and keeps its mutex while the database answers.         *)
(***************************************************************************)
EXTENDS Naturals

CONSTANTS
    Overrides,          \* the URLs the dashboard may set
    Default,            \* no override: the fallback sender
    CacheTTL,           \* overrideCacheTTL in ticks
    Transit             \* bound: ticks an answer of the database takes

Targets == Overrides \cup {Default}
NoAnswer == {}

VARIABLES
    override,           \* worker_control.provider_url
    since,              \* history: ticks since each target was last in force, capped
    cachedURL, webhook, \* the sender's cached override and the target built for it
    age,                \* ticks since cachedAt, capped
    answer,             \* what the lookup has read, on its way to the sender
    transit             \* ... and for how many ticks

senderVars == <<cachedURL, webhook, age, answer, transit>>
targetVars == <<override, since, senderVars>>

Cap == CacheTTL + Transit + 1
Older(t) == IF t < Cap THEN t + 1 ELSE t

TargetTypeOK ==
    /\ override \in Targets /\ cachedURL \in Targets /\ webhook \in Targets
    /\ since \in [Targets -> 0 .. Cap] /\ since[override] = 0
    /\ age \in 0 .. Cap
    /\ answer \in {NoAnswer} \cup {{u} : u \in Targets}
    /\ transit \in 0 .. Transit

TargetInit ==
    /\ override \in Targets
    /\ since = [u \in Targets |-> IF u = override THEN 0 ELSE Cap]
    /\ cachedURL = Default /\ webhook = Default /\ age = Cap
    /\ answer = NoAnswer /\ transit = 0

\* The dashboard sets or resets the override.
SetProviderOverride(u) ==
    /\ u # override
    /\ override' = u
    /\ UNCHANGED senderVars

Fresh == age <= CacheTTL

\* The lookup's SELECT.
ProviderOverride ==
    /\ answer = NoAnswer
    /\ answer' = {override} /\ transit' = 0
    /\ UNCHANGED <<override, since, cachedURL, webhook, age>>

\* Defective variant: only a new URL replaces the webhook sender.
KeepLookupSettingOnly(u) ==
    /\ cachedURL' = u
    /\ webhook' = IF u # cachedURL /\ u # Default THEN u ELSE webhook
    /\ age' = 0

\* The answer has come: the webhook sender is rebuilt if the URL is another one.
KeepLookup(u) ==
    /\ cachedURL' = u
    /\ webhook' = IF u # cachedURL THEN u ELSE webhook
    /\ age' = 0

\* A failed lookup keeps the last state, its age included.
KeepLast == UNCHANGED <<cachedURL, webhook, age>>

EndLookup == answer' = NoAnswer /\ transit' = 0

\* A tick passes. An answer is not underway for longer than Transit.
Age ==
    /\ answer # NoAnswer => transit < Transit
    /\ transit' = IF answer # NoAnswer THEN transit + 1 ELSE 0
    /\ since' = [u \in Targets |-> IF u = override THEN 0 ELSE Older(since[u])]
    /\ age' = Older(age)
    /\ UNCHANGED <<override, cachedURL, webhook, answer>>
=============================================================================
