# TLA+ models of the Real-Estate-Platform

TLA+ specifications of the parts of the platform where concurrency, failure and
ordering decide whether the program is right, the TLC configurations that check
them on small instances, and theorems about them that TLAPS proves for every
value of the constants. Paths are relative to the repository root; every
definition that models code is tied to its lines in `PROJECT.json` (`map`).

    tlc -workers 2 -config Sessions_lifetime.cfg MCSessions     # one run
    tlapm SessionsProofs.tla                                    # one module's proofs

## 1. The system

| Part | State it keeps | Operations | Talks to |
|---|---|---|---|
| api-core: login sessions (`modules/auth`) | `refresh_tokens` rows in Postgres; `auth:refresh:*`, denylist keys in Redis; JWTs in cookies | login, refresh, logout, revoke all, nightly purge | users, Redis |
| api-core: accounts (`modules/auth`, `modules/users`) | `users`, `accounts`; reset-token hashes | register, Google login, forgot and reset password, change password, administer, remove | sessions, mail |
| api-core: listings (`modules/properties`) | Mongo `properties`, Postgres `property_index`, Redis `cache:prop:*` | create, update, soft delete, read, search, count views | areas, search-svc |
| api-core: favourites | `favorites` rows; `stats.favorites` in Mongo | add, remove, list | listings |
| api-core: areas, compounds, developers, amenities | one Postgres table each; `areas.property_count`, `projectsCount` | CRUD, recounts | listings |
| api-core: leads | `leads` rows; `stats.leads` in Mongo | submit, move along the pipeline, assign, delete | users, listings |
| api-core: saved searches, admin, audit, uploads | one table each; presigned URLs | CRUD, reports | — |
| search-svc (Python) | Elasticsearch indices behind one alias; Redis caches and windows | query, facets, map, similar, suggest, index one, delete one, full reindex with alias swap | Mongo |
| rag-svc (Python) | threads, profiles, chunks, `ingestion_runs` in Postgres | chat turn, retrieve, embed, ingest a source | search-svc, LLM providers |
| reports-svc (Ruby) | rendered brochures in Redis | finance schedules, PDF, CSV | api-core |
| web (Next.js), mobile (Flutter) | cookies, query cache, client stores | shared refresh, optimistic favourites, search page, chat panel | api-core, search-svc, rag-svc |

The services share no transaction. A write of api-core that concerns two stores
is two awaited calls and, where the author thought of it, a third that undoes
the first; between any two awaits another request of the same Node process, or
of another replica, may run. Redis errors are swallowed by `CacheService`, and
several Postgres errors by `TokenService`. search-svc learns of a write through
a notification that may be lost.

What is hard, and the property that makes each part right:

* **Sessions.** A refresh token's state is spread over a denylist key, a marker
  key and a row, written one after the other by rotation, logout and
  revocation, which race. Right means: a token that bought another is refused,
  a revocation reaches every session that existed when it began, a refused
  token stays refused, a session ends only for cause. Section 5 says where
  the code falls short of the second and the third.
* **Listings.** Two stores with undo writes, a cache in front of them, two
  counters beside them. Right means: both stores or neither hold a listing and
  they agree once nobody writes; the favourites counter follows the rows; stale
  copies disappear.
* **Catalogue.** Counts and foreign keys maintained by separate queries. Right
  means: a developer's count follows its compounds, and a live listing keeps its
  compound.
* **Leads.** A status machine whose check and whose write are separate calls.
  Right means: what a lead's status and dates claim did happen to that lead.
* **Accounts.** Check-then-write on reset links, addresses and roles: a link
  works once, an address has one account, a demotion takes effect.
* **Search.** Incremental writes against a rebuild that ends in an alias swap and
  a prune: once both end, the alias serves every listed listing and no removed
  one. Of the answers: facets count what would be found, the pages of a sorted
  search show everything once, a cached response is dropped by the write that makes it wrong.
* **Ingestion and retrieval.** Runs of one source that overlap in one replica never put
  an older version of a document over a newer one; a stored vector belongs to the text it
  is stored with; what both branches of a search find is ranked first.
* **Chat.** A turn does not undo what another turn of its thread wrote to the
  profile; what a tool reports is so, and a lead is stored only once confirmed.
* **Rate limiters.** No more than the limit's due is counted and let through per
  window, on several replicas, and nobody is refused below the limit.
* **Finance.** A schedule repays the loan to the last piastre.
* **Clients.** One refresh for the requests that fail together; what the user did
  meanwhile survives the roll-back of an optimistic change; what the query cache
  calls fresh shows the changes made here, but for those its hooks overlook; a late answer lands where it belongs;
  the address, the box and the results of a search agree.

`PROJECT.json` lists every part (`components`, modelled or not, and why) and
each place where such an error would bite (`hazards`), with the properties that
would catch it.

## 2. Modules

| Module | Contents |
|---|---|
| `Sessions` | refresh and access tokens, await by await |
| `SingleUseSessions` | what refresh tokens promise, without stores or handlers |
| `Listings` | a listing's document, row, counters and cached copies |
| `Leads` | the enquiry pipeline |
| `Accounts` | registration, passwords, reset links, Google, administration, removal |
| `Catalogue` | developers, areas, compounds and the listings that refer to them |
| `SearchIndex` | the index behind search-svc's alias, and the runs that write it |
| `SearchQuery` | search-svc's five endpoints, and the responses it caches |
| `IngestionRuns` | rag-svc's ingestion: rows, background tasks, locks, the corpus |
| `Retrieval` | one flush of an ingestion with its embedding calls, and hybrid searches |
| `ChatTurns` | the turns of one chat thread and the memory they share |
| `AgentTurn` | what happens inside a turn: routing, the grading loop, the tools |
| `RateLimits` | the limiters of reports-svc, rag-svc and search-svc |
| `Finance` | loans and instalment plans of reports-svc |
| `WebClient` | one browser tab: session, refresh, optimistic favourites |
| `WebQueries` | the queries the web client caches, and what makes it ask again |
| `ChatWidget` | the assistant's panel |
| `SearchPage` | the search page: filters, address, box, draft, results |
| `MCSessions`, `MCListings`, `MCSearchPage`, `MCRetrieval` | the sets a run needs and the symmetry |
| `MCPlatform` | search, queries, ingestion, chat, agent, accounts, catalogue side by side, for one run |
| `MCMarket` | leads, limits, finance, web, queries, panel, page, retrieval side by side, for one run |
| `SessionsProofs`, `ListingsProofs`, `RetrievalProofs` | theorems about the module of the name |
| `AssistantProofs` | theorems about `IngestionRuns`, `ChatTurns`, `AgentTurn` |
| `SearchProofs` | theorems about `SearchIndex`, `SearchQuery` |
| `WebProofs` | theorems about `SearchPage`, `WebQueries`, `WebClient`, `ChatWidget` |
| `MarketProofs` | theorems about `Leads`, `Finance`, `RateLimits` |
| `PlatformProofs` | theorems about `Accounts`, `Catalogue` |

`Sessions`, `Listings` and `Leads` have one shape. A set of `Handlers` stands for the
requests in flight; `pc[p]` names the await that handler `p` is about to make,
`req[p]` holds the request, and the values it read before live in variables of
their own, so that a decision made on stale data is made on stale data in the
model too. `Arrive(p)` is the controller accepting a request, `Step(p)` one
awaited call with the synchronous code up to the next one, `Crash(p)` or
`Abort(p)` the end of a handler that never gets its answer. `Goto`, `Continue`
and `Finish` move a handler. The other modules keep what an actor carries in one
record (`handler`, `job`, `task`, `turn`, `hit`, `call`, `work`, `reading`, `send`)
whose field `at` is its place; each step is an action of its own name. A
definition headed "Mutant" changes the one below it the way a plausible slip
would; no specification uses it.

### Sessions

| Variables | Stand for |
|---|---|
| `marker`, `denied` | `auth:refresh:<user>:<jti>` and the refresh denylist in Redis |
| `floored` | the pairs last denylisted by `revokeAllSessions`, for whole seconds only |
| `accessDenied` | the access denylist |
| `row`, `replacedBy`, `isActive` | `refresh_tokens` and `users.is_active` in Postgres |
| `owner`, `delivered`, `expired`, `accessExpired` | the JWTs, and which pairs reached a client |
| `live` | the jtis `revokeAllSessions` read |
| `parent`, `doomed`, `condemned` | history only: the pair a rotation was paid with; the pairs its user had when a running revocation swept the markers; those of them whose rows had been inserted when it retired the rows |

`Usable(j)` is `verifyRefreshToken` (marker, else row, unless denied or
expired) and `AccessAccepted(j)` is `JwtStrategy.validate`. Login is
`Remember; Persist; Respond`. A refresh is `CheckDenied; CheckActive;
CheckKnown; CheckUser`, then `Remember; Persist` for the heir, then `Deny;
Unmark; RetireRow` for the parent, then `Respond`. Logout takes the same checks
and retirement, then `DenyAccess`. Revocation is `Scan; FindLive; DenyLive*;
RetireAll`; the entries of `DenyLive` get the floor of the seconds their tokens have
left (`token.service.ts:246`), so that `LapseDenial` may end one while its token is
good (`Lapsed`). Those of rotation and logout are set in the seconds of the token's
own `exp`, and end with it (`Expire`). A failed Postgres read is "not known" and a failed Postgres write
is skipped, as the `catch` blocks do; a failed Redis call answers "no".

### Listings

`doc` and `row` are the two stores, `faved` and `areaCount` the tables beside
them, `cached[l][k]` the copy a reader stored under identifier `k`: the
propertyId, the slug, or a third one that `findOne` also accepts (`"hex"`).
`before` is the document read ahead of a write, `after` the one written or
loaded. `CreateDoc; CreateRow`, with `DeleteDoc` if Postgres throws, is
`createWithMirror`; `ReadBefore; SetDoc; SetRow`, with `RestoreDoc`, is
`updateWithMirror`; `MarkDoc; MarkRow`, with `UnmarkDoc`, is
`softDeleteWithMirror`. A successful write goes on to `Bust` (`invalidate`),
`CountRows` and `SyncCount`. `CheckFav; CreateFav; Bump; BustId` and
`DeleteFav; Bump; BustId` are the favourites service, `Load; Fill` is `findOne`
past a cache miss, `Lapse` a TTL. A call may do its work and answer (`"ok"`),
refuse (`"refused"`), or do its work and lose the answer (`"lost"`).

### Leads

`lead` is the table, `leads` the counter on each listing, `staff` the users an
agent may be chosen from, `existing[p]` the lead an update read, `been` the
statuses a lead has had (history only). `CreateLead; Bump` submits,
`Read; CheckAgent; Write` updates, `CheckExists; Delete` removes, `SetRole` is a
superadmin changing who may be assigned. `None` is an absent field
(`undefined`), `Null` a cleared one; `Write` sets the fields the request names
and leaves the others as they are *now*, as Prisma does.

### Accounts

`user` is the table, `google` the account the one Google identity is linked to,
`sessions` the sessions in force as `Sessions` keeps them. A handler's `seen` is
the row as it was read: `Login; Grant`, `Refresh; Rotate`, `ForgotPassword;
IssueLink`, `ResetPassword; SetPassword; RevokeAll`, `ChangePassword;
WritePassword; RevokeAll`, `AdminUpdate; WriteAccount; RevokeAll`, `Remove;
Anonymise; Unlink; RevokeAll`, `LoginWithGoogle; FindByAddress; LinkGoogle;
Grant`. `late` (history) says that the row has changed since it was read, by
which the properties tell a race from a slip; `slipped` and `overtaken` name the
accounts that a failed revocation or a late request has left in disorder.

### SearchIndex

`source` is Mongo, `exists` and `index` Elasticsearch's indices, `alias` what
readers search, `mail` the calls of api-core on their way. A job is a request or
a background run: `Fetch; Resolve; Put` is `index_one`, `Resolve; Erase`
`delete_one`, `Count; Target; (Read; Bulk)*; Prune` a full run and `Count;
Target; CreateTarget; (Read; Bulk)*; Swap; DropOld` a rebuild. An entry carries
the runs under way when it was stamped, which is all that the prune's comparison
of `indexedAt` with the start of its run can tell.

### IngestionRuns

`row` is `ingestion_runs`, `task` the request and then the background task of
each run, `replica` the process a request comes in at, `lock` the `_source_locks` of
each process, `upstream` and `corpus` the
version of each document in its source and in `rag_documents`. `PostIngest;
CreateRun` is the request; `MarkRunning; (TakeLock; LoadDocuments; Compare;
Flush*; PruneCorpus; ReleaseLock)*; FinishRun` is `IngestionPipeline.run`.
`Reboot(p)` loses the tasks and locks of a replica and leaves the rows. `Blanks` are
versions without text, or without chunks, which `Compare` passes over. `crossed`
(history) names the runs whose source another replica ingests too: no lock is
between them.

### ChatTurns

`count` is the number of messages of the thread, `summary` the messages that the
newest summary was made from, `profile` the number of the buyer's statement the
stored profile was folded from. `PostMessage; LoadMemory; Generate` and then
`AddQuestion; AddReply; PersistProfile; Recount; Summarise; EndTurn`
(`_persist`), each of them a transaction that may fail, and `Leave` a client
that closes its stream.

### RateLimits

One caller of one scope, and a clock. `algorithm` chooses the limiter: `"fixed"`
is reports-svc, `"healing"` rag-svc (with the window it keeps in memory while
Redis is away), `"sliding"` search-svc. `CountHit; SetExpiry` and `SlideHit;
TakeBack` are a request's calls to Redis, `FailFirst` and `FailSecond` calls
that throw, done or not.

### WebClient

`me` and `good` are the auth store, `ids` the favourites store, `refresh` is
`refreshInFlight`, `cookie` the refresh cookie and `saved` the favourites
api-core holds. A call is sent, served or denied, waits for the shared refresh,
is sent again once, and its answer is received as a step of its own: in between
the user, another device or a reload may do anything. `stirred` and `astray`
(history) record the overlaps after which the code promises nothing.

### Catalogue

`parent` is developers and areas, `projects` a developer's `projectsCount`,
`compound` and `unit` the compounds and `property_index`'s link to them.
`work[p]` is a request at its next query: `CheckRelations; WriteCompound;
(CountProjects; PutProjects)*` writes a compound and recounts the developers
named in `due`, `CountLinks; (RemoveWhat | RemoveListed)` removes, `FindCompound;
WriteUnit` is a listing's write. A foreign key may refuse the last query.
`unsure` and `cut` (history) name the developers and listings that a race the
code does not exclude has reached.

### SearchQuery

`shelf` is the index, a document being the set of what it carries under each
field; `responses` the answers in Redis with the states of the index they were
read from; `reading[c]` a request at its next call, `owed` the writes that have
not dropped the cached responses yet. Prices and deliveries are counted in buckets
(`Bucket`), of the widths that are constants; a search by relevance may have any page
of the right length (`PagesNow`), as its scores decay with the time. `search`, `facets`, `map_search; MapPoints`,
`similar; (MoreLikeThis; SimilarFallback)` and `autocomplete; TitleFallback` are
the endpoints, `Store` what follows each of them, `WriteIndex;
invalidate_namespace` a writer. `Matching(index, query, but)` is the query the
builder makes, without the filter groups `but`.

### Retrieval

`calls` are the requests to the embedding endpoint, of a flush (in batches, some
at once) and of a search; `takes` says whether the model takes `dimensions`,
`sendDimensions` what the process believes. `StartFlush; SendBatch;
(RefuseDimensions | Embed | Falter); BeginStoring; StoreDocument*` is `_flush`,
`AskFor; (VectorSearch, TextSearch in any order); Rerank` `hybrid_search`.
`Fuse`, `WithTail` and `Admitted` (what the filters of a question let pass) are
operators, about which lemmas are proved.

### AgentTurn

`agent` is `GraphState` with the node the turn is at, `recall` the buyer's
profile, `posted` the leads api-core stored. The actions are the nodes:
`load_memory; guard; classify; rewrite_query; (retrieve; grade_context)*;
PlanToolCalls; tools; generate; persist`. The model's part is free: any route,
plan, filter or failure. A listing is the set of filters it fails, so that the
relaxation of a search that found nothing can be judged.

### Finance

`deal` is one schedule: `mortgage` and `installment_schedule` compute it,
`amortise` and `Instalment` make one payment. Money is in piastres, rounded as
`round_money` does; rates are rational.

### WebQueries

One key space of TanStack Query per behaviour: `entry` is what the cache has,
with the changes it shows and whose it is. `Hooks` and `Invalidates` are the
mutations of `lib/queries` and the keys they name. `Concerns` is independent of them:
it says, from what api-core makes each answer of (`MadeOf`, `Carried`), which answers a
change makes another; `Overlooked` lists where the hooks fall short of it. The library itself is external: what
`invalidateQueries` does with an entry in use, or under way for the first time,
is as the hooks rely on it.

### ChatWidget

`threadId`, `messages`, `isStreaming`, `error`, `unread`, `isOpen` are
`chat.store.ts`; `activeTool`, `abortRef` the panel's own state, lost when it
closes; `send[a]` the call of question `a`, `loads` transcripts on their way,
`rows` what rag-svc stored. `Ask; Accept; Token*; StoreAnswer; AnswerDone; End`
is a good answer, `Failed`, `BreakOff`, `Stop`, `ClosePanel`, `NewChat`,
`LoadPage` what may happen instead, at any point.

### SearchPage

`filters` and `draft` are the store, `url` and `appliedQuery` the address and
what of it was last read or written, `term` and `debounced` the search box,
`shown` the filters whose results are on the screen. `Seed` opens an address as
the page does: of a repeated key it keeps the last value only.

## 3. Runs

Every run gives the constants small sets. `Ops` says which operations arrive;
the failures of a run are switched on by constants such as `RedisMayFail`,
`PostgresOutcomes`, `MayCrash`, `CallsMayBreak`, `ProvidersFail`.

| Run | Bounds | Checks |
|---|---|---|
| `sessions_lifetime` | 1 user, 2 pairs, 2 handlers; logout (one at a time, by a constraint) and expiry; Postgres fails | `TypeOK`, `HeirReplacesParent`, `DeadStaysDead`, `EndedForCause` |
| `sessions_liveness` | 1 user, 2 pairs, 2 handlers, fair; logins, refreshes, password changes, deactivation, reactivation | `RevocationIsFinal`, `RevocationEndsSessions` |
| `sessions_serial` | 3 pairs, 1 handler; Postgres fails, processes die | `ImplementsSingleUse` (refinement) |
| `sessions_single_use` | 3 pairs, 2 handlers, no failure | `SingleUse`, violated |
| `listings_serial` | 1 listing, 2 values, 2 areas, 1 handler, all operations and keys; Postgres refuses | `TypeOK`, `StoresAgree`, `CacheIsFresh` |
| `listings_writes` | 1 value, 2 handlers; create, update, remove, favourites; Postgres refuses | `BothOrNeither`, `FavouritesCounted` |
| `listings_cache` | 1 value, 2 handlers; readers and writers, fair; Redis and Mongo fail, processes die | `CacheConverges` |
| `listings_areas` | 2 areas, 1 handler, no failure | `AreasCounted`, violated |
| `platform` | `MCPlatform`, below | 13 properties of seven modules |
| `market` | `MCMarket`, below | 14 properties of eight modules |
| `search_notify` | `SearchIndex` alone, 2 listings, 1 worker, no failure | `NotifiedIsIndexed`, violated |
| `search_link` | `SearchPage` alone, 2 types, 4 acts | `LinkShowsTheSame`, violated |

The parts of `platform` and of `market` share no state, so `MCPlatform` and
`MCMarket` do not interleave them: a behaviour picks one part (`component`,
`part`) and only that one moves, and the reachable states are the sum over the
parts. That saves start-ups and nothing else; each module's Init and Next are used
whole. `TypesOK` and `MarketTypesOK` ask of each part the type invariant its
module declares.

`platform`:

| Component | Bounds | Properties |
|---|---|---|
| search | 2 listings (1 of them in the seed), 2 workers, 2 index versions, 3 events; calls fail and are lost, restarts; rebuilds one at a time | `NeverVanishes`, `ReindexHeals` |
| query | 3 listings, 1 write, 2 requests at a time out of nine kinds, by relevance or by a field, buckets of 2, 2 callers; Redis and Elasticsearch fail | `AnswersAddUp`, `CachedIsCurrent` |
| ingestion | 2 documents (1 in the seed, whose second version is blank) of 1 source, 2 runs on one or two replicas, full or limited and forced, 1 change; batches, transactions and Mongo fail, restarts | `WhatSucceededIsStored`, `CorpusMovesForward` |
| chat | 2 turns, window 4, a summary every 4, 20 messages (6 once turns overlap), 2 statements; transactions fail, clients leave | `ThreadRemembers` |
| agent | 2 turns, plans of 2 calls, 2 markets, 2 wishes; every service fails | `ToolsAreHonest` |
| accounts | 3 accounts, 2 handlers, 4 requests, 2 roles; last queries fail | `SignedInAsStored`, `RemovedStaysRemoved`, `LinksWorkOnce` |
| catalogue | 2 developers, 1 area, 1 compound, 1 listing, 2 requests at a time, 3 edits; queries fail | `CatalogueHolds` |

`market`:

| Part | Bounds | Properties |
|---|---|---|
| leads | 1 lead, 1 listing, 1 user, 2 handlers; roles change, calls fail, handlers die | `ContactKnown`, `LegalMoves` |
| limits | 3 algorithms, limit 1 (3 hits are then one more than two windows let through), window 3, 3 hits, clock to 4, at most 1 tick between the calls of a request; Redis fails | `LimitHolds` |
| finance | 7 prices from 1 to 301 piastres, 4 percentages, 4 rates, 1 to 4 payments | `PrincipalIsRepaid`, `LastPaymentIsClose` |
| web | 2 people, 2 listings, 2 calls, 3 actions; calls and answers are lost | `FavouritesSettle`, `RefreshKeepsPerson` |
| queries | the spaces of saved searches and of searches, 2 people, 2 changes; answers are lost | `FreshIsTrue` |
| chat | 2 questions, 3 clicks, answers of 1 piece; streams break | `ChatHolds` |
| page | 2 types, 2 texts, 3 addresses, 4 acts | `PageAgrees`, `DraftLosesNothing` |
| retrieval | 3 documents, one in two versions, batches of 2, 2 at a time, 2 tries, best 2, 1 search out of two questions; providers and Postgres fail | `RetrievalHolds`, `VectorsFollowTexts` |

What they show:

* **Rotation.** Whatever Postgres does, a client that holds the
  pair a refresh minted cannot use the token it paid with, but for the last second
  of a token that a revocation of all sessions denylisted once more. Two refreshes may
  still *both* be answered (`sessions_single_use`): `rotate` issues before it
  denies and the check only reads. Handled one at a time, the three places
  a refresh token lives in amount to the abstract single-use token.
* **Revocation.** `revokeAllSessions` takes its three readings of the sessions
  at three moments, and still ends every session that was in Redis when it swept
  the markers and in Postgres when it updated the rows; so every session that was in
  a client's hands when it began. A login or a refresh that is past its checks and
  writes after the sweep, or inserts after the update, hands out a session that
  stays (section 5).
* **Lifetime.** Neither a late insert nor the purge revives a refused token. The
  denylist entries of rotation and logout last as long as their tokens; one of
  `revokeAllSessions` may end in its token's last second and let it be used once
  more if the row is live by then (section 5), which is all that `DeadStaysDead` excepts.
* **Listings.** Undo writes lead back to what Postgres still says, and racing
  them against other writers neither loses nor resurrects a listing. The unique
  constraint alone makes the favourites counter right under a double click.
  Copies in Redis can be stale after any race of a reader and a writer; they
  are gone once their TTL passes, and only that is guaranteed.
* **Catalogue.** Recounting after the write, not adding and subtracting, is what
  keeps `projectsCount` right through failures and overlaps, except where two
  counts and writes cross. Removal switches a compound off instead of deleting it
  while listings name it.
* **Leads.** The unconditional write of an update lets stale decisions through,
  yet every lead that says `won` has been through viewing or negotiating and
  none that was ever contacted lacks a date, because the write names only the
  requested fields. No move skips the pipeline, though one may go back.
* **Accounts.** The address has one holder, whichever registrations and Google
  logins race. Who is signed in is so under the account's own password and role,
  and a removed account stays bare, except through a request that had read the
  account before, or a revocation that failed.
* **Search index.** Readers always have exactly one index behind the alias; a run
  that fails half-way prunes nothing; a complete run that nothing disturbed
  leaves the index equal to Mongo, whatever calls were lost before. The single
  call that should make that unnecessary does nothing for listings that api-core
  created (`search_notify`).
* **Search answers.** Excluding a facet's own group from its filter is what makes
  each count the number of results that selecting the value would give. Where a
  filter accepts more than the facet counts under its value (years of instalments,
  deliveries and prices, `Accepted`) that is so of the value alone. The tiebreaker on
  the id makes the pages of a search sorted by a field partition its results; a
  response outlives a write only if it was stored after the sweep, or the sweep
  broke off.
* **Ingestion and retrieval.** Two runs of one source may both start. In one replica
  the lock makes that harmless: no stored document is replaced by an older version,
  unless Mongo failed and the seed was taken for it. Two replicas share no lock, and
  the slower of their runs may put back what it read first; the properties except
  that (`crossed`), and no other run of the same behaviour. In whatever order batches
  return, each vector is stored with its own text. Reciprocal ranks put what both
  branches found before what one found; the window of prices keeps what a question
  asks for.
* **Chat.** One turn after another loses neither a message from memory nor a
  statement from the profile, with one failed summary in between; turns that
  overlap do lose them. What a tool reports is so: a listing shown as close fails
  the one filter that is named.
* **Rate limiters.** Of what it counts, the sliding window never lets more than its
  limit through, and a fixed one twice as many at most, across its edge. Whoever
  is refused meets at least as many others as the limit allows that use it: let
  through within the last window, or, in search-svc, being refused at the same
  time, so that at the limit refused requests may refuse each other (`redis.py:232`).
  A counter whose EXPIRE was lost counts for longer.
* **Finance.** Nothing is lost to rounding, and the last payment differs from the
  others by no more than rounding explains.
* **Web.** Optimistic changes of different favourites, failures, expired tokens
  and reloads all end with the account's list on the page; a refresh changes
  nobody's identity unless a login or logout crosses it. What the cache calls fresh
  shows each change the tab was told of, unless the change's hook overlooks the
  answer (section 5). The panel can always ask or stop, and an
  answer lands whole under its question. The search page agrees with itself when it
  comes to rest; its address, opened by somebody else, need not (`search_link`).

### Bounds

* *Handlers.* The statements relate a decision to one intervening write, and a
  handler returns to `idle` and may act again any number of times: two handlers
  give one stale reader and one that does everything else. The theorems of
  section 4 cover any number of them.
* *Pairs.* A pair is a model value that is minted once. Three let two refreshes
  of one token both mint; two let a rotation race a revocation, a logout or an
  expiry. `RotationIsSafe` and `RevocationIsSafe` cover any number.
* *Listings and leads.* Handlers of different listings share only an area's
  count, and handlers of different leads a listing's count: one of each
  suffices for the others. A listing is created again only under a new id.
* *Process deaths.* A handler that never takes its next step is already among
  the behaviours of a safety run, so `MayCrash` is on where a death frees the
  handler for another request that matters: `sessions_serial`,
  `listings_cache`, and `MayFail` in `market`. The theorems about `Sessions` and
  `Leads` include it.
* *Values.* Two `Facts` tell an old write from a new one. In `listings_cache`
  favourites and removals change the document, so one is enough. A version, a
  statement or a request is a number, so that older and newer can be told apart.
* *Platform and market.* The bounds per part were raised until every action and
  every disjunct of it was taken in the run (TLC's coverage), and every mutant was
  found. `FewChanges` bounds the changes to a document, `LittleDrift`
  (`listings_writes`) the counts that undone updates lose, `Shortcuts` the
  statuses asked for, `OneLogout` (`sessions_lifetime`) the logouts under way at once.
  The queries follow a key space that only its owner may read and one that other
  changes invalidate; the theorem about them is of all of them.
* *Deadlock* is not checked in `sessions_lifetime`, `sessions_single_use`,
  `platform`, `market` and `search_link`: the pairs, events, requests or acts of
  the bound are used up, and then nothing can arrive. In the other runs something
  always can.
* *Symmetry* is used in safety runs only, over sets no expression picks from.

### Fairness

`Sessions!FairSpec` and `Listings!FairSpec` assume weak fairness of `Step(p)`
for each handler: Node runs the continuation of every settled await, and the
clients of Redis, Postgres and Mongo settle each call, with a result or an error.
`Listings!FairSpec` also assumes it of `Lapse`, as every `set` of `findOne`
has a TTL. Arrivals, crashes and failures are not fair; the liveness properties
hold while requests keep arriving.

## 4. Proofs

The constants are arbitrary, subject to the assumption each module names
(`SessionsAssumption`, `ListingsAssumption` and so on), which the runs evaluate.
The column "assumes" lists what a theorem needs beyond that. `Spec` stands for
the specification of the module.

| Theorem | States | Assumes | Rests on |
|---|---|---|---|
| `TypeCorrect` | `Sessions!TypeOK`, and that a request fits its await | — | `Shape` |
| `RotationIsSafe` | `HeirReplacesParent` | Redis answers | `Minting`, `Rotation` |
| `RevocationIsSafe` | `RevocationIsFinal` | Redis and Postgres answer | `Minting`, `Revocation` |
| `DeadSessionsStayDead` | `DeadStaysDead` | — | `Minting` |
| `SessionsEndForCause` | `EndedForCause` | — | `Minting`, `Found` |
| `SerialSessionsImplement` | `ImplementsSingleUse` | one handler, Redis answers, tokens do not expire | `Undisturbed`, `Minting`, `Found` |
| `ListingTypes` | `Listings!TypeOK`, and that a request fits its await | — | `Shape` |
| `ListingsAreWhole` | `BothOrNeither` | Mongo answers, a failed Postgres call did nothing, no process dies | `Whole` |
| `FavouritesAddUp` | `FavouritesCounted` | the same; finitely many users and handlers | `Whole`, `Counted`, `Liked` |
| `WritersInTurnAgree`, `StoresStayEqual` | `StoresAgree` | the same as `ListingsAreWhole`, and that the writers of a listing take turns (`OneWriterEach`), as a lone handler does | `InTurn` |
| `RequestsApartStayFresh`, `CacheStaysFresh` | `CacheIsFresh` | Mongo and Redis answer, no process dies, and a listing has one request at a time (`OneRequestEach`), as with a lone handler | `Serial` |
| `LeadTypes` | `Leads!TypeOK` | — | `Shape`, `History` |
| `PipelineHolds`, `ContactIsKept` | `WonWasEarned`, `ContactKnown` | — | `History` |
| `MovesAreLegal` | `LegalMoves` | — | `History`, `LeadWriters` |
| `AccountTypes` | `AccountsTypeOK` | — | `Grounded` |
| `SessionsMatchAccounts` | `SignedInAsStored` | — | `Signed` |
| `RemovedAccountsStayRemoved` | `RemovedStaysRemoved` | — | `Reading`, `GoneForGood` |
| `ResetLinksWorkOnce` | `LinksWorkOnce` | — | `Links` |
| `CatalogueTypes`, `CatalogueKeepsCounts` | `CatalogueTypeOK`, `CatalogueHolds` | finitely many compounds | `Stocked`, `Promised` |
| `SearchTypes` | `SearchTypeOK` | rebuilds do not overlap | `Indexing` |
| `ListingsStayFindable` | `NeverVanishes` | the same | `Indexing`, `Standing` |
| `RunsHealTheIndex` | `ReindexHeals` | the same | `Healing` |
| `QueryTypes` | `QueryTypeOK` | — | `Fulfilled` |
| `CacheIsCurrent` | `CachedIsCurrent` | — | `Fulfilled` |
| `AnswersFitTogether` | `AnswersAddUp` | — | `Fulfilled` |
| `IngestionTypes`, `IngestedIsStored` | `IngestTypeOK`, `WhatSucceededIsStored` | — | `Ingesting` |
| `CorpusNeverGoesBack` | `CorpusMovesForward` | — | `Ingesting`, `Advancing` |
| `VectorsFollow` | `VectorsFollowTexts` | — | `Following` |
| `SharedOutranks` | what two branches rank comes before what one does | — | arithmetic of ranks |
| `RetrievalTypes`, `AnswersHold` | `RetrievalTypeOK`, `RetrievalHolds` | — | `Retrieving` |
| `ChatTypes` | `ChatTypeOK` | — | `Thread` |
| `ThreadsRemember` | `ThreadRemembers` | a summary comes before the window is full (`SummaryEvery <= MemorySpan`) | `Thread`, `Room`, `Serial` |
| `AgentTypes`, `ToolsStayHonest` | `AgentTypeOK`, `ToolsAreHonest` | — | `Answering` |
| `RateTypesHold` | `RateTypeOK` | — | `RateTypes` |
| `LimitersHold` | `LimitHolds` | — | `Fixed`, `Sliding`, `Used` |
| `LoansAreRepaid`, `FiguresAreWhole` | `PrincipalIsRepaid`, `FinanceTypeOK` | — | `Books` |
| `LastPaymentsAreClose` | `LastPaymentIsClose` | — | `Books`, `Closing` |
| `WebTypesHold` | `WebTypeOK` | — | `WebTypes` |
| `RefreshesKeepPerson` | `RefreshKeepsPerson` | — | `PersonInv` |
| `FavouritesComeTogether` | `FavouritesSettle` | — | `AloneInv`, `CalmInv` |
| `FreshAnswersAreTrue` | `FreshIsTrue` | — | `QueriesInv` |
| `QueriesTypesHold` | `QueriesTypeOK` | — | `QueriesTyped` |
| `WidgetHolds` | `ChatHolds` | — | `WidgetInv` |
| `WidgetTypesHold` | `WidgetTypeOK` | — | `PanelHolds` |
| `PageTypesHold` | `SearchPageTypeOK` | — | itself: it is inductive |
| `PagesAgree` | `PageAgrees` | the pages found are a number for every list of types, also one that TLC's assumption does not reach | `PageInv` |
| `DraftsLoseNothing` | `DraftLosesNothing` | — | `PageInv` |

Arguments worth knowing before reading a proof:

* **Types are not inductive alone.** A step reads fields of the request its
  operation set; that they are set follows from which operation can be at which
  await, which is what each `Shape` says, and `Grounded`, `Thread`, `WebTypes`
  and their like in the modules that keep one record per actor.
* **Rotation.** Two facts carry the proof. Minting: a pair is known to the one
  handler that minted it until it is delivered, so its parent is that handler's
  token. Rotation: from `Deny` on, that token is denylisted, expired or was
  denylisted again by a revocation (`Spent`), a set that only grows because any
  other entry lapses on expiry only.
* **Revocation.** A session to be ended was remembered before the `SCAN`, so no
  handler writes its marker again, and its row was inserted before `RetireAll`,
  so none inserts it again. Past the one it has no marker, past the other no live
  row, and nothing brings either back. The denylist is not needed, which is why the theorem does not
  depend on what `FindLive` saw.
* **Refinement.** With one handler, `Undisturbed` says in which of a rotation's
  steps the parent and the heir are still what the abstract token was; each
  concrete step maps to one abstract step or to a stutter. Without the assumption
  on Redis the refinement is false.
* **Listings.** `Whole` adds to `BothOrNeither` that each listing has one
  creator, who finds nothing before it writes the document, and a document and
  no row before it writes the row or undoes. All other writers change a
  document or a row only where there is one. `Counted` balances the counter: the
  rows of `favorites` are what it says plus the handlers that still have to add,
  less those that still have to subtract; the sums are cardinalities of sets of
  users and of handlers, whence the finiteness.
* **Writers in turn.** Nothing in the code orders the writers of a listing, and two
  that race break `StoresAgree` (section 5). `OneWriterEach` names what would be enough:
  no two hold one listing between the read an update starts from, or the document a
  create writes, and the end of the second write or of its undo. Under it, `InTurn` says
  at each await how the two stores differ: an undo leads back to what the row says, and
  favourites counted meanwhile change nothing the row carries. Copies need more, as a reader
  that loaded before a write may store after it: `OneRequestEach` excludes it, and then
  `CacheIsFresh` does not depend on what becomes of a Postgres call.
* **Leads.** `History` says of each lead that its recorded statuses are
  consistent, and of each handler that what it read was true of that lead once:
  its status is in `been`, the move was legal from it, and a date it saw is
  still there. The last fact is stable because nothing clears a date.
  `MovesAreLegal` adds that only three awaits change a lead, and that the one
  among them that moves it was checked against a status of its past.
* **Accounts.** What a handler has read may be stale only if `late` says so;
  what it then does to an account it must not disturb is either excused by
  `late`, `slipped` or `overtaken`, or impossible. A link that was used is never
  a stored link again, because links are numbered.
* **Search index.** `Indexing` holds a run's place against the alias: at any
  place of a rebuild its target exists, is not served and has no other writer,
  from which one index always answers. `Standing` follows a listing through a
  rebuild's pages, `Healing` says of each run which listings are already copied
  with a stamp of its own, so that the prune removes none of them.
* **Search answers.** `Fulfilled` ties each answer, stored or in the making, to
  one of the indices it was read from; the facts that remain are set theory:
  `AnswersFitTogether` says that dropping a group and adding one value of it
  gives the facet's filter, that the values beside a bucket find what is not counted
  in it, and that ranks with a tiebreaker number the results.
* **Ingestion.** `Advancing` bounds what a task still intends to write by the
  upstream version it read. A run that is not in `crossed` is the only writer of
  its source, by its replica's lock and because no other replica has a run of it.
* **Retrieval.** `Following` says of each flush that the batches partition its
  texts in order and each arrived batch holds its own vectors. The fused ranking
  is a strict order because the shared score of any two ranks exceeds any single
  score (`SharedOutranks`, which needs `TopK <= Damping + 1`: 40 and 60 in the
  code) and ties are broken; so counting the chunks ahead of one gives each place
  one chunk, and the tail that completes a reranking neither drops nor doubles any.
* **Chat.** While turns come one at a time, the newest summary was made at a count
  that is a multiple of `SummaryEvery`, covers everything of then that the window
  still shows, and is at most one period old, or two if a summary failed (`Covers`):
  what the window has lost the summary has seen.
* **Rate limiters.** `Sliding`: whoever was let through and may still count is a
  member of the set, so that those within a window shorter by the delay see one
  another. `Fixed`: there is a moment `e` from which the counter counts, which it
  does not outlive by less than a window, and what was let through before `e` is
  within the limit in any window; any time as long as a window meets at most two
  such lives. `Used` says that whatever a counter, rag-svc's memory or the set holds
  is of a request that uses the limit, so that a refusal has as many others to show.
* **Catalogue.** `Promised` says that a number in hand is still the count, and a
  compound found without listings still has none, unless another write came
  between and marked the request late; so each recount ends right or in `unsure`.
* **Web.** The invariants follow each call through being sent, refused, waiting
  for the shared refresh and sent again. `CalmInv` holds while no overlap has been
  recorded: the page's list is the account's, up to the calls still under way.
* **Query cache.** `EntryFits` says what an entry, its running call and the
  changes not yet told may differ by; every action keeps it.
* **Panel and page.** `WidgetInv` and `PageInv` name, for each late arrival, where
  it may still land. `PageTypes` is all that a list of types needs, so that its
  proof does not depend on how many there are. The badge is bounded by the streams
  that have been announced plus those that have ended, of which a step that counts
  adds one.
* **The last payment.** `power` is a recursive function, and what it computes follows
  by induction over the naturals. The library's induction theorem takes a predicate,
  which the provers cannot instantiate, but its least-number principle (`WFMin`) takes a
  set: `Induction` says it of sets, and `Powers` gives the recurrence of `power`.
  `Closing` then follows a schedule: `Excess` is what the last payment would differ by
  if nothing were rounded from here on, multiplied out so that it stays a whole number,
  and each month adds at most half a piastre with the interest on it (`OnCourse`).
  Without interest only the regular payment was rounded (`Evenly`).

Only model-checked:

* liveness (`RevocationEndsSessions`, `CacheConverges`): fairness is outside the prover;
* `ImplementsSingleUse` once tokens expire, and `StoresAgree` of racing writers: the
  first is false (a token that expires between the checks of a refresh and its answer
  is still exchanged), for the second see section 5;
* the four runs that end in a counterexample, whose properties are false;
* the cases a theorem's assumptions exclude, in which the property fails or the
  runs stay silent: section 5 says which fail.

## 5. Where the code and its comments part

Four runs end in a counterexample, listed under `findings`: `SingleUse`,
`AreasCounted` (an update that moves a listing recounts the area it left only),
`NotifiedIsIndexed` (search-svc does not find api-core's listings by the uuid
it is told; it stores the seed's old copy of a seeded one) and
`LinkShowsTheSame` (`search-client.tsx:74` keeps the last value of a repeated key,
so an address with two types, opened, searches for one).

Other divergences met while modelling have no run of their own. Each is a state
these modules reach under the constants named here, unless it is said to be read
only.

* *Pipeline, two handlers.* `leads.service.ts:16` calls `won` and `lost`
  terminal; an update that read the lead before another closed it reopens it
  (line 214). Likewise two updates to `contacted` write two dates, though
  `leads.service.spec.ts:222` says the first is kept.
* *Lead counter.* Deleting a lead (line 232) leaves `stats.leads` as it was;
  `properties.service.ts:469` says it is kept in step.
* *Mirror, two handlers, no failure.* Two updates reach Mongo and Postgres in
  opposite orders (`property-mirror.service.ts:93` and `:106`) and the stores
  stay different: `StoresAgree` fails.
* *Mirror, `MayCrash` or a lost Postgres answer.* A death between lines 65 and
  68 leaves a document with no row; a row whose insert committed but threw
  outlives the document that was undone. `BothOrNeither` fails in both.
* *Rollback over a counter.* Line 124 writes back a whole document read
  earlier; a favourite counted meanwhile is lost. `FavouritesCounted` leaves the
  listings in `undone` out.
* *Third cache key.* A copy read by ObjectId is invalidated by no write
  (`properties.service.ts:572`).
* *Access tokens.* `users.service.ts:98` says a deactivated account is shut out
  before its access token expires; only refresh tokens are revoked.
* *Redis outage, `RedisMayFail`.* The denylist write of a rotation is dropped
  and parent and heir both work: `HeirReplacesParent` fails, against
  `cache.service.ts:10`.
* *Login or refresh inside a revocation.* A login, or a refresh past `CheckUser`, that
  remembers its pair after the sweep (`token.service.ts:232`) hands out a session that
  the revocation does not end: if its row is inserted before `updateMany` (`:251`) it
  is revoked, but the marker keeps the token accepted; if after, both stand. So a device
  that was refreshing outlives a password change, against `auth.service.ts:239` "A password
  change invalidates every existing session", and a deactivation, against `users.service.ts:97-101`.
* *Denylist entries of a revocation, `PostgresMayFail`.* An entry gets the floor of
  the seconds left (`token.service.ts:246`) and may end up to a second before its token.
  If `updateMany` (`:251`) was refused or is still to come the row is live, and the
  token that had been refused is accepted again: `Scan; FindLive; DenyLive; RetireAll`,
  refused, then `LapseDenial`.
* *Reset links.* Two requests that have both looked one link up both set a
  password (`auth.service.ts:219`, `:230`, against `auth/dto/auth.dto.ts:80`
  "Single-use token"). A reset clears whatever link the row has by then, so a
  newer one that was just mailed is dead. `changePassword` leaves an outstanding
  link in force.
* *Administration.* An administrator who sends a role back as they read it
  changes it if a superadmin changed it meanwhile, without being one and without
  a revocation (`users.service.ts:116`, `:149`). A removal whose `deleteMany`
  (line 183) throws leaves the sessions. A Google link made to a disabled account
  stays.
* *Search, Mongo fails.* `count_properties` answers 0 (`search-svc/app/db/mongo.py:91`),
  the run takes the seed for its source, succeeds, and prunes every listing that is
  not in the seed, though `indexer.py:219` prunes only so as not to "delete listings
  that are still live upstream". `fetch_source_document` falls back in the same way.
* *Search, overlapping rebuilds* (`RebuildsOverlap`). Nothing keeps two apart: the
  second deletes the first one's target, and the alias may be left without an index.
* *Ingestion, two replicas.* "Only one run per source may mutate the corpus at a time"
  (`rag-svc/app/ingestion/pipeline.py:43`) is an `asyncio.Lock` in one process, and rag-svc
  is deployed with two tasks or more (`variables.tf:464`, `prod.tfvars:48`). Two requests
  that both find no active run start a run each, and the slower one replaces a newer
  document by the older one it loaded, or prunes a new one: `CorpusMovesForward`
  and `WhatSucceededIsStored` fail without `crossed`. A document whose new version has no
  text, or makes no chunks, is skipped without an error (`pipeline.py:224`, `:239`) and
  its old version stays in the corpus and in answers.
* *Ingestion.* `active_for_source` never sees a run of "all"
  (`ingest_routes.py:61`); a restart leaves a row active for ever, and its source
  is then refused unless forced; the guard of the prune ignores `langs`, and a
  fall-back on the seed prunes what Mongo still has; an exception that line 161 or
  170 of `pipeline.py` does not name escapes `run`, which says "Never raises".
* *Chat.* A question stored without its answer makes the count odd, and
  `should_summarise` (`thread_memory.py:190`) is never true again until another
  one is; the first summary, at 24 messages, covers 3 to 24. Two turns that overlap
  step over the multiple of eight, and the later one writes its old profile back.
  `chat_routes.py:7` promises the replay of an answer in flight, whose frames are
  saved only at its end.
* *Limiters.* `rag-svc/app/core/redis.py:117` says "Atomic sliding-window counter";
  it is a fixed window, and its expiry a second call. If that call of reports-svc is
  lost the caller is refused for ever (`rate_limiter.rb:39`).
* *Web.* Favourites stay on the page after a logout and are pushed to the account of
  whoever logs in next. A failed removal puts back the list as it was before
  (`favorites.store.ts:109`), over what changed meanwhile; a sync counts a push that
  failed as saved. A failed login asks for a refresh, and without a cookie ends the
  session there was; a logout that did not get through leaves the cookie, and a later
  refresh signs the person in again.
* *Limits reached by counting first.* Two saved searches created at once overshoot
  the limit (`saved-searches.module.ts:96`; read only).
* *Catalogue.* Two recounts of one developer can end with the older number. A
  compound written to a listing between the count and the delete of its removal is
  set to null by the foreign key. Removing a developer asks for its compounds, not for
  the listings that name it directly. Documents in Mongo keep a compound's old name,
  though the web client invalidates listings for the new one.
* *Facets and their filters.* A year of instalments is counted exactly and filtered as
  that year or more (`query_builder.py:614`, `:284`); a year of delivery is counted alone and
  filtered as delivered by its end (`:600`, `:278`); a price bucket leaves out its upper
  end, which the range it becomes includes (`:585`, `:306`). So these facets show fewer than
  selecting them finds. Amenities are counted each alone, and several selected must
  all be there.
* *Pages by relevance.* The default order decays with the age at the time of the query
  (`query_builder.py:349`), and pages are asked for, or cached, at different times: one may repeat
  or skip a listing, against "Deterministic tiebreaker so pagination never repeats or
  skips a listing" above `SORT_TIEBREAKER`.
* *Search answers.* A response read before a write and stored after the sweep stays
  until its TTL, and the namespace is there "so a reindex can flush them all"; creating
  a listing does not invalidate searches. `_facets` replaces a total of 0 by that of
  the text alone. `facet_builder.py` has no caller, and `useSimilarSearch` reads `hits` where
  search-svc answers `results` (read only).
* *Memory.* `thread_memory.py:7` has summaries "refreshed every SUMMARY_EVERY turns";
  the code (188–190) counts messages, two to a turn.
* *Agent.* `lastTools` outlives turns that call no tool, so that a confirmation may
  confirm what was offered several turns before.
* *Retrieval.* `_send_dimensions` is put back by a call that was under way when
  another was refused (`embeddings.py:144`, against the comment above it), and that
  call fails for good. `reranked` is true though reranking failed, and `degraded` follows
  the configuration only (`hybrid_search.py:173`). An unknown price is stored as 0 and
  passes "under"; of several figures after one keyword the first counts, so "under 200 m²
  under 8 million" loses its price. A document stored anew between the two branches may be
  answered in both versions. Vectors of the offline provider stay when a live key comes,
  as only the text is compared. Streamed generation is not retried (read only).
* *Finance.* A level payment that does not exceed the first interest repays everything
  in the first month; instalments rounded up may leave instalments of nothing at the end.
* *Query cache, what hooks overlook* (`Overlooked`). A mutation names the key space it
  writes and a few more (`queries.ts:629`); other answers it makes untrue count as fresh. A listing's change does not
  invalidate the favourites list, which shows it (`favorites.module.ts:57`), nor the counts of
  compounds, developers and areas, the enquiries that name it and the reports; a new
  listing not the searches. A favourite or an enquiry does not invalidate the dashboard,
  which counts both (`types/user.ts:90`), nor the listing's own counts. A renamed compound,
  area or person stays under the old name in the enquiries, and a compound added or
  removed leaves the numbers of its developer and area.
* *Query cache.* A first load overtaken by an invalidation counts as fresh with what
  it read before. A session that ends by a refused refresh leaves what it read in the
  cache.
* *Panel.* The `finally` of an older question clears the flags of a newer one
  (`chat-panel.tsx:183`): it can then not be stopped. A transcript that comes late
  replaces messages, whose further pieces are dropped, and after "New chat" brings the
  old ones back. A first question that fails or is stopped leaves a thread nobody
  returns to. A logout keeps the thread, which is then refused to the next person until
  "New chat". A stopped message shows as being typed.
* *Search page.* The address is read when the page is mounted only:
  `syncFromQueryString` has no caller, against the comment at `search-client.tsx:61`. Typing
  back to the last searched text within the pause shows it and does not search it; a
  space at the end of what is being typed is taken away. A draft applied over a query that was
  searched after the sheet opened undoes it. A page chosen from the previous results
  may not exist in the next. `?bedrooms=` becomes `[0]`; Enter in the omnibox within
  250 ms takes a suggestion for the previous text (`omnibox-search.tsx:124`); both read only.
* *Listing forms* (read only). A missing title, price, location or plan ends in a
  TypeError and 500; `isFeatured: null` and amounts above 2^31-1 are refused by Postgres
  only. An update of the area leaves `pricePerMeter`, one of the price `monthlyInstallment`, as they
  were. Two images marked primary are both kept, against "Exactly one primary image,
  always". Reference TC-9999 sorts after TC-10000 (`properties.service.ts:551`).

## 6. Plan

1. **Listing forms**: slugs and reference numbers (`properties.service.ts:203`,
   `:551`), the derived fields that an update recomputes, saved searches.
2. **Composition**: `WebClient` with `Sessions` and `Listings` reduced to their
   abstract specifications; `SearchIndex` with the writes of `Listings`; `Retrieval`
   below `IngestionRuns`, one flush of which it is.
3. **Abstract specifications** of a listing in two stores and of a served index, of
   which `ListingsAreWhole` and `RunsHealTheIndex` are the step-by-step parts.
4. **Proofs**: the cases of overlapping rebuilds that do hold.

## 7. What is left out

* **Inside the modelled parts.** Names, messages and notes (one value or none);
  the views counter; the list and catalogue caches of api-core; the lookups that end a
  request before it changes anything; in `Listings` the search-svc notification, which
  touches none of its stores (`SearchIndex` has it), and slugs and reference
  numbers; request validation and roles of callers.
* **Inside the modules of `platform` and `market`.** What each leaves out is said at its
  head: among them the start-up run and the partial runs of search-svc, and a reindex
  that is asked for without pruning or from one source only (`schemas/admin.py:29`), scores,
  replays of the chat, the circuit breakers, other tabs, profile edits.
* **Real time.** A TTL or an expiry is a step that may come at any moment the
  code allows, in the order the code guarantees: a denylist entry of rotation or logout
  with its token, one of `revokeAllSessions` with it or before. Only `RateLimits` has a clock.
* **Stores.** A single call to Redis, Postgres or Mongo is atomic, except
  `delByPattern`, whose `SCAN` is one step here: it returns every key present
  throughout it, and a key added during it is treated as added after.
* **Between services.** `WebQueries` takes what api-core answers for what it has: its own
  caches, the index of search-svc and the delay of both are in `Listings`, `SearchIndex` and
  `SearchQuery`.
* **Whole parts.** Rendering, components and pages other than the search page and
  the panel; DTOs, filters and the HTTP envelope; PDF and CSV; saved searches, audit,
  uploads, administration; the Flutter client; outside services (LLM providers, object
  storage, mail), deployment and seed data.
