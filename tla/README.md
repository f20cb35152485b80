# vagrantNet in TLA+

vagrantNet serves pages, files and message boards over a MeshCore LoRa mesh. This
directory models its protocol and its state in TLA+, checks the models with TLC and proves
the properties that matter most with TLAPS. Paths below are relative to `src/`;
`PROJECT.json` maps every definition to the lines it models.

Contents: [the system](#the-system) · [the modules](#the-modules) ·
[the runs](#the-runs) · [where the code differs from what it says](#where-the-code-differs-from-what-it-says) ·
[the proofs](#the-proofs) · [what is only model-checked](#what-is-only-model-checked) ·
[what is not modelled](#what-is-not-modelled) · [plan](#plan)

## The system

A server process and any number of client processes each own one companion radio. All
traffic is datagrams of at most 160 bytes (`MAX_SAFE_PAYLOAD`), which the mesh loses,
delays, duplicates by retry and reorders. Each process is one asyncio event loop, so two
handlers interleave only where one of them awaits.

| Part | Code | State it keeps | Operations | What makes it right |
|---|---|---|---|---|
| Post protocol | `client.py` `post`, `_send_and_wait`; `server.py` `_handle_post`, `_commit_post`; `boards.py` `UploadStore` | per call: request id, chunk in hand, timers; server: open uploads, committed ids | send, time out, hear an ack, start over; accept, assemble, commit, refuse, expire | a post is stored at most once; a reported success was stored |
| Transfers | `store.py` `TransferStore`; `server.py` `_handle_get`, `_handle_continue`, `_send_chunk` | table of 256 tokens, with creation and completion times | start, find again, continue, mark done after the send, sweep | the caps hold, a retry shares its transfer, a token means one transfer |
| Fetch | `client.py` `fetch` | chunks so far, token, checksum | request, CONTINUE, retry, give up, reassemble | what is returned is a page as it stood |
| Wire format, compression | `envelope.py`, `chunking.py`, `compress.py` | none; a build has a dictionary | encode, decode, split, reassemble, compress for a peer | what is written is read; every frame fits the radio; every reply can be opened |
| Server lifecycle | `server.py` `run_forever`, `connect`, loops; `transport.py` `autodetect_serial` | link, port, stop and link-down events, tasks | search, connect, serve, tear down, back off, stop | it recovers, it stops, it holds one link |
| Container entry point | `docker/entrypoint.py` | files of the data directory, configuration | seed, write the configuration, become the server | the owner's files stay, the server starts on whole ones |
| Reply routing | `server.py` `_on_contact`, `_contact_refresh_loop`, `_learn_reply_path`; `routing.py` | contact records | renew, look up, store | a reply takes its client's path; the radio is asked once |
| Discovery | `discovery.py`; `server.py` `_announce_identity`, `_advert_loop`; `client.py` `_on_advert`; `tui.py` `discover` | name and adverts of a node; the client's contacts and its list | announce, flood, hear, scan, list | every server known is listed, no hidden one is, all are found in the end |
| Client link | `client.py` `_supervise`, `_redial`, `disconnect` | link, handlers, supervisor, heartbeat | watch, redial, leave | it recovers, and leaves nothing open |
| Board log | `boards.py` `append_post`, `_read_posts`, `last_seq`; `post.py` | `posts.jsonl` | number, append, read | the log only grows, numbers are its places |
| Board pages | `boards.py` `render_*`; `server.py` `_load_board_page`; `tui.py` `open_page`, `post` | none; reader: path, links, seen | render, open, post | paging misses nothing, links are served |
| Content | `server.py` `_load_content`, `_list_downloads`, `_allowed`; `safepath.py`; `tui.py` `list_pages`, `get_file` | pages and files on disk; the page last shown | list, open, download, save | what is listed can be had, `!allow` keeps others out |
| Page format | `page.py`; notices and posts in `boards.py` | none | strip, parse, number the links | what was written is what is shown |
| Client configuration | `client/config.py`; `tui.py` `mark_seen` and the commands | saved servers, favourites, read marks; one file | load, change, save in place | what was saved is there; a mark is of the server it is used for |
| Shells and tabs | `tui.py` `Shell`, `VagrantNetUI`, `repl_main` | current page, links and history; tabs | open, follow, back, home, post, compose; open, select, close a tab | links and posts belong to the page on the screen |
| Server configuration, airtime calculator, tools | `server/config.py`, `airtime.py`, `tools/` | see [below](#what-is-not-modelled) | | |

How they interact: `Shell` calls `fetch` and `post`; both go through `_send_and_wait`,
which encodes a request and awaits an answer by request id. The server's
`_process_request` hands a frame to `_handle_get`, `_handle_continue` or `_handle_post`;
a GET reads the pages directory or renders a board, and the transfer store keeps the
chunks for the CONTINUEs that follow; a POST goes through the upload store to the log of
the board. Every answer goes out on the path that reply routing knows. The link
supervisors on both sides replace the radio object under all of this, and the container
starts the server again when it ends.

What is hard here, and hard to test:

- *Loss, delay and retry.* Any frame may be lost or arrive after its sender gave up, was
  answered, or moved on to the next chunk. Both memories of the server have lifetimes
  (120 s, 300 s, 60 s) that race the client's deadline (90 s, or three timeouts).
- *Restarts.* The server's uploads, committed ids and transfers are in memory only; seeding
  and saving stop half way.
- *Awaits.* State is read before an await and used after it: the transfer whose final
  chunk was sent, the contact record whose path was asked for, the page a tab showed, the
  server a mark is for.
- *Files.* The log and the client's configuration are written without a lock or a rename;
  writes may stop half way.
- *Two ends, one rule.* What a path is, which links a page has and what a listing offers is
  decided in four files on two machines.
- *Boundaries.* Lengths at the limit of a frame, three bits of an attempt counter, one
  byte of chunk count, 4096 bytes of a window, 32 bytes of a name.
- *Liveness.* Nothing must wait for ever on a radio that is mute.

`PROJECT.json` lists each of these as a hazard at its line, with the properties that
cover it.

## The modules

`A -> B` reads "A extends B"; `A => B` "A is checked to implement B".

```
PostUpload => PostOnce                       MCPostUpload -> PostUpload
Fetch -> Transfers,  Fetch => PageRead       MCTransfers -> Transfers,  MCFetch -> Fetch
Frames -> PostFrames, ReplyFrames            (both -> Envelope, Compression)
Container -> ServerLifecycle
Contacts -> ReplyPath, Directory
Site -> BoardLog, BoardPages, Markup, Content
BoardLog => Board                            BoardLog -> Places
Client -> ClientState, ClientLink
Tabs => History                              MCTabs -> Tabs
*_proofs -> the module they are about
```

`PostOnce`, `PageRead`, `Board` and `History` are the abstract specifications: what a
post, a fetch, the log of a board and going back promise, in a page each. They are also
the seams of the project: a module that needs a lower one assumes its abstract
specification rather than extending it, and repeats none of its mechanism. `BoardPages`
takes its log from `Board`; `BoardPages`, `Content`, `Tabs` and `ClientState` take a fetch
from `PageRead`: it returns what there was at one instant, or fails.

`Site`, `Contacts`, `Frames` and `Client` put parts side by side that do not change what
another looks at; in each behaviour one of them moves and the others are at rest. That is
enough to check them as one run, and since the parts share no state a property of one holds
whatever the other does.

**PostUpload** is one action for each branch of the client's stop-and-wait loop
(`StartPost`, `Send`, `SendRefused`, `Timeout`, `AckAdvances`, `AckRestarts`,
`AckFails`) and one for each branch of `_handle_post` (`Deny`, `AckCommitted`,
`TooManyOpen`, `UploadUnknown`, `AcceptPartial`, `ChecksumFails`, `Commit`,
`CommitRejected`); a handler runs without an await up to its ack, so it is one step.
Frames in the air are sets: a frame that was sent may be received, or lost by being left
until it is too old. `Tick` advances the clock, never past a due timer of the client.
`warned` records what the client logs and ignores, an ack that names another chunk
(`client.py:495`). A server loses its uploads in two ways, counted by `losses`: it restarts
(`Restart`), or the append of a complete upload raises, the disk being full
(`AppendRaises`), after the upload was closed and before it is acknowledged.

**Transfers** is the table of tokens under any sequence of GET and CONTINUE. `Swept` is
`_sweep`, applied at every read. The handler of a final chunk awaits the send and then
marks the token done: that is a step of its own (`FinishSend`), later than the handler.
**Fetch** puts a client on one side of it and pages that are edited on the other; the
calls in `Others`, one of the same client and one of another, are followed at the server
only, where they take tokens and places. `retaken` records that a token of a call went to
another call of its client.

**Envelope** packs and unpacks the frames byte by byte, as functions; **Compression** says
which dictionary a payload goes out with and who can open it. **PostFrames** and
**ReplyFrames** are the two loops that cut content into frames and put it together, and
**Frames** has either of them over one radio.

**BoardLog** is a file as a sequence of rows with an end that may be torn. Numbering and
appending are two steps, so that two processes may interleave (`Reads`, `Writes`,
`Stops`); a client opens the board and later looks at the index, which takes the last
number from a window at the end of the file. **BoardPages** renders thread lists, threads,
the archive and a month from a log, and has a reader walk through the links. **Markup**
takes a text from its author through the server (`strip_server_directives`, the notices
with their budget, the posts of a thread) to the client's parser. **Content** is the
directories of the server, what it lists and sends of them, and what the client makes of
a path; the operator edits in between.

**ServerLifecycle** and **ClientLink** follow a program counter through `run_forever` and
`_supervise` against a radio that is well, mute or gone. How long a wait lasts is left
out: each wait ends at any time. The radio may come back under another port, and the
server looks for it (`ListsPorts`, `ProbeOpens`, `ProbeEnds`) when its target is `auto`. A close that
raises and is only logged may leave a link open (`ClosesQuietly`); `leaked` counts those. **Container** puts
the entry point and the container's restart policy around it: files are seeded one at a time, a
power cut may come at every step, and the owner writes and deletes files meanwhile.

**ReplyPath** has the server's contact records, with a generation that tells the dict in
the table from the one a lookup holds. **Directory** follows a name from the configuration of a
node through its adverts, the contact table of another radio and the events of the
library into the list of the Shell.

**ClientState** is the configuration file, each process's copy of it, and the pages asked
for that have yet to set their mark. **Tabs** has one `Shell` under either front end
(variable `repl`, which never changes): the line shell waits for a command to end, the
full-screen one spawns it as a task of the active tab. A command is a step up to the await
of its fetch and another after it, which is `Loaded`, `Fails` or, the page being there and
the Shell having gone to it, `MarkFails`: the save of the mark raises (`SaveFails` of
`ClientState`) and nothing is shown. `latest` is the tab that was loaded last, and
`unshown` tells that such a page is the current one.

Definitions that begin with the comment "Variant:" are not part of a specification. They
are plausible mistakes in the definition below them; replacing that definition by its
variant must make the property named in `PROJECT.json` fail.

## The runs

A run that is expected to pass explores its whole state space. Deadlock is not checked
where the bounds let the system stop.

| Run | Question | Bounds | States |
|---|---|---|---|
| `PostUpload` | stored at most once; a clean success is stored; the inductive invariant; PostOnce | 1 post, 2 chunks, 3 request ids, 1 corrupt frame, upload life 5, deadline 2, frames live 2, 20 ticks | 55 000 |
| `PostUpload_live` | `max_open` holds; `post()` ends | 2 posters, one of them rejected, room for 1 upload, 1 restart or failed append, 9 ticks | 627 000 |
| `Transfers` | caps, one transfer per request, tokens keep their transfer | 2 clients, 3 requests, 3 tokens, caps 3 and 2 | 29 000 |
| `Fetch` | `fetch()` returns a page that stood (PageRead) and ends | a page of 1 to 3 chunks, 1 edit, 1 restart, another call of the same client and one of another client, 1 token, deadline 2, 6 ticks | 669 000 |
| `Frames` | every frame fits, is read as written and can be opened, what is sent arrives, near retries differ | a radio of 20 bytes, posts of up to 3 slices, replies of up to 4 chunks and one byte more, 9 attempts, builds with either of 2 dictionaries or none | 1 489 000 |
| `Container` | one link; the owner's files stay; the server starts on whole files, stops when told to, and runs unattended | 2 ports, target `auto` or a port, 2 attempts, 2 changes of the radio, 2 pages and 1 board to seed, 1 edit, 1 power cut or stop, the teardown may raise, 1 close of a probe or of a failed connect too | 1 044 000 |
| `ServerLifecycle_hidden` | a hidden node (violated, see below) | the radio changes once, 4 attempts | 330 |
| `Contacts` | replies take their own path, which is asked for once; the list is right; servers are found | server: 2 clients, 4 reports, 4 requests; client: 2 nodes, one with a long name, 2 losses, switches or failed scans | 171 000 |
| `Site` | posts stay, new posts are newer, unread counts, Board; paging misses nothing, links stay served; texts are shown as written; listings open, `!allow` keeps out | log: 2 writers, 4 posts, 2 torn writes; pages: 6 posts, 2 to a page; texts of up to 5 lines, notices of 2; 8 paths, 2 readers, 2 changes of the operator | 628 000 |
| `Client` | what was saved is there, marks are of their server; it recovers, nothing opens after `disconnect()` | 2 processes, 1 name, 2 servers, 2 posts, 5 commands, 2 tabs, 1 save cut short; the radio changes 4 times, the teardown may raise | 407 000 |
| `Tabs` | the screen and the Shell agree but where a mark could not be saved, pages stay in their tab, closing keeps the active tab; History | 4 pages; 5 commands in the line shell, or 3 in 3 tabs; each may fail, in its fetch or in the save of its mark | 819 000 |

*Why these bounds are enough.* They are the smallest in which the cases meet. Time is
counted in units of the shortest timeout, with the order of the real constants kept
in the module's assumptions (`DedupeWindow`, `FetchWindow`): memories longer than deadline,
jitter and delay together, a linger time of twice the delay. In `PostUpload` and `Fetch` the deadline is longer than a
timeout, so a request is sent twice, a late answer can meet the next chunk, an upload
can expire under a slow poster, and a committed id can be forgotten. `PostUpload_live`
trades the second timeout for a second poster and a loss of uploads: what it retries is a
frame the radio refused. Two chunks have a first, a last and a boundary between them; three have a
middle one. Two clients and two transfers for each reach every refusal of the store, with
a token to spare; the one token of `Fetch` is given out again as soon as it can be. Three
request ids are a call that starts over twice, the limit of `post`. A radio of 20 bytes
leaves room for a few bytes of content beside the longest header, so every length passes
each boundary on either side; the theorems lift this to any length. Nine attempts are the
first at which the three bits wrap; three dictionaries are none, the same and another.
Six posts are three pages of threads. Five lines are a notice that is cut and a colour
before and after the cut. The eight paths are one of every sort that either end treats
differently. Two ports are the one the server found and another. Three commands are enough
for two tabs to overlap and for one more to follow. Request ids are drawn once
each: that two draws of 16 bits meet is left out.

`Tabs`, `Transfers` and `PostUpload` use symmetry, in sets whose members no
definition tells apart; none of the runs with a liveness property does.

*Fairness.* `PostTerminates` and `FetchTerminates` assume that the event loop runs a timer
that is due, that a suspended send ends, and that the clock goes on. They assume nothing
of the radio: every frame may be lost. `StopEnds`, `RunsUnattended`, `Recovers` and
`LinkRecovers` assume that the loop runs the server or the supervisor, that the heartbeat
notices a link that does not answer (its query has a timeout of 15 s, `client.py:38`), and, in a
container, that docker starts what ended and kills what does not end in time (`StopsLate`).
They assume neither that the library
reports a lost link nor that the radio comes back: the properties say what happens if it
stays well. `asyncio` runs ready tasks and timers in order, and each of these waits has a
timeout in the code, which is what weak fairness of the steps says. `ServersAreFound`
assumes that nodes flood again, that a user scans again and again and a scan ends; of the
mesh it assumes that an advert which is flooded again and again is heard in the end
(strong fairness of `Hears`), which is what flooding is for.

## Where the code differs from what it says

The run `ServerLifecycle_hidden` shows one of these and `PROJECT.json` quotes the line it
is about. The others were met while the modules were written. The properties of the passing
runs except them, in words of their own, and each exception says so where it is stated: it
is the place to look at when the code is changed, and a module without the exception is the
test of a repair.

*Posts, transfers and fetches*

| Where | What happens | How the properties treat it |
|---|---|---|
| `client.py:486`, `boards.py:97` | the server restarts between a commit and its ack: the resend of the last chunk is unknown, the post starts over under a new id and is on the board twice | `PostedAtMostOnce` and `PostInv`: `losses = 0` |
| `server.py:529`, `boards.py:205` | the append of a complete upload raises (the disk is full): the upload is closed, nothing is acknowledged, and with a late copy of chunk 0 of a post of three chunks or more the client can come to see success for a post that was never stored | the same |
| `client.py:495`, 256 | all chunks of a post share a request id; the second ack of a chunk that was sent twice is taken for the ack of the next one, the mismatch is only logged, and `post()` returns without the last chunk having arrived | `CleanSuccessIsStored`: `~warned`; in `PostOnce` such a success is unconfirmed |
| `client.py:391`, 424; `server.py:539` | after a restart a late copy of the first request starts a new transfer, under the same token, of a page that was edited; the fetch goes on in it, and if the new page is longer no final chunk is heard and no checksum compared: a page made of two | `ImplementsPageRead`: `Disturbed` |
| `client.py:400`, `store.py:33`, 47 | the server tells clients apart and not calls: once a transfer has expired, or has lingered its 60 s, its token may be that of another fetch of the same client (a second tab), and a CONTINUE takes chunks of that page; without a final chunk among them no checksum is compared | `Disturbed`: `retaken` |
| `server.py:563` | the token is marked done after the await of the send; when the transfer expired meanwhile and another request has the token, that one is marked: it leaves the caps and is not found by its retry; if frames lived for more than half the 60 s, it could be gone while its own first request is still in the air, and a page edited meanwhile be mixed in | `KeepsItsToken` allows any mark; `FetchWindow` bounds the life of a frame |
| `store.py:33`, 95 | the final chunk lingers 60 s from its first send, a client three timeouts away asks for it for 105 s | `FetchTerminates` counts the failure as an end |
| `envelope.py:175` | the attempt has three bits: the ninth frame of a slice equals the first, byte by byte, and 17 may be sent within the deadline | `NearRetriesDiffer`: less than eight apart |
| `compress.py:9`; `client.py:445` | a sender is to use a dictionary "only when the receiver has said it holds that one"; `post` compresses with its own, unasked, and a server without it turns the post down | `FramesHold` speaks of replies only |

*Links, discovery and the container*

| Where | What happens | How the properties treat it |
|---|---|---|
| `server.py:211`, 276 | the advert task of a hidden node, or of one with `advert_interval_hours` 0, ends at once; `run_forever` takes that for a lost link and reconnects for ever (README.md:38 "can serve normally") | run `ServerLifecycle_hidden`: `Recovers` fails; elsewhere `Hidden = FALSE` |
| `server.py:262`, 286 | `disconnect()` lets an exception of the teardown of a dead link through, and `run_forever` ends; the client catches it (`client.py:227`) | `RunsUnattended` relies on docker's restart |
| `server.py:62` | the port that was found is written over `auto`: a radio that comes back as another port is not looked for (README.md:40) until the process starts anew | `RunsUnattended`: `{radioEnv, target}` |
| `docker/entrypoint.py:41` | seeding that was cut short is never completed, and a directory its owner emptied is seeded again | `StartsWhole`: `cutShort`; `YoursAfterwards` excepts the emptied directory |
| `server.py:117` | a node that is switched to hidden keeps the name with `[vNet]` in its radio and stays on every list | `ListIsRight`: `advertised`, ever |
| `server.py:122`, 131, 214 | when the link fails between `set_name` and `send_advert` the next connect finds the name set and sends none, and every reconnect starts the advert interval afresh: a server on a poor link may not be found for days | `ServersAreFound` assumes that nodes flood again |
| `discovery.py:42` | `mark` counts characters where the radio has 32 bytes: a name that is not ASCII loses its marker | `ServersAreFound`: `Wide` |
| `server.py:166`, 184, 189 | a report without a path wipes out a learned path, and a lookup's result goes into a record that was replaced meanwhile; neither is looked up again | `ReplyPathIsItsOwn` allows a direct send |
| `client.py:277`, `routing.py:41` | a server that is a direct neighbour, heard with 0 hops and with no stored path, cannot be asked | not modelled |
| `client.py:233`, 241 | `disconnect()` while a redial queries its new link, or a query that raises, drops that link open | `leaked`; `NothingOpensLater` speaks of later ones |
| `transport.py:178` | the close of a probe or of a failed connect may raise, which is only logged: its link may stay open until the process ends | `OneLink`: `leaked`; that the port can then be opened again is taken for granted |
| `tui.py:117`, 119 | two connect commands that overlap leave a client open, and a `disconnect()` that raises keeps the next connect from being made | not modelled |

*Boards, pages and files*

| Where | What happens | How the properties treat it |
|---|---|---|
| `boards.py:193` | server and operator's script read the same last number: two posts, two threads perhaps, with one number | `NewPostsAreNewer`, `ImplementsBoard`: `raced` |
| `boards.py:205` | a write that stops half way takes the next row with it; one that stops before its newline lets the next number be given out again; one that stops inside a character makes the file unreadable | `PostsStay` counts tears, `bared`, `broken` |
| `boards.py:174`, 202, 258 | `str.splitlines` splits a row at U+2028 and the like, `bytes.splitlines` does not; `last_seq` reads 4096 bytes, and a row may be longer: the index and the board page disagree about the last post | `split` texts do not count as readable; `UnreadTells` asks for a last row that both can read |
| `boards.py:352` | the link to the rest of a long thread, `b/<board>/<thread>:<seq>`, is refused by the server | `LinksStayServed`: `more` |
| `boards.py:227`; `page.py` | the text of a post that opens a colour colours the rule and the closing links of its page; `!c purple` is swallowed and ends the colour before it | `ShownAsWritten` speaks of posts and their authors; the unknown colour resets |
| `server.py:577` | `!allow` without a word after it makes no restriction: the page is public | `KeptFrom` asks for a word |
| `server.py:586` and `tui.py` | `ls` names pages below `pages/b/`, which are taken for boards, and `files` names downloads called `*.vn`, `b/...` or `files`, which are opened as pages; names with a leading dot are listed and refused by the client; links out of the directory are listed and refused by the server | `ListedOpens`: the sets it names |
| `tui.py:210` | reading one thread marks all others seen | modelled as `seen`, no property |
| `tui.py:288` | a new thread posted from the archive page goes to a board of another name and is rejected | modelled as `PostRejected`, no property |

*The client*

| Where | What happens | How the properties treat it |
|---|---|---|
| `config.py:69` | the configuration is emptied and written in place: a process that ends in between, a full disk or two clients that save at once leave a file the next start refuses; of two clients the later save wins and the other's changes are lost | `SavedIsSaved`: `spoilt`, `alone` |
| `config.py:72` | marks are kept under the name as it was typed: saved for another server, it hides that server's posts as read | `MarkIsOfItsServer`: `repointed` |
| `tui.py` `Shell.boards` | the boards of all servers are kept in one list | not modelled |
| `tui.py:362` | a way back that fails is lost from the history | `History` lets pages be forgotten |
| `tui.py:202`, 210 | the Shell goes to a page before it is shown, and the save of its mark in between may raise: the tab keeps the page before, its links are looked up on the new one and posts go there, and going back leads to the page that is still on the screen | `ScreenHolds`: `unshown`, on pages of boards only; modelled as `MarkFails` |
| `tui.py:1127`, 280 | a link chosen in one tab is looked up on the page another tab loaded, and a post goes to that page's board | `ScreenHolds`: `latest`; `HistoryHolds`: `repl` |
| `tui.py:1220` | a composer that stays open over a blank tab, the last one having been closed, posts to a board that is not on the screen | modelled, no property |

## The proofs

All theorems hold for every value of the constants that satisfies the named assumptions.

**PostUpload_proofs**, from `PostConstants` and `DedupeWindow` (deadline, jitter and the
life of a frame together are no more than the life of an upload: 105 s, 2 s and the mesh's
delay against 120 s; it is what the argument turns on, and where a longer-lived frame
breaks it).

- `TypeCorrect`, `InductiveHolds`, `AtMostOnce`, `CleanSuccess`, `Refinement` (of
  `PostOnce`, for a server that drops no upload), `LimitHolds`.
- `PostedAtMostOnce` is not inductive: it says nothing of a copy of the last chunk that is
  still in the air. `PostInv` adds what each part knows of the others: every request in the
  air is recent and no later than the chunk in hand (`ReqInv`); a key its poster gave up is
  dead, neither live nor able to become so (`MovedInv`); an ack in the air is truthful about
  the server (`AckInv`); a stored post is remembered for as long as a copy of its last
  chunk can arrive (`StoredInv` with `ReqInv`); what the poster went by is in the upload
  or stored (`ProgressInv`). Commit then cannot happen twice: a second one would need a
  request in the air younger than the committed id's life, and by `StoredInv` there is none.
- `PostInv` is conditional on `losses = 0`: after a loss the properties do not hold,
  as the table above says. `LimitHolds` needs none of it: an upload is opened only where
  there is room, and a chunk 0 that is sent again finds the one it opened.

**Fetch_proofs**, about `Transfers` and `Fetch`, from `TransferConstants`, `FetchConstants`
(among them that no page is the word `PageRead` uses for a call that is under way) and
`FetchWindow`.

- Of the table, `StoreTypeCorrect`, `CapsAlwaysHold`, `RetriesShareATransfer`,
  `TokensAreKept`; the caps and uniqueness also under `Fetch`, with its restarts
  (`StoreHoldsInFetch`). A sweep and a late mark only take transfers out of flight
  (`Fades`), which keeps the caps and uniqueness; a start adds one under a free token,
  where there is room, for a request that has none. Each action is one of the two.
- Of a call, `FetchesAreReads`: `Fetch` implements `PageRead`, for any number of calls,
  clients, tokens, pages, edits and restarts. That the chunks in hand are of one body is
  not inductive, since the next ones are still on their way. `FetchInv` says what may be:
  every frame in the air is recent, and a copy of a first request was sent before the
  deadline of the first chunk (`RequestOK`, `AnswerOK`); a transfer of a call began after
  the call, on the page as it then was (`SlotOK`); what a first answer offers is still
  there, or every copy of its request has died out (`Offered`); and while a copy of it
  is in the air, the transfer the call walks through is there and will outlive it
  (`Steady`). So no second transfer of the call can take that token, and every chunk that
  comes is of the first one's body, unless another call took the token (`retaken`) or the
  server restarted. `SweptTooLate` and `SteadyLasts` are where the clock decides it.
- `FetchWindow` is what they turn on: deadline, jitter and the life of a frame are no more
  than the life of a transfer (105 s, 2 s and the mesh's delay against 300 s), and twice the
  life of a frame is no more than the linger time (60 s). The second half is needed because
  `finish` marks whatever transfer has the token, so one may be done as soon as it began:
  with frames that live longer, the refinement fails.

**Frames_proofs**, from `RoomForAChunk` (the check `chunking.py` makes when it is loaded),
`ReplyConstants`, `DictConstants`, `ShortFrames` and `FewSlices` (a chunk count fits its
byte; the number of a slice and of the slices is cut to a byte, `envelope.py:161`, and a
board takes bodies of 4096 bytes):

- Of the codec, `ResponseReadAsWritten`, `RequestReadAsWritten`, `PiecesFit`. Flags are
  sums of bits read back by division, and a frame is taken apart by the lengths of its
  parts.
- Of the two halves, `RepliesEncode`, `RepliesReadAsWritten`, `RepliesCanBeOpened`,
  `SlicesEncode`. The invariants, `ReplyInv` and `FramesInv`, describe the frame in hand in
  terms of the content and cite the lemmas of the codec.
- Of the radio they share, `FramesAlwaysHold`, `RetriesDiffer`, `AllArrivesWhole`. For the
  last the invariants also say that what is on the air is the slice in hand and what was
  read are the slices before it, in their order (`ReadOK`, `GotOK`). That the slices make
  the content again is `FlattenIs`: parts that follow each other from the start of a
  sequence to its end are the sequence (`Cuts`), by induction on how many are joined.

**Contacts_proofs**, from `PathConstants`: `RepliesTakeTheirPath`, `TheListIsRight`.
For the first, `PathInv` says of each lookup under way whose path it will bring and which
record it will write to: a record that is no longer in the table does no harm. For the
second, `MarkersAreMeant` follows the marker backwards (a marker on the air, in a table or
in a list was once configured) and `ListKeepsUp` forwards (what the client knows and the
list has not yet, the scan under way will bring).

**Container_proofs**, from `LifecycleConstants` and `ContainerConstants`: `NeverTwoLinks`,
`OwnersFilesStay`, `ServersStartWhole`. One link is a matter of where `run_forever` stands:
`Places` says what may be open at each place, `Flags` what the events say there, and
`LinkCount` follows, which counts what a failed close left open apart. The other two are about the disk at each step of the seeding: what is
still to copy is not there yet (`SeedInv`), a part of a file is being copied or was cut
short (`PartsInv`), what the owner touched is as he left it (`OwnersInv`), and the
configuration is this start's from its writing on (`ConfigInv`).

**Site_proofs**, from `LogConstants`, `PageConstants`, `ContentConstants` and `MarkConstants`;
each of the four parts has its own invariant, and `StepOfEach` says that a step of the site is a step of one of
them.

- `NothingIsMissed`, `LinksHold`, for pages of any size. `PagesInv` says that a thread the walk
  has yet to list is one that a link on the page in hand leads to (`WalkOK`), and that a link
  that is offered names a thread the log has, or numbers from which threads are listed
  (`LinkOK`): a log only grows, so what was there is there.
- `ReportedPostsStay`, `NewPostsComeAfter`, `LogIsABoard`, `UnreadIsTold`, for any number of
  writers, texts and torn writes. `LogInv` relates what is in the file to what each writer
  holds and to what was shown: a post is in one place only (`Once`), the posts that are gone
  are no more than the writes that stopped (`Losses`), the readable rows are numbered by their
  places, and a writer holds the next number, unless two wrote at once (`Numbered`), and
  what the client has read is what is there up to its mark (`Marked`).
- `WhatIsListedOpens`, `AllowHolds`. `ContentInv` says that what a listing in the
  reader's hand names is there, decodes and is for this reader, as long as the operator
  changed nothing (`ListingOK`), and that a page that came is not kept from its reader.
- `TextsAreShown`, for texts of any length and threads of any number of posts. The state says
  little here (`MarkInv`: what is shown is what the text on the wire is parsed to); the proof is
  about the functions. What `parse` makes of a text follows from what it makes of one line
  less (`ParsedAppend`), and where no colour is open, of the text and what follows it apart
  (`ParsedConcat`). From the first: both functions of the client agree on the links
  (`LinksAreThose`), taking `!allow` off changes nothing (`StrippedIsTheSame`), the colours
  are those `README` gives (`LinesAsWritten`), and what `LeavesOpen` says of a notice is what
  `parse` does with it (`LeftClosed`, from which `NoticesClose`). From the second: a post adds
  its author and its lines to a page, whatever the posts above left open (`PostMore`), and no
  other line is in an author's colour, so that `Heads` finds the posts (`ThreadsShown`).

**Tabs_proofs**, from `TabsConstants`: `ScreenIsTrue`, `PagesComeToTheirTab`,
`ClosingKeepsTheScreen`, `TheHistoryIsOne`, for any number of tabs, pages and commands.
`TabsInv` adds to the types where a command stands: one that posts began on a board, and
loads a page without entering it in the history (`Posting`), a tab that is loading has a
command that awaits its page (`Waiting`), the tab loaded last shows the page of the Shell,
unless that is a page of a board whose mark could not be saved (`OnScreen`), and the line
shell has one command at a time (`OneAtATime`), without which going back would not be a
step of `History`. That a page is entered, shown or not, keeps all but `OnScreen`
(`EntersKeepsTabs`) and is a step of `History` (`EntersVisits`).

**Client_proofs**, from `StateConstants` (a name is not itself a key, and what stands
for no file is no configuration): `MarksHideNothing`, `WhatIsToldIsSaved`. A mark is right
only if the marks on their way are: `MarkInv` says of every page asked for whose mark it
will set, and that it is no higher than that server's last post, also in the file that
the next process loads. `SaveInv` says that a client which is alone is the only one that
writes, and that the file is whole whenever nobody is saving. Of the link:
`LinkIsSupervised`, `NothingIsOpened`. A supervisor that
queries has a new link in hand, and one that was cancelled takes no step (`LinkInv`).

Recursive functions over sequences and numbers (`AtPlaces`, `FlattenSeq`, `Parsed`,
`RenderPosts`) are reasoned about by induction on sets: the set of the numbers, or of the
sequences, for which a statement holds contains 0 and every successor (`SetInduction`), or
the empty sequence and every longer one (`SeqInduction`).

## What is only model-checked

- Liveness: `PostTerminates`, `FetchTerminates`, `StopEnds`, `RunsUnattended`,
  `LinkRecovers`, `ServersAreFound` (and `Recovers`, which fails where a node is hidden). Fairness and ENABLED are out of the prover's reach.

## What is not modelled

- *zstd* and the bytes of the dictionary: whether a body is compressed is a choice, and
  its length is any.
- *Frames the decoder turns down* and peers of another protocol version
  (`server.py:701`): every frame here was made by the encoder.
- *Serial, BLE and TCP transports*, BlueZ and D-Bus, the DTR pulse, the masking of the
  PIN in errors: calls of one process on a device; a connect is a step that succeeds or
  fails.
- *Server configuration*: read once at the start; its limits and switches are constants of
  the modules, and that the file may be torn is in `Container`.
- *The linter and the ANSI codes* of `page.py`; *rendering and help* of the
  full-screen client; the turn of the event loop between a key and the first step of its
  task.
- *Airtime calculator, developers' tools*: formulas and scripts beside the running system.
- *MeshCore* itself: the radio and the library are the environment, marked external.

## Plan

The order was: posts first (what a user can lose), then transfers and fetches, links on
both sides, boards, the wire format, the front ends, and then what surrounds them:
discovery, the container, content, page format and the client's configuration. What is
left, in the order of its worth:

1. Protocol versions: what `_reply_unsupported_version` answers and what a peer of the
   other version makes of it.
2. Boards of several months: archive and month pages while posts come in.
3. `PostUpload` and `BoardLog` composed: a commit whose write stops half way.
4. The commands of `Shell` that connect and disconnect, overlapping, over `ClientLink`.
