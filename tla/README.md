# rockslide: a TLA+ model

rockslide is a personal platform-as-a-service in one process: a container
registry that clients push images to, an orchestrator that runs every image
pushed as `:prod` with podman, and a reverse proxy that routes HTTP requests to
the running containers. This directory holds its TLA+ specifications, the TLC
configurations that check them on small instances, and TLAPS proofs of the
properties that hold for every instance. Source paths below are relative to the
repository; `registry/storage.rs` is `src/src/registry/storage.rs` in
`PROJECT.json`.

## Inventory

| Component | State it keeps | Operations | Correct when |
|---|---|---|---|
| Blob uploads (`registry.rs`, `registry/storage.rs`) | `uploads/<uuid>.partial`, `blobs/<digest>` | `upload_new` (POST), `upload_add_chunk` (PATCH), `upload_finalize` (PUT), `blob_get`, `blob_check` | a blob hashes to its name, appears in one step, never changes or disappears |
| Manifests and tags (same files) | `manifests/<digest>`, symbolic links `tags/<repo>/<image>/<tag>`, temporary links | `manifest_put`, `manifest_get` | a tag never dangles, is replaced in one step, and what a GET answers is complete and was pushed |
| Orchestrator (`container_orchestrator.rs`, `registry/hooks.rs`) | `configs/<repo>/<image>/prod`, volume directories | `on_manifest_uploaded`, `synchronize_container_state`, `synchronize_all`, `load_config`, `save_config`, `updated_published_set` | the newest `:prod` push runs, complete, eventually and with directories of its own; restarts hurt nobody |
| podman (`podman.rs`, external) | images and containers by name, host ports, the saved login | `login`, `pull`, `inspect`, `run --rm`, `rm --force`, `ps` | (assumed, modelled from its use) |
| Reverse proxy (`reverse_proxy.rs`) | `routing_table` behind an `RwLock` | `update_containers`, `route_request`, `get_destination` | the table is what podman runs, with the configuration stored last; a request gets to the container it asks for, with its whole path, if a configuration lets it in that was stored since the `podman ps` of the table |
| Authentication (`registry/auth.rs`, `registry/www_authenticate.rs`) | none | `UnverifiedCredentials` and `ValidUser` extraction, `check_credentials` | a check uses the configuration that is stored; the server accepts its own podman |
| Startup (`main.rs`, `etc/rockslide.service`) | how far `main` has got | `synchronize_all`, first refresh, listen; restarted by systemd | comes up again after every crash |
| Server configuration (`config.rs`) | `master_key`, `http_bind` | `load_config` at the start | podman can log in and reach the server |
| Wire formats (`registry/types.rs`) | none | parsing | pure parsing |

**Interactions.** `manifest_put` stores the manifest and then calls the hook
`on_manifest_uploaded` inside the same request: the client's answer waits for
`rm`, `pull`, `run` and the refresh. `podman pull` is itself a client of the
registry of the same process, with the credentials that `main` made of the master
key and at an address that `main` guessed from `http_bind`. The hook's refresh and the one of a configuration
PUT read `podman ps` and the configuration files, build a table and swap it into
the proxy. At startup `main` does the same before it listens.

**What is hard here.** Every handler is an async function, they share the
directories and podman, and there is *no lock* except the one around the swap of
the table. So:

* between any two awaits other handlers run (check-then-open of an upload,
  hash-then-rename, list-then-load-then-swap, rm-then-pull-then-run);
* a handler is *dropped* when its connection breaks. An operation that it handed
  to a tokio blocking thread still completes, possibly during the client's retry;
* `tokio::fs::write` truncates and then writes: readers see the state in between,
  two writers of one file interleave, an error or a crash leaves it torn;
* the server waits for podman while podman waits for the server;
* podman keeps its login, its images and its containers when rockslide restarts,
  possibly with another key, and hands out the port of a container that stopped;
* the process may die anywhere and is started again by systemd over whatever the
  directories and podman hold;
* errors are often logged and not returned (the hook, the refresh), so the answer
  does not tell the client what happened.

`PROJECT.json` lists these, each at its line, with the properties aimed at them.

## Plan

1. *Blob uploads*: `BlobUploads`, abstract `ContentStore`. **Modelled, checked,
   proved**, the refinement of `ContentStore` included.
2. *Manifests and tags*: `ManifestStore`. **Modelled, checked, proved.**
3. *Orchestrator, startup and table refresh*: `Orchestrator`. **Modelled, checked,
   proved**, but for liveness.
4. *Names and routing*: `Names`, `Subsequences` and `Routing`, pure operators.
   **Modelled**, checked and proved about through `ReverseProxy`.
5. *Requests through the proxy*: `ReverseProxy`. **Modelled, checked, proved.**
6. *Composition* of registry, podman and orchestrator: `Deployment`, with `Auth` and
   `Volumes`. **Modelled, checked, proved**, the refinement of `Orchestrator`
   included, but for the liveness of a push.

Every invariant and every action property that a passing run checks is also a
theorem. What is left for TLC alone is liveness (see *Proofs*).

## Modules

| Module | What it is |
|---|---|
| `BlobUploads` | POST, PATCH, PUT and GET of blobs over `uploads/` and `blobs/` |
| `ContentStore` | abstract: a content addressed store that only grows |
| `BlobUploadsProofs` | theorems that hold for every client |
| `BlobIntegrityProofs` | theorems for clients that wait for their answers |
| `ManifestStore`, `ManifestStoreProofs` | PUT and GET of manifests over `manifests/` and `tags/` |
| `Names` | container names, tags and directory names, and how they are read back |
| `Subsequences`, `SubsequenceProofs` | what is left of a sequence when elements are filtered out, by position, and lemmas about it |
| `Orchestrator`, `OrchestratorProofs` | push hook, podman, configuration files, refresh, startup; uses `Names` |
| `Routing` | the routing table and the destination of a request, as operators; uses `Names` and `Subsequences` |
| `ReverseProxy`, `ReverseProxyProofs` | requests through the proxy while containers and tables change; uses `Routing` and `Auth` |
| `Auth` | basic authentication headers, access maps and the master key, as operators |
| `Volumes` | the volumes of an image and the host directories they become, as operators; uses `Subsequences` |
| `Deployment`, `DeploymentProofs` | a push from end to end: server configuration, uploads, hook, podman's login and pull from the same server, volumes; extends `Orchestrator`, uses `Auth` and `Volumes` |
| `MC*` | instances for TLC: digests, tags, symmetry |

An action is the code of a handler between two awaits, with everything it changes.
A request lives in a slot (`req`, `task`) whose `pc` is the await it is suspended
at; in `Orchestrator` and `ReverseProxy` the slot is free again once the request
has ended. Operators named "Mutant of ..." are plausible wrong versions of the
definition that follows them; no specification uses them.

### BlobUploads

`issued` are the UUIDs that `begin_new_upload` has returned, `partial` and `blobs`
the directory entries, and `content` the bytes by *inode*, named by the upload
that created it. So a writer that has opened its file still reaches it after
`finalize_upload` has renamed it, as on a real file system.

| Action | Code |
|---|---|
| `UploadNew` | `begin_new_upload` |
| `PatchStart`, `PatchOpen` | `get_upload_writer`: existence check, then the open with append |
| `PatchFrame`, `PatchWrite`, `PatchWriteError`, `PatchFinish` | the body loop of `upload_add_chunk`: `write_all` hands a frame to a blocking thread, which appends later; `flush` waits |
| `PutStart`, `PutHash`, `PutRename`, `PutRenameError` | `upload_finalize` and `finalize_upload`: existence check, hash on a blocking thread, comparison, rename |
| `Disconnect` | the handler is dropped; a pending write or rename still happens (`late_write`, `late_rename`) |
| `Restart` | the process dies; `FilesystemStorage::new` keeps the directories |

SHA-256 is an injective operator `Sha256`. Hashing is one step: the file only
grows, so what was read is its content at the moment of the read that reports the
end. Requests that are refused before they change anything (range headers, unknown
uploads, bodies in a PUT) are the `failed` alternatives of the `Start` actions.

`ContentStore` is what a puller sees: a partial map from digests to contents in
which an entry, once stored, hashes to its name and stays. The refinement mapping
is `Pulled`, which reads `blobs` and `content`.

### ManifestStore

A manifest is its digest. `file[m]` is `absent`, `torn` or `whole`; `writer[m]` is
the unfinished write that truncated it last. All writers of a file write the same
bytes, as its name is their hash, so whoever truncated last completes it. A tag is
a link in `tags`, made under a fresh temporary name (`MakeLink`) and renamed
(`RenameLink`). `put_manifest` stores the manifest before it finds out that a
reference is a digest and no tag, and then answers with an error (`Write`). A read
is an open, which resolves the link, and a read of whatever is in the file then;
`manifest_get` answers only what parses. `gone` holds the slots whose handler was
dropped during a file operation that goes on. `pushed` and `hurt` are history.
The orchestrator's hook, which `manifest_put` runs after the store, is in the next
module.

### Orchestrator

| Action | Code |
|---|---|
| `StartupSync`, `StartupRefresh` | `main`: `synchronize_all`, `updated_published_set`, listen |
| `Crash`, `ContainerExit` | the process dies; a container stops and `--rm` removes it |
| `Push` | `manifest_put` moves the tag and calls `on_manifest_uploaded` |
| `PodmanRm`, `PodmanPull`, `PodmanStore`, `PodmanRun`, `PodmanError` | `synchronize_container_state`; errors are logged and the refresh follows |
| `PutConfig`, `ConfigTruncate`, `ConfigWrite`, `ConfigWriteError`, `ConfigVerify` | the PUT in `route_request` and `save_config` |
| `RefreshList`, `RefreshLoad`, `RefreshError`, `RefreshSwap` | `updated_published_set`, `fetch_managed_containers`, `load_managed_container`, `update_containers` |
| `Disconnect` | the handler is dropped; podman is killed (`kill_on_drop`), a file write goes on |

References are short sequences of tokens, because one conversion matters:
`image_tag` returns the tag of a listed container *with* its colon, which
`namespaced_dir` strips, so the configuration is found, and which the comparison
with the production tag does not, so `synchronize_all` leaves every running
container alone. The model keeps both.

An empty configuration file parses as the default configuration, which asks for no
password; `Torn` is a file that does not parse. `undeployed` and `refresh` are
history: they say when a fault excuses a container that is not there, or a table
that is not current.

The constants `Overlap` (`"none"`, `"others"`: one request per location at a time,
`"any"`), `Faults`, `Disconnects` and `WriteErrors` choose the environment.

### Deployment

`Deployment` extends `Orchestrator`: its actions are those of the orchestrator,
joined with what they do to the registry and to podman, and podman's pull taken
apart into the requests that it makes.

| Action | Code |
|---|---|
| `Start` | `main` loads its configuration file, which may be another one at every start, and synchronizes |
| `BlobPut`, `ManifestPut`, `ConfigPut` | a client's upload (`blob_check` and the protocol of `BlobUploads` as one step), `manifest_put` and the PUT of a configuration, for those who have the master key |
| `RemoveOld` | `podman rm`, followed by `podman login` |
| `IndexV2` | `index_v2`, which the login asks; podman saves good credentials in `auth` |
| `ManifestGet`, `BlobGet`, `PullDone` | `manifest_get` and `blob_get` for the layers that podman lacks, each checked with the saved login |
| `PullError` | a login or a pull that was turned away, met a missing blob or nobody that listens |
| `Run` | `podman inspect`, the volume directories and `podman run` |
| `Die`, `Exit`, `Failure`, `Drop` | the faults of `Orchestrator` |

`conv[t]` is where the podman that task `t` waits for is in its conversation with
the registry. `Serves` says that the server answers while handlers are suspended.
`fault` is history: the locations that the last step was a fault for.
A configuration that is written in part is left to `Orchestrator`.
`ListensLocally` compares the address that the server is bound to with the one that
`main` gives to podman; they differ when `http_bind` names an external address and
podman is local, and then every pull fails.

podman asks for the layers that no image it names has; whether it still holds those
of images that lost their name changes only how many requests it makes.

The directories in `volumes` are sequences of segments below `volumes/`; a location
is one segment there, where the file system has two, for its repository and its
image. `Resolve` is what a file system makes of a path and is used by the property
only. It says which names count: those that no later `..` takes away. No location is
`..`: podman pulls before the directories are made, and does not pull such a name.

### ReverseProxy

A name is a sequence of tokens (words, dots, dashes, colons), because container
names are put together in one place and taken apart in another. A path is the
sequence of its segments, with empty ones for doubled and trailing slashes.
Headers and credentials are those of `Auth`; a configuration is the default, `{}`,
or `{m}` for an access map `m`.

| Definition | Code |
|---|---|
| `ContainerName`, `ImageLocation`, `SplitOnce` | the name given by `synchronize_container_state` and `ContainerJson::image_location` |
| `DomainNew`, `Inserted` | `Domain::new`, one turn of the loop of `RoutingTable::from_containers` |
| `GetDestination`, `SplitPathBaseUrl`, `DestinationPath`, `Candidate` | `get_destination_uri_from_request`, `split_path_base_url` |
| `RunContainer`, `StopContainer`, `RunForeign` | podman: a push, a removal or an exit, somebody else's container |
| `PushRefresh`, `RefreshList`, `RefreshLoad`, `RefreshSwap` | `updated_published_set` after a push or a PUT: `podman ps`, `load_config` of one container after the other, the swap of `update_containers` |
| `GiveUp` | `podman ps` or a load fails, or the handler is dropped |
| `RouteToContainer`, `Admits`, `Send` | `route_request` for a container: the table is read and the credentials checked; the body is awaited and sent |
| `RouteInternally`, `MayConfigure` | `route_request` for an internal URL: master key, parsed path and payload |
| `TruncateConfig`, `WriteConfig`, `WriteError`, `VerifyConfig` | `save_config`: the two halves of `tokio::fs::write`, a write that fails, the reading back; then the refresh |

A refresh and a PUT take one step for each await, and every slot of `Requests` may be
in one: refreshes overlap each other, pushes, exits, PUTs and requests, and the one
whose `podman ps` is older may swap its table last, after the request of the newer one
was answered. What a refresh knows, in `refresh[r]`, is what is still to be loaded and
the table that it makes. The order in which podman lists containers is open: the loads
come in any order, and each inserts its container at once, which is the table that the
loop of `from_containers` makes of that order. The steps of a deployment and of a start
are those of `Orchestrator` and left out here; a push is its `podman run` and, at any
time, a refresh.

The checks of a request use only what was read with its route and belong to
`RouteToContainer`; a request that is refused changes nothing. `asked`, `open` and
`sure` of a request are history: what it names, whether a stored configuration lets it
in, and whether its port was handed out again. So are `since` and `stored`: what
started, stopped or was handed out, and which configurations the files held, since the
`podman ps` of the refresh that made the table. A refresh collects its own and leaves
them to the table when it swaps.

What the properties say is limited by what the code does:

* `AdmittedByStored` is not "the configuration stored last": two refreshes that overlap
  put an older configuration back after a PUT was answered, a refresh that loads between
  the two halves of a write takes an empty file for the default configuration, which
  lets everybody in, and a request whose body arrives late is sent under the table that
  it has read. It says that nothing else gets in: no configuration that was replaced
  before `podman ps`, none of another location, none that does not parse.
* `PathPreserved` is about the path of the `Uri` that
  `get_destination_uri_from_request` makes. Where nothing is left after repository and
  image, that is `/`, so `/repo/image` and `/repo/image/` reach the container as the same
  path; the property has the slash that is added. What `reqwest` makes of dots in a
  path is not modelled.
* `Reachable` and `SentToOwn` are about locations that survive the way through a
  container name. `PlainRepositories` excludes the others: a repository that contains
  `---` or ends in a dash, which `image_location` splits at the wrong place, and one with
  a colon, which podman refuses. The code accepts them all: `NamesReadBack` and
  `NamesCollide` (see *Proofs*) say for which ones this goes wrong.

A filtered sequence is given by the positions that stay (`Pick`).

## Runs

| Run | Environment | Shows |
|---|---|---|
| `blobs_sequential` | clients wait for each answer; I/O errors, restarts | `BlobIntegrity`, `FinalizedFileMatches`, `ImplementsContentStore` |
| `blobs_any_client` | overlapping requests, broken connections, I/O errors, restarts | `PublishedOnce`, `CreatedIsStored`, `SealedBlobs` |
| `blobs_late_write` | no overlap, broken connections | `FinalizedFileMatches` **fails** |
| `manifests` | any interleaving, broken connections, I/O errors, restarts | `TagResolves`, `TaggedIsWhole`, `PulledWasPushed`, `TagsReplaced` |
| `orch_serial` | one request at a time; podman failures, exits, crashes, broken connections, write errors | `RoutesCurrent`, `ConfigsCurrent` |
| `deploy` | one request per location at a time, uploads at any time; podman failures, exits, crashes, broken connections | `CompleteImages`, `VolumesSeparate`, `LatestDeployed`, `StartupKeepsContainers`, `ImplementsOrchestrator` |
| `deploy_live` | one request at a time, configuration files that change between starts; podman failures, exits, crashes, broken connections, fairness | `OwnLoginAccepted`, `PushAnswered`, `Deploys` |
| `orch_lost_route` | two locations at once, no faults | `RoutesCurrent` **fails** |
| `orch_old_image` | two pushes for one location, no faults | `LatestDeployed` **fails** |
| `orch_crash_loop` | one request at a time, partial writes | `ComesBack` **fails** |
| `proxy` | two slots for requests, PUTs and refreshes; containers that come and go, ports handed out again, failed writes, refreshes and dropped handlers | `Reachable`, `SentToOwn`, `AdmittedByStored`, `PathPreserved` |
| `proxy_index` | two images of one domain | `DomainOfIndex` **fails** |

The failing runs are the findings of `PROJECT.json`:

* **`blobs_late_write`**: a PATCH breaks with a frame on its way to the blocking
  thread; the client retries and finalizes; the frame lands between the hash and
  the rename, and the file no longer is what "matches" (`storage.rs:452`).
* **`orch_lost_route`**: two refreshes overlap, and the one with the older
  `podman ps` swaps its table last: a container that was answered 201 has no
  route until the next refresh.
* **`orch_old_image`**: two pushes for one location both remove the container; the
  older one runs its image, and the newer one's `podman run` finds the name taken,
  which is only logged.
* **`orch_crash_loop`**: a configuration that was written in part ends
  `synchronize_all`, and so every later start.
* **`proxy_index`**: the README says that a domain is forwarded to the image `index`
  of its repository; `from_containers` gives it to any image, the last one listed.

### Bounds

* Blobs: two uploads, two request slots, two frames, at most two frames in a file
  (`MaxFrames`; one in `blobs_late_write`), three digests of which one is of a
  content that never arrives. Two slots are enough for every race between a PATCH
  and a PUT, and for two PUTs for one upload; two uploads let a blob be replaced by
  another of the same content. A slot is used again and again, so the length of a
  history is not bounded by them. In a file of two frames a third PATCH only finds
  the file full: `PatchFrame` is guarded by `MaxFrames`.
* Manifests: two manifests, two tags, two slots. `Uuids` bounds the temporary links
  that are ever made: two, so at most two tag writes happen in a behaviour, enough
  for two that race and for one that replaces another. Requests that stop before
  `MakeLink` are not bounded.
* Orchestrator: one or two locations, one or two images, one or two configurations,
  two ports (as many as containers can run), one or two slots. `orch_serial` has two
  configurations, to tell an old one from a new one, and one image, as the table does
  not tell images apart; a second slot is taken by the write that a broken connection
  leaves behind.
* Deployment: `deploy` has two locations and two slots, two images, one of whose
  layers the other one shares, and volumes with doubled slashes, a leading dot and
  parent directories; configuration PUTs are left to `orch_serial`. `deploy_live` has
  two locations, one image, one slot, a configuration and both tags, and four
  configuration files: a key with a colon, another key, no key, and an external
  address. `Deploys` needs one request at a time: `orch_lost_route` shows what two
  refreshes do to a route.
* Proxy: two locations (a domain in mixed case, and one with dashes on both sides of
  the separator), two ports and one foreign container whose name almost has the
  prefix, one configuration besides the default, three headers (none, the user, the
  master key) and four queries: doubled slashes with and without one at the end, an
  internal URL at a domain, and a domain in upper case with a port. Two slots, as the
  races are those of two: a refresh against a PUT, a push or another refresh, a request
  against a refresh. That is about two million states; a slot is used again and again.

Symmetry is used for uploads, slots, manifests, tags, images, ports and (in
`Orchestrator`, where they are model values) locations, none of which any specification or property tells apart. `deploy`
distinguishes its images, which have different layers, and `deploy_live` and
`orch_crash_loop` use none, as they check liveness.

### Fairness

`FairSpec` of `Orchestrator` assumes weak fairness of `StartupSync`:
`etc/rockslide.service` says `Restart=always`, and a start that is possible
happens eventually, i.e. podman does not fail for ever. `StartupRefresh` gets
strong fairness: a start may be hit by another crash, but not every one of them.

`FairDeploySpec` adds weak fairness of `Step(t)` for every task, that is of what a
handler and its podman do next when nothing disturbs them, and of the failures that
are certain (a configuration that does not parse, a name that is taken): tokio polls
whoever is ready, podman commands and file operations end. A fault is never assumed
to happen and never assumed to stay away. Clients are not assumed to ask for
anything.

## Proofs

TLAPS checks the following for every value of the constants that satisfies the named
assumptions: any number of uploads, manifests, tags, locations, images, ports,
containers, requests and tasks. The assumptions say that the values that stand for
*nothing* are none of the others (`BlobAssumption`, `ManifestAssumption`,
`OrchestratorAssumption`), that SHA-256 has no collision (`Sha256Injective`), and what
names look like (`LowerAssumption`: lower case keeps dots and colons;
`PlainRepositories`, `ProxyAssumption`, `DeploymentAssumption`). TLC evaluates all of
them in the runs.

### Blob uploads

`BlobUploadsProofs`, for every client, with overlapping requests, broken
connections, errors and restarts:

* `TypeCorrect`: `Spec => []TypeOK`. `TypeOK` is not inductive alone: an action
  uses the upload and the digest of its slot, so `TypeInv` adds `RequestsOK`: a
  handler at an await works on an upload that was issued, and a PUT has a digest.
* `UploadPublishedOnce`: `Spec => []PublishedOnce`. Inductive together with
  `TypeInv`: a rename takes its file from `uploads/`, so no entry of `blobs/` names
  it yet.
* `CreatedBlobsStay`: `Spec => []CreatedIsStored`, as `blobs` only grows.
* `BlobsAreSealed`: `Spec => SealedBlobs`. Only an open creates a writer, and it goes
  through `uploads/`.

`BlobIntegrityProofs`, for clients that wait for their answers (`~Overlap`,
`~Disconnects` are hypotheses of the theorems; `blobs_late_write` shows that the
second one is needed):

* `BlobsMatchTheirDigest`: `BlobIntegrity`, and `RenamedFileMatches`:
  `FinalizedFileMatches`. The inductive invariant `SeqInv` adds to the facts above
  that at most one handler works on an upload (`Exclusive`), that its file is in
  `uploads/` and no detached thread is left (`Attached`), and that what was hashed
  is what the file holds (`Hashed`). Then a PATCH cannot grow the file of a PUT, and
  the file that is renamed has no writer.
* `Refinement`: `Spec => ImplementsContentStore`. A rename stores a content under its
  hash, or replaces a blob by an equal one; everything else stutters, because nobody
  writes to a file that is a blob. That the content is one of the store's needs
  `RoomOK`: a file stays within `MaxFrames`, and there is room for the frame that a
  handler has handed to its thread, as nobody else writes there.

### Manifests and tags

`ManifestStoreProofs`, for every client: `TypeCorrect`, `TagsResolve` (`TagResolves`),
`TaggedManifestsAreWhole` (`TaggedIsWhole`), `PullsArePushes` (`PulledWasPushed`) and
`TagsReplacedInOneStep` (`TagsReplaced`). One invariant carries them: a PUT past its
truncation has a file (`PutsOK`), the last one to truncate a file is still writing it
if it is torn and was not cut off (`WritersOK`), the temporary link of a handler is its
own and names its manifest (`LinksOK`), and what is tagged or was opened through a tag
was pushed for that tag (`TagsOK`, `GetsOK`). `WritersOK` is what makes concurrent PUTs
of one manifest harmless: whoever truncated last completes the file.

### Orchestrator

`OrchestratorProofs`:

* `TypeCorrect` and `StartupIsHarmless` (`StartupKeepsContainers`), for every client.
  The second one rests on `TagNames`: the tag that `image_tag` reads back has its
  colon and is never the production tag, so `synchronize_all` skips every container.
* `NewestPushRuns` (`LatestDeployed`), for clients with at most one request per
  location (`Overlap # "any"`; `orch_old_image` shows that this is needed).
  `DeployInv`: one handler per location (`OnePerLocation`), each stage of which has
  the newest image in hand (`NewestDeployed`), and where none is under way the newest
  image runs unless a fault is recorded (`NewestRuns`).
* `RoutesAreCurrent` and `ConfigsAreCurrent`, for requests that do not overlap
  (`Overlap = "none"`; `orch_lost_route` shows that this is needed). `CurrentInv`
  relates the table that is being made to what runs and what is stored, except for
  the routes whose configuration is still to be loaded, and the table in use to both.

### Deployment

`DeploymentProofs`, with the orchestrator's `TypeInv` and the invariants `ConvOK` (podman
asks only while its handler waits), `LayersOK` (what a pull still wants is all that it
lacks) and `LoginOK` (a server that serves has a key, and past the login podman has
saved it):

* `ImagesAreComplete` (`CompleteImages`), for every client.
* `OwnLoginIsAccepted` (`OwnLoginAccepted`), for every key, also one with colons, and
  every change of keys between starts. It rests on `CredentialsReadBack`: whatever user
  name without a colon and whatever password go into a header, they are what is read
  out of it; and on `LoginsAreExact`: an access map lets in exactly the pairs in it, and
  a master key exactly those who know it.
* `VolumesAreSeparate` (`VolumesSeparate`), for every path an image may have as a
  volume: `from_path` lets only names through, so the file system resolves the
  directory as it is written (`ResolvedAsNamed`), and directories of two locations
  differ in their first segment.
* `Refinement` (`ImplementsOrchestrator`), given `Faults`: a pull that is turned away is
  a podman that fails, which an orchestrator without faults does not know.
* `DeploymentKeepsPromises`: through the refinement, `LatestDeployed` and
  `StartupKeepsContainers` hold of the composed system.
* `DeploymentRoutesAreCurrent`: through the refinement too, `RoutesCurrent` and
  `ConfigsCurrent` hold of the composed system when requests come one at a time. No run
  checks this; the runs check the two on the orchestrator alone.

### Reverse proxy

`ReverseProxyProofs`, for every set of locations, hosts, paths, headers, foreign
containers and requests, and however many refreshes overlap: `TypeCorrect`,
`ContainersAreReachable` (`Reachable`), `RequestsReachTheirContainer` (`SentToOwn`),
`OnlyAdmittedAreSent` (`AdmittedByStored`) and `PathsAreKept` (`PathPreserved`).

One invariant, `ViewOK`, says what a table may be trusted for, given what is still to be
loaded into it and what has happened since its `podman ps`: a route is found under its
own keys (`KeysOK`), has a configuration that was stored since then, and has its own
container or none at its port unless the port was handed out since (`RoutesOK`); every
container that is not to be loaded any more has its routes unless one was started or
stopped since (`TodoOK`, `CompleteOK`). It holds of every refresh under way
(`RefreshesOK`) and, with nothing left to load, of the table in use. So a swap needs no
argument about other refreshes: what is swapped in comes with its own history. What is
stored now is among what every refresh has seen (`StoredOK`), and a request has what
was true when it was routed (`RequestsOK`).

Under it lie theorems and lemmas about the operators:

* `NamesReadBack`: of all locations there can be, `image_location` reads exactly those
  back from their container's name whose repository neither contains `---` nor ends in a
  dash, whatever the image is called. `NamesCollide`: `a---b`/`c` and `a`/`b---c` share a
  container name, so the `rm` of one removes the other. Nothing in the code refuses such
  a repository. Names of anybody else's containers are not read at all
  (`OthersAreNotOurs`).
* A container that is loaded gets its routes and takes them from nobody but those with
  its keys (`InsertedIs`, `ViewOfLoaded`); a host names a domain with or without a port
  and in any case (`OfHostIs`).
* The segments of a path are those of its front and its last one (`SegmentsOfFront`,
  from `PickLast` of `SubsequenceProofs`); script and path of a destination make up the
  path (`DestinationKeepsPath`).

### Only model-checked

Liveness (`PushAnswered`, `Deploys`, and `ComesBack`, which fails): it needs fairness and `ENABLED`, which
are out of the prover's reach. `TLAPS` has no induction over data here either; where a
proof would have needed it, the operator is defined by positions instead of recursion
(`Pick`, `Resolve`).

## Not modelled

* The bytes of frames, manifests, configurations and command lines, logging and
  the wording of errors. Status codes are kept as far as they tell success,
  absence and failure apart.
* Base64, and the white space and the case of letters around it in an
  `Authorization` header. The registry's check of the master key, which comes before
  every handler and changes nothing, is in `Deployment` only.
* Two volumes of an image that become the same directory, which podman may refuse.
* A remote podman's commands, which go on when their handler is dropped, and
  `podman run --rmi`, whose effect on a detached container depends on the version.
* Paths and the log filter in `config.rs`; `registry/types.rs` and the parsing of
  digests and references: parsing without state.
* How much memory `finalize_upload` takes for its buffer (`storage.rs:20`).
* Headers and bodies of forwarded requests and the streaming of blobs: I/O of `axum`, `reqwest`
  and `tokio`.
* That nothing ever removes abandoned uploads and leaked temporary links: the model
  has the same leak, and no property about disk space.
