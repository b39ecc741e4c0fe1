---------------------------- MODULE ResultCache ----------------------------
(***************************************************************************)
(* Files computed from saved versions, which can be computed again:        *)
(* previews, comparisons, downloads and images, in folders of the cache of *)
(* the service.                                                            *)
(*                                                                         *)
(* Jobs make them: those of the preview lane one after the other, in       *)
(* folders named for the contents of a version, so that jobs share what    *)
(* is there; downloads side by side, each in a folder of its own.  The     *)
(* sweep removes old folders, and others when there is too much, file by   *)
(* file, while jobs fill them and clients fetch from them.                 *)
(*                                                                         *)
(* Not here: which requests are refused at once (sizes, formats, missing   *)
(* renderers), the choice of cell, window and layers of a preview (one of  *)
(* them stands for all), sizes (any folder can be the one too much), the   *)
(* queues and rows of jobs (Jobs), and files exported to be opened in an   *)
(* editor (EditorBackend), which only the sweep removes.                   *)
(***************************************************************************)
EXTENDS Naturals, FiniteSets

CONSTANTS
    Contents,       \* contents of the versions of a history
    Asked,          \* bound: the requests that are tried, a subset of ResultRequests
    None,
    MaxRequests,    \* bound: jobs
    MaxEvictions,   \* bound: folders removed because the cache is too large
    MaxTroubles     \* bound: steps that fail, crashes

Kinds == {"preview", "diff", "download", "image"}
ResultRequests == [kind : Kinds, from : Contents, of : Contents]

ASSUME ResultCacheAssumption ==
    /\ Asked \subseteq ResultRequests /\ None \notin Contents
    /\ \A r \in Asked : r.kind # "diff" => r.from = r.of    \* all others are of one version
    /\ {MaxRequests, MaxEvictions, MaxTroubles} \subseteq Nat

JobIds == 1..MaxRequests

VARIABLES
    jobs,       \* a function from the jobs asked for
    folders,    \* the folders there are
    files,      \* the files in them
    fresh,      \* the files and empty folders that are not older than their limit
    removing,   \* the folder the sweep is busy with
    sending,    \* the job whose file a client was promised
    garbled,    \* a client got something else than it was promised
    evictions, troubles

cache == <<folders, files, fresh>>
cacheVars == <<jobs, cache, removing, sending, garbled, evictions, troubles>>

Known == DOMAIN jobs

Job == [request : Asked, got : SUBSET Contents, at : Contents \cup {None}, asset : BOOLEAN,
        pc : {"queued", "look", "fetch", "place", "write", "publish", "check", "ended"}]

\* A file of one version, or of two in their order.
Origins == Contents \cup (Contents \X Contents)
Folders ==
    [top : {"previews", "thumbnails"}, key : Contents]
      \cup [top : {"diffs"}, key : Contents \X Contents]
      \cup [top : {"downloads", "working"}, key : JobIds]
Files == [folder : Folders, part : {"source", "copy", "part", "picture", "result"},
          by : {0} \cup JobIds, of : Origins, whole : BOOLEAN]
Names == Folders \X {"source", "copy", "part", "picture", "result", "folder"}
           \X ({0} \cup JobIds)

CacheTypeOK ==
    /\ Known \subseteq JobIds /\ jobs \in [Known -> Job]
    /\ folders \subseteq Folders /\ files \subseteq Files /\ fresh \subseteq Names
    /\ removing \in Folders \cup {None} /\ sending \in Known \cup {None}
    /\ garbled \in BOOLEAN
    /\ evictions \in 0..MaxEvictions /\ troubles \in 0..MaxTroubles

CacheInit ==
    /\ jobs = [j \in {} |-> None]
    /\ folders = {} /\ files = {} /\ fresh = {}
    /\ removing = None /\ sending = None /\ garbled = FALSE
    /\ evictions = 0 /\ troubles = 0

Trouble == troubles < MaxTroubles /\ troubles' = troubles + 1

---------------------------------------------------------------------------
(* Where files are.                                                        *)

Folder(top, key) == [top |-> top, key |-> key]
SourceFolder(j, c) ==
    IF jobs[j].request.kind = "image" THEN Folder("working", j) ELSE Folder("previews", c)

\* Faulty: the two versions of a comparison name its file in any order.
ResultFolderUnordered(j) ==
    LET r == jobs[j].request IN
    CASE r.kind = "preview"  -> Folder("previews", r.of)
      [] r.kind = "diff"     -> Folder("diffs", {r.from, r.of})
      [] r.kind = "download" -> Folder("downloads", j)
      [] r.kind = "image"    -> Folder("thumbnails", r.of)

\* A comparison is a file beside others, which stands for its own folder here.
ResultFolder(j) ==
    LET r == jobs[j].request IN
    CASE r.kind = "preview"  -> Folder("previews", r.of)
      [] r.kind = "diff"     -> Folder("diffs", <<r.from, r.of>>)
      [] r.kind = "download" -> Folder("downloads", j)
      [] r.kind = "image"    -> Folder("thumbnails", r.of)
Flat(d) == d.top = "diffs"

\* Copies on their way have the name of the job that makes them.
File(d, part, of, whole) ==
    [folder |-> d, part |-> part, by |-> 0, of |-> of, whole |-> whole]
Copy(d, j, c) == [folder |-> d, part |-> "copy", by |-> j, of |-> c, whole |-> TRUE]
In(d, part) == {f \in files : f.folder = d /\ f.part = part}
Place(d, part) == <<d, part, 0>>
Name(f) == <<f.folder, f.part, f.by>>
Writable(d) == Flat(d) \/ d \in folders

\* mkdir(exist_ok=True), files that appear and files that go
Has(new, gone, made) ==
    /\ folders' = folders \cup made
    /\ files' = (files \ gone) \cup new
    /\ fresh' = (fresh \ {Name(f) : f \in gone}) \cup {Name(f) : f \in new}
                  \cup {Place(d, "folder") : d \in made \ folders}

---------------------------------------------------------------------------
(* Jobs.                                                                   *)

Heavy(j) == jobs[j].request.kind = "download"
Running(j) == jobs[j].pc \notin {"queued", "ended"}
Room(j) ==
    IF Heavy(j) THEN Cardinality({i \in Known : Heavy(i) /\ Running(i)}) < 2
    ELSE \A i \in Known : Running(i) => Heavy(i)

Request(r) ==
    LET j == Cardinality(Known) + 1 IN
    /\ j \in JobIds
    /\ jobs' = [i \in Known \cup {j} |-> IF i \in Known THEN jobs[i] ELSE
                  [request |-> r, pc |-> "queued", got |-> {}, at |-> None,
                   asset |-> FALSE]]
    /\ UNCHANGED <<cache, removing, sending, garbled, evictions, troubles>>

JobOnly == UNCHANGED <<removing, sending, garbled, evictions>>
Goes(j, pc) == jobs' = [jobs EXCEPT ![j].pc = pc]
Succeeds(j) ==
    jobs' = [jobs EXCEPT ![j].pc = "ended", ![j].got = {}, ![j].at = None,
                         ![j].asset = jobs[j].request.kind # "image"]
Fails(j) == jobs' = [jobs EXCEPT ![j].pc = "ended", ![j].got = {}, ![j].at = None]

StartJob(j) ==
    /\ jobs[j].pc = "queued" /\ Room(j)
    /\ Goes(j, "look")
    /\ UNCHANGED <<cache, troubles>> /\ JobOnly

Cached(j) ==
    /\ In(ResultFolder(j), "result") # {}
    /\ jobs[j].request.kind = "image" => In(ResultFolder(j), "picture") # {}

\* A result that is there is touched and used; one that cannot be read goes.
Look(j) ==
    LET d == ResultFolder(j) IN
    /\ jobs[j].pc = "look"
    /\ IF Cached(j) /\ \A f \in In(d, "result") : f.whole
       THEN /\ Succeeds(j)
            /\ fresh' = fresh \cup
                 (IF jobs[j].request.kind = "image" THEN {} ELSE {Place(d, "result")})
            /\ UNCHANGED <<folders, files>>
       ELSE /\ Goes(j, "fetch")
            /\ Has({}, IF jobs[j].request.kind = "image" THEN {} ELSE In(d, "result"),
                   IF jobs[j].request.kind \in {"preview", "download"} THEN {d} ELSE {})
    /\ UNCHANGED troubles /\ JobOnly

Needs(j) == {jobs[j].request.from, jobs[j].request.of}

\* _exported_source: a source that is there is used as it is.
UseSource(j, c) ==
    /\ jobs[j].pc = "fetch" /\ c \in Needs(j) \ jobs[j].got
    /\ In(SourceFolder(j, c), "source") # {}
    /\ jobs' = [jobs EXCEPT ![j].got = @ \cup {c}]
    /\ UNCHANGED <<cache, troubles>> /\ JobOnly

\* Otherwise the version is exported, which checks it, beside its place; for
\* an image, in a folder that nobody shares.
ExportSource(j, c) ==
    LET d == SourceFolder(j, c) IN
    /\ jobs[j].pc = "fetch" /\ c \in Needs(j) \ jobs[j].got
    /\ ~Heavy(j) /\ In(d, "source") = {}
    /\ \/ /\ jobs[j].request.kind # "image" /\ UNCHANGED troubles
          /\ jobs' = [jobs EXCEPT ![j].pc = "place", ![j].at = c]
          /\ Has({Copy(d, j, c)}, {}, {d})
       \/ /\ jobs[j].request.kind = "image" /\ UNCHANGED troubles
          /\ jobs' = [jobs EXCEPT ![j].got = @ \cup {c}]
          /\ Has({File(d, "source", c, TRUE)}, {}, {d})
       \/ Trouble /\ Fails(j) /\ UNCHANGED cache
    /\ JobOnly

\* It takes its place; when it cannot, the renderer will miss it.
PlaceSource(j) ==
    LET c == jobs[j].at
        copy == Copy(SourceFolder(j, c), j, c)
    IN
    /\ jobs[j].pc = "place"
    /\ jobs' = [jobs EXCEPT ![j].pc = "fetch", ![j].at = None, ![j].got = @ \cup {c}]
    /\ IF copy \in files
       THEN Has({File(copy.folder, "source", c, TRUE)}, {copy}, {}) ELSE UNCHANGED cache
    /\ UNCHANGED troubles /\ JobOnly

Read(j) == \A c \in Needs(j) : In(SourceFolder(j, c), "source") # {}

\* The worker renders, in its time limit and the limits of what it may answer.
Render(j) ==
    /\ jobs[j].pc = "fetch" /\ ~Heavy(j) /\ jobs[j].got = Needs(j)
    /\ \/ Read(j) /\ Goes(j, "write") /\ UNCHANGED troubles
       \/ ~Read(j) /\ Fails(j) /\ UNCHANGED troubles
       \/ Trouble /\ Fails(j)
    /\ IF jobs[j].request.kind # "image" THEN UNCHANGED cache
       ELSE LET d == SourceFolder(j, jobs[j].request.of) IN     \* TemporaryDirectory
            /\ files' = {f \in files : f.folder # d} /\ folders' = folders \ {d}
            /\ fresh' = {p \in fresh : p[1] # d}
    /\ JobOnly

\* _write_atomic: a half written file has another name.  An image is two files:
\* the picture, in place already, and what tells that it is whole.
Write(j) ==
    LET d == ResultFolder(j)
        r == jobs[j].request
        image == r.kind = "image"
        picture == IF image THEN {File(d, "picture", <<r.from, r.of>>, TRUE)} ELSE {}
    IN
    /\ jobs[j].pc = "write"
    /\ IF Writable(d) \/ image
       THEN /\ Goes(j, "publish")
            /\ Has({File(d, "part", <<r.from, r.of>>, FALSE)} \cup picture,
                   In(d, "part") \cup (IF image THEN In(d, "picture") ELSE {}),
                   IF image THEN {d} ELSE {})
       ELSE Fails(j) /\ UNCHANGED cache
    /\ UNCHANGED troubles /\ JobOnly

Publish(j) ==
    LET d == ResultFolder(j)
        result == File(d, "result", <<jobs[j].request.from, jobs[j].request.of>>, TRUE)
    IN
    /\ jobs[j].pc = "publish"
    /\ IF In(d, "part") # {}
       THEN Succeeds(j) /\ Has({result}, In(d, "result") \cup In(d, "part"), {})
       ELSE Fails(j) /\ UNCHANGED cache
    /\ UNCHANGED troubles /\ JobOnly

\* The download itself is an export, whose bytes are hashed again.
Download(j) ==
    LET d == ResultFolder(j)
        r == jobs[j].request
    IN
    /\ Heavy(j) /\ jobs[j].pc = "fetch"
    /\ \/ /\ d \in folders /\ Goes(j, "check") /\ UNCHANGED troubles
          /\ Has({File(d, "result", <<r.from, r.of>>, TRUE)}, {}, {})
       \/ d \notin folders /\ Fails(j) /\ UNCHANGED <<cache, troubles>>
       \/ Trouble /\ Fails(j) /\ UNCHANGED cache
    /\ JobOnly

CheckDownload(j) ==
    /\ jobs[j].pc = "check"
    /\ IF In(ResultFolder(j), "result") # {} THEN Succeeds(j) ELSE Fails(j)
    /\ UNCHANGED <<cache, troubles>> /\ JobOnly

JobStep(j) ==
    \/ StartJob(j) \/ Look(j) \/ Render(j) \/ Write(j) \/ Publish(j)
    \/ PlaceSource(j) \/ Download(j) \/ CheckDownload(j)
    \/ \E c \in Contents : UseSource(j, c) \/ ExportSource(j, c)

---------------------------------------------------------------------------
(* Clients.                                                                *)

\* job_asset: the file is there and not too old, or it goes and the job has none.
Promise(j) ==
    LET d == ResultFolder(j) IN
    /\ jobs[j].pc = "ended" /\ jobs[j].asset /\ sending = None
    /\ IF In(d, "result") # {} /\ Place(d, "result") \in fresh
       THEN sending' = j /\ UNCHANGED <<jobs, cache>>
       ELSE /\ jobs' = [jobs EXCEPT ![j].asset = FALSE]
            /\ UNCHANGED sending
            /\ IF Heavy(j)
               THEN /\ files' = {f \in files : f.folder # d} /\ folders' = folders \ {d}
                    /\ fresh' = {p \in fresh : p[1] # d}
               ELSE Has({}, In(d, "result"), {})
    /\ UNCHANGED <<removing, garbled, evictions, troubles>>

\* FileResponse opens the file, if it is still there.
Send ==
    /\ sending # None
    /\ sending' = None
    /\ garbled' = (garbled \/ \E f \in In(ResultFolder(sending), "result") :
                     ~f.whole \/ f.of # <<jobs[sending].request.from, jobs[sending].request.of>>)
    /\ UNCHANGED <<jobs, cache, removing, evictions, troubles>>

---------------------------------------------------------------------------
(* Time and the sweep.                                                     *)

\* No job lasts as long as the limits of the files it made, an hour or a week.
\* The files of a folder get old together, until one is touched or made.
UsedBy(j) == {ResultFolder(j)} \cup {SourceFolder(j, c) : c \in Needs(j)}
Ages(d) ==
    /\ \A j \in Known : Running(j) => d \notin UsedBy(j)
    /\ fresh' = {p \in fresh : p[1] # d} /\ fresh' # fresh
    /\ UNCHANGED <<jobs, folders, files, removing, sending, garbled, evictions, troubles>>

\* Faulty: folders only.
EntriesFolders == folders
\* What sweep_assets goes through: folders, and comparisons beside each other.
Entries == folders \cup {f.folder : f \in {g \in files : Flat(g.folder)}}

\* An entry is as old as the newest file in it.
Old(d) ==
    IF \E f \in files : f.folder = d
    THEN \A f \in files : f.folder = d => Name(f) \notin fresh
    ELSE Place(d, "folder") \notin fresh

Expires(d) ==
    /\ removing = None /\ d \in Entries /\ Old(d)
    /\ removing' = d
    /\ UNCHANGED <<jobs, cache, sending, garbled, evictions, troubles>>

\* _enforce_cache_budget
Evict(d) ==
    /\ removing = None /\ d \in Entries
    /\ evictions < MaxEvictions /\ evictions' = evictions + 1
    /\ removing' = d
    /\ UNCHANGED <<jobs, cache, sending, garbled, troubles>>

\* The files of the entry go one by one, then the folder.
RemoveFile(f) ==
    /\ removing # None /\ f \in files /\ f.folder = removing
    /\ files' = files \ {f} /\ fresh' = fresh \ {Name(f)}
    /\ UNCHANGED <<jobs, folders, removing, sending, garbled, evictions, troubles>>

RemoveFolder ==
    /\ removing # None /\ \A f \in files : f.folder # removing
    /\ folders' = folders \ {removing} /\ fresh' = fresh \ {Place(removing, "folder")}
    /\ removing' = None
    /\ UNCHANGED <<jobs, files, sending, garbled, evictions, troubles>>

\* What cannot be removed is left for the next time.
GiveUp ==
    /\ removing # None /\ Trouble /\ removing' = None
    /\ UNCHANGED <<jobs, cache, sending, garbled, evictions>>

SweepStep ==
    \/ \E d \in Entries : Expires(d)
    \/ \E f \in files : RemoveFile(f)
    \/ RemoveFolder

\* The service dies: its jobs are settled as interrupted when it starts again.
ServiceDies ==
    /\ Trouble
    /\ jobs' = [j \in Known |-> [jobs[j] EXCEPT !.pc = "ended", !.got = {}, !.at = None]]
    /\ removing' = None /\ sending' = None
    /\ UNCHANGED <<cache, garbled, evictions>>

CacheNext ==
    \/ \E r \in Asked : Request(r)
    \/ \E j \in Known : JobStep(j) \/ Promise(j)
    \/ Send \/ SweepStep \/ GiveUp \/ ServiceDies
    \/ \E d \in Entries : Ages(d)
    \/ \E d \in Entries : Evict(d)

CacheSpec == CacheInit /\ [][CacheNext]_cacheVars

\* Workers go on, time passes, and the sweep comes round every few minutes.
FairCacheSpec ==
    /\ CacheSpec
    /\ WF_cacheVars(\E j \in Known : JobStep(j))
    /\ WF_cacheVars(\E d \in Entries : Ages(d))
    /\ WF_cacheVars(SweepStep)

---------------------------------------------------------------------------
(* Properties.                                                             *)

\* What a client is sent is all of the result, and of the versions it asked
\* for in their order, whatever shared the folder, was swept, evicted and made
\* again between its requests, or was being written when the service died.
ResultsTrue == ~garbled

\* When no more is asked for the cache empties: nothing that jobs, failures
\* and crashes leave in it escapes the sweep.
CacheEmpties == <>[](files = {} /\ folders = {})
=============================================================================
