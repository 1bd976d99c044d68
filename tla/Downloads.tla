----------------------------- MODULE Downloads ------------------------------
(***************************************************************************)
(* Downloads of original bytes (pipeline/download.go, download_assets.go,  *)
(* platform/download_directory.go).  A download makes a directory of its   *)
(* own, saves the response and, when asked, the stylesheets and scripts    *)
(* the HTML names, all within one byte limit; it keeps the files when all  *)
(* went well and removes them otherwise.  Two downloads may be told to use *)
(* the same new directory.  The context ends at any time: a shutdown or    *)
(* the minute a download may take.                                         *)
(***************************************************************************)
EXTENDS Naturals, Sequences

CONSTANTS
  Downloads, Wanted,  \* the downloads, and what each of them was asked for
  Origins,            \* origins of HTTP resources
  Linked,             \* what pages may refer to: lists of origins, one per asset
  MaxAssets,          \* MaxDownloadAssets
  MaxBody,            \* BOUND: the bytes of a body
  MaxTrouble          \* BOUND: removals that fail and processes that die

ASSUME DownloadAssumption ==
  /\ \A d \in Downloads : /\ Wanted[d].limit \in Nat /\ Wanted[d].allowed \subseteq Origins
                          /\ ~Wanted[d].assets => Wanted[d].allowed = {}
  /\ Linked \subseteq Seq(Origins) /\ MaxAssets \in Nat /\ MaxBody \in Nat /\ MaxTrouble \in Nat
  /\ "none" \notin Downloads

VARIABLES
  dstage,     \* where each download stands
  owner,      \* who made each directory
  saved,      \* the files in it: bytes, whether they are all of the body, and origin
  room,       \* the bytes a download may still save
  trusted,    \* the origins it may fetch assets from
  refs,       \* the assets it still has to fetch
  cancelled,  \* its context has ended
  answer,     \* what it has returned
  trouble, spoilt  \* removals that failed, and the downloads they failed for

downloadVars == <<dstage, owner, saved, room, trusted, refs, cancelled, answer, trouble, spoilt>>

NoOwner == "none"
Directory(d) == IF Wanted[d].shared THEN "out" ELSE d

DownloadsInit ==
  /\ dstage = [d \in Downloads |-> "create"] /\ owner = [p \in Downloads \cup {"out"} |-> NoOwner]
  /\ saved = [d \in Downloads |-> <<>>] /\ room = [d \in Downloads |-> Wanted[d].limit]
  /\ trusted = [d \in Downloads |-> Wanted[d].allowed] /\ refs = [d \in Downloads |-> <<>>]
  /\ cancelled = [d \in Downloads |-> FALSE] /\ answer = [d \in Downloads |-> "none"]
  /\ trouble = 0 /\ spoilt = {}

Proceeds(d, to) == dstage' = [dstage EXCEPT ![d] = to]
Replies(d, kind) == answer' = [answer EXCEPT ![d] = kind]
Spoils(d) == trouble < MaxTrouble /\ trouble' = trouble + 1 /\ spoilt' = spoilt \cup {d}

\* Creating the directory fails when it exists: a download never joins one.
\* When it cannot be opened it is removed again.
Create(d) ==
  /\ dstage[d] = "create"
  /\ \/ /\ owner[Directory(d)] # NoOwner /\ Proceeds(d, "done") /\ Replies(d, "error")
        /\ UNCHANGED <<owner, trouble, spoilt>>
     \/ /\ owner[Directory(d)] = NoOwner
        /\ \/ owner' = [owner EXCEPT ![Directory(d)] = d] /\ Proceeds(d, "ask")
              /\ UNCHANGED <<answer, trouble, spoilt>>
           \/ Proceeds(d, "done") /\ Replies(d, "error") /\ UNCHANGED <<owner, trouble, spoilt>>
           \/ /\ Spoils(d) /\ owner' = [owner EXCEPT ![Directory(d)] = d]
              /\ Proceeds(d, "done") /\ Replies(d, "error")
  /\ UNCHANGED <<saved, room, trusted, refs, cancelled>>

GivesUp(d) == Proceeds(d, "discard") /\ UNCHANGED <<owner, room, trusted, answer, trouble, spoilt>>

\* The response to be saved: the page may redirect anywhere, an asset only
\* within the allowed origins.
Answerable(d) == IF saved[d] = <<>> THEN Origins ELSE trusted[d]

\* A refused redirect, a bad status, a Content-Length above what is left, or
\* an ended context: nothing is written.
AskFails(d) ==
  /\ dstage[d] = "ask" /\ GivesUp(d) /\ UNCHANGED <<saved, refs, cancelled>>

\* The name is taken before the body is copied, which is how a file that is
\* only half there is removed with the others.
Ask(d) ==
  /\ dstage[d] = "ask" /\ ~cancelled[d]
  /\ \E o \in Answerable(d) :
       saved' = [saved EXCEPT ![d] = Append(@, [bytes |-> 0, whole |-> FALSE, origin |-> o])]
  /\ refs' = [refs EXCEPT ![d] = IF @ = <<>> THEN <<>> ELSE Tail(@)]
  /\ Proceeds(d, "copy") /\ UNCHANGED <<owner, room, trusted, cancelled, answer, trouble, spoilt>>

StoredFile(d, n, whole) ==
  saved' = [saved EXCEPT ![d][Len(saved[d])].bytes = n, ![d][Len(saved[d])].whole = whole]

\* Mutant of Copied: each file may be as large as the whole download.
CopiedEach(d, n) == room' = room

\* What is left for the files that follow.
Copied(d, n) == room' = [room EXCEPT ![d] = @ - n]

\* At most the bytes left are copied, and one more is read to tell a body
\* that fits exactly from one that was cut.
Copy(d) ==
  /\ dstage[d] = "copy"
  /\ \E n \in 0..MaxBody :
       /\ n <= room[d] /\ StoredFile(d, n, TRUE) /\ Copied(d, n)
  /\ Proceeds(d, IF Len(saved[d]) = 1 THEN "scan" ELSE "next")
  /\ UNCHANGED <<owner, trusted, refs, cancelled, answer, trouble, spoilt>>

CopyFails(d) ==
  /\ dstage[d] = "copy" /\ \E n \in 0..MaxBody : n <= room[d] /\ StoredFile(d, n, FALSE)
  /\ GivesUp(d) /\ UNCHANGED <<refs, cancelled>>

\* The assets of a page are looked for in the saved HTML; the origin the
\* page was finally served from is allowed, too.
Scan(d) ==
  /\ dstage[d] = "scan"
  /\ IF ~Wanted[d].assets
     THEN Proceeds(d, "finish") /\ UNCHANGED <<trusted, refs>>
     ELSE /\ ~cancelled[d] /\ trusted' = [trusted EXCEPT ![d] = @ \cup {saved[d][1].origin}]
          /\ \E named \in Linked :
               /\ Len(named) <= MaxAssets
               /\ refs' = [refs EXCEPT ![d] = SelectSeq(named, LAMBDA o : o \in trusted'[d])]
          /\ Proceeds(d, "next")
  /\ UNCHANGED <<owner, saved, room, cancelled, answer, trouble, spoilt>>

\* No HTML, an encoded body, an ended context or too many references.
ScanFails(d) ==
  /\ dstage[d] = "scan" /\ Wanted[d].assets
  /\ GivesUp(d) /\ UNCHANGED <<saved, refs, cancelled>>

NextAsset(d) ==
  /\ dstage[d] = "next" /\ Proceeds(d, IF refs[d] = <<>> THEN "finish" ELSE "ask")
  /\ UNCHANGED <<owner, saved, room, trusted, refs, cancelled, answer, trouble, spoilt>>

\* All files are there, and a context that has ended still discards them.
Checks(d) ==
  /\ dstage[d] = "finish" /\ Proceeds(d, IF cancelled[d] THEN "discard" ELSE "retain")
  /\ UNCHANGED <<owner, saved, room, trusted, refs, cancelled, answer, trouble, spoilt>>

\* Closing the directory: its error is the download's, and the files stay.
Retain(d) ==
  /\ dstage[d] = "retain" /\ Proceeds(d, "done")
  /\ \/ Replies(d, "ok") /\ UNCHANGED <<trouble, spoilt>>
     \/ Replies(d, "error") /\ Spoils(d)
  /\ UNCHANGED <<owner, saved, room, trusted, refs, cancelled>>

\* The files are removed one after the other, whether or not the one before
\* could be; BOUND: one of them stays.
Discard(d) ==
  /\ dstage[d] = "discard" /\ Proceeds(d, "remove")
  /\ \/ saved' = [saved EXCEPT ![d] = <<>>] /\ UNCHANGED <<trouble, spoilt>>
     \/ /\ Spoils(d) /\ \E i \in DOMAIN saved[d] : saved' = [saved EXCEPT ![d] = <<saved[d][i]>>]
  /\ UNCHANGED <<owner, room, trusted, refs, cancelled, answer>>

\* The directory goes when it is empty.
RemoveDirectory(d) ==
  /\ dstage[d] = "remove" /\ Proceeds(d, "done") /\ Replies(d, "error")
  /\ \/ saved[d] # <<>> /\ UNCHANGED <<owner, trouble, spoilt>>
     \/ /\ saved[d] = <<>> /\ owner' = [owner EXCEPT ![Directory(d)] = NoOwner]
        /\ UNCHANGED <<trouble, spoilt>>
     \/ Spoils(d) /\ UNCHANGED owner
  /\ UNCHANGED <<saved, room, trusted, refs, cancelled>>

Cancel(d) ==
  /\ dstage[d] # "done" /\ ~cancelled[d] /\ cancelled' = [cancelled EXCEPT ![d] = TRUE]
  /\ UNCHANGED <<dstage, owner, saved, room, trusted, refs, answer, trouble, spoilt>>

\* The process is killed: nothing removes the files.
Killed(d) ==
  /\ dstage[d] # "done" /\ Spoils(d) /\ Proceeds(d, "done")
  /\ UNCHANGED <<owner, saved, room, trusted, refs, cancelled, answer>>

DownloadsNext ==
  \E d \in Downloads :
    \/ Create(d) \/ Ask(d) \/ AskFails(d) \/ Copy(d) \/ CopyFails(d) \/ Scan(d) \/ ScanFails(d)
    \/ NextAsset(d) \/ Checks(d) \/ Retain(d) \/ Discard(d) \/ RemoveDirectory(d) \/ Cancel(d) \/ Killed(d)

DownloadsSpec == DownloadsInit /\ [][DownloadsNext]_downloadVars

-----------------------------------------------------------------------------
\* The bytes of the first files of a list, up to each of them.
Totals(files) ==
  LET total[i \in 0..Len(files)] == IF i = 0 THEN 0 ELSE total[i-1] + files[i].bytes
  IN total
Occupied(d) == Totals(saved[d])[Len(saved[d])]

\* The limit holds at every moment for what is on the disk, not only for
\* what is reported.
WithinLimit == \A d \in Downloads : Occupied(d) <= Wanted[d].limit

\* A download that returns its files has all of every one of them, in a
\* directory no other download uses, and no asset from an origin that was
\* not asked for.
ReturnedWhole ==
  \A d \in Downloads : answer[d] = "ok" =>
    /\ owner[Directory(d)] = d /\ saved[d] # <<>> /\ refs[d] = <<>>
    /\ \A i \in DOMAIN saved[d] :
         /\ saved[d][i].whole
         /\ i > 1 => saved[d][i].origin \in Wanted[d].allowed \cup {saved[d][1].origin}
    /\ Len(saved[d]) > 1 => Wanted[d].assets

\* "A failed download discards its files" (transport/download.go:112): unless
\* a removal fails, nothing of it is left, and nothing of another is gone.
FailedGone ==
  \A d \in Downloads :
    /\ answer[d] = "error" /\ d \notin spoilt => owner[Directory(d)] # d /\ saved[d] = <<>>
    /\ saved[d] # <<>> => owner[Directory(d)] = d

SavedFiles == [bytes : 0..MaxBody, whole : BOOLEAN, origin : Origins]
DownloadTypeOK ==
  /\ dstage \in [Downloads -> {"create", "ask", "copy", "scan", "next", "finish", "retain",
                               "discard", "remove", "done"}]
  /\ owner \in [Downloads \cup {"out"} -> Downloads \cup {NoOwner}]
  /\ saved \in [Downloads -> Seq(SavedFiles)] /\ room \in [Downloads -> Nat]
  /\ DOMAIN trusted = Downloads /\ DOMAIN refs = Downloads /\ DOMAIN cancelled = Downloads
  /\ answer \in [Downloads -> {"none", "ok", "error"}] /\ trouble \in 0..MaxTrouble
  /\ \A d \in Downloads : trusted[d] \subseteq Origins

\* What makes these inductive.  Before it is made, a directory is not there
\* and nothing is saved.
Fetching(d) == dstage[d] \in {"ask", "copy", "scan", "next", "finish", "retain"}
Unmade(d) == owner[Directory(d)] # d /\ saved[d] = <<>> /\ refs[d] = <<>>

\* What it may save and whom it trusts while it fetches: every file but the
\* one being copied is whole, and only a bundle has more than one.
BundleOK(d) ==
  /\ owner[Directory(d)] = d /\ Occupied(d) + room[d] <= Wanted[d].limit
  /\ trusted[d] \subseteq Wanted[d].allowed
                          \cup (IF saved[d] = <<>> THEN {} ELSE {saved[d][1].origin})
  /\ \A i \in DOMAIN saved[d] :
       /\ i > 1 => saved[d][i].origin \in Wanted[d].allowed \cup {saved[d][1].origin}
       /\ saved[d][i].whole \/ (dstage[d] = "copy" /\ i = Len(saved[d]))
  /\ Len(saved[d]) > 1 => Wanted[d].assets

\* Where it stands.
StageOK(d) ==
  /\ dstage[d] = "create" => Unmade(d) /\ room[d] = Wanted[d].limit /\ trusted[d] = Wanted[d].allowed
  /\ dstage[d] = "ask" => IF saved[d] = <<>> THEN refs[d] = <<>> ELSE Wanted[d].assets
  /\ dstage[d] = "copy" =>
       /\ saved[d] # <<>> /\ saved[d][Len(saved[d])].bytes = 0
       /\ Len(saved[d]) = 1 => refs[d] = <<>>
  /\ dstage[d] = "scan" => Len(saved[d]) = 1 /\ refs[d] = <<>>
  /\ dstage[d] = "next" => saved[d] # <<>> /\ Wanted[d].assets
  /\ dstage[d] \in {"finish", "retain"} => saved[d] # <<>> /\ refs[d] = <<>>
  /\ Fetching(d) => BundleOK(d)
  /\ dstage[d] \in {"discard", "remove"} => owner[Directory(d)] = d
  /\ dstage[d] = "remove" /\ d \notin spoilt => saved[d] = <<>>
  /\ dstage[d] = "done" => answer[d] # "none" \/ d \in spoilt
  /\ dstage[d] # "done" => answer[d] = "none"

DownloadInd ==
  /\ DownloadTypeOK /\ WithinLimit /\ ReturnedWhole /\ FailedGone
  /\ \A d \in Downloads : StageOK(d)
=============================================================================
