--------------------------- MODULE PackageDownload ---------------------------
(***************************************************************************)
(* The vendor's archive of all daily bars (extend/down-tdx.go): the        *)
(* package is fetched into hsjday.zip.part, validated, renamed to          *)
(* hsjday.zip, noted in hsjday.txt and unpacked into the vipdoc directory. *)
(* The process may die between any two of these file operations, and the   *)
(* vendor may publish a newer package at any time.                         *)
(*                                                                         *)
(* A package is its version, the update time the vendor announces.  What   *)
(* a transfer leaves behind is the whole package, or Bad: too short, or    *)
(* no archive at all (the page of a proxy).                                *)
(***************************************************************************)
EXTENDS Naturals

CONSTANTS
    Entries,        \* regular files in the archive
    MaxVersion      \* bound: packages the vendor publishes

ASSUME PackageConstants == MaxVersion \in Nat \ {0}

Missing  == 0
Versions == 1 .. MaxVersion
Bad      == MaxVersion + 1      \* a file that is no valid package
OldFile  == {Missing} \cup Versions
AnyFile  == OldFile \cup {Bad}

VARIABLES
    published,  \* the version the vendor announces now
    zip,        \* hsjday.zip
    part,       \* hsjday.zip.part
    info,       \* the update time in hsjday.txt; Missing when unreadable
    tree,       \* entry -> the version of the extracted file
    fetch       \* DownloadAndUnzipHsjDay: [pc, info, todo]

packageVars == <<published, zip, part, info, tree, fetch>>

Off == [pc |-> "off", info |-> Missing, todo |-> {}]

PackageInit ==
    /\ published = 1
    /\ zip = Missing
    /\ part = Missing
    /\ info = Missing
    /\ tree = [e \in Entries |-> Missing]
    /\ fetch = Off

Goto(pc) == fetch' = [fetch EXCEPT !.pc = pc]

-----------------------------------------------------------------------------
\* readLocalUpdateTime: a missing or broken archive counts as no package.
LocalTime == IF zip \in {Missing, Bad} THEN Missing ELSE info

\* GetTdxHsjDayPackage: what the vendor announces, and whether to download.
Announced ==
    /\ fetch.pc = "off"
    /\ \/ /\ LocalTime >= published
          /\ fetch' = [pc |-> "unzip", info |-> published, todo |-> Entries]
       \/ /\ LocalTime < published
          /\ fetch' = [pc |-> "get", info |-> published, todo |-> {}]
    /\ UNCHANGED <<published, zip, part, info, tree>>

\* The body of a GET of the fixed address: the package published by then,
\* or something else.  Validated packages go on to the rename.
Receive(from) ==
    /\ fetch.pc = from
    /\ \E got \in {published, Bad} :
          \/ part' = got /\ Goto(IF from = "get" THEN "checkGet" ELSE "checkCurl")
          \/ part' = Missing /\ Goto("off")         \* the transfer breaks
    /\ UNCHANGED <<published, zip, info, tree>>

HttpGet == Receive("get")
Curl    == Receive("curl")

\* Fault: an archive is accepted as soon as it is long enough.
ValidOrNot == part # Missing

\* validateDownloadedPackage: nine tenths of the announced size, and an
\* archive that can be opened.
Valid == part \in Versions

\* The answer to Go's client is validated, and fetched again with curl when
\* it is not a package; the answer to curl is validated.
Validate ==
    /\ fetch.pc \in {"checkGet", "checkCurl"}
    /\ \/ Valid /\ Goto("rename") /\ part' = part
       \/ /\ ~Valid
          /\ part' = Missing
          /\ Goto(IF fetch.pc = "checkGet" THEN "curl" ELSE "off")
    /\ UNCHANGED <<published, zip, info, tree>>

\* Fault: the information is written before the package is in place.
RenameLast ==
    /\ fetch.pc = "rename"
    /\ info' = fetch.info
    /\ Goto("info")
    /\ UNCHANGED <<published, zip, part, tree>>

Rename ==
    /\ fetch.pc = "rename"
    /\ part' = Missing
    /\ \/ zip' = part /\ Goto("info")
       \/ zip' = zip /\ Goto("off")
    /\ UNCHANGED <<published, info, tree>>

\* os.WriteFile truncates hsjday.txt and writes it; a failure in between
\* leaves no readable time.
WriteInfo ==
    /\ fetch.pc = "info"
    /\ \/ /\ info' = fetch.info
          /\ fetch' = [fetch EXCEPT !.pc = "unzip", !.todo = Entries]
       \/ info' \in {info, Missing} /\ fetch' = Off
    /\ UNCHANGED <<published, zip, part, tree>>

\* Fault: an entry that could not be copied is left out.
ExtractSkips(e) ==
    /\ fetch.pc = "unzip" /\ e \in fetch.todo
    /\ tree' \in {[tree EXCEPT ![e] = zip], [tree EXCEPT ![e] = Bad]}
    /\ fetch' = [fetch EXCEPT !.todo = @ \ {e}]
    /\ UNCHANGED <<published, zip, part, info>>

\* UnzipHsjDay, one entry: the destination is truncated and filled, and an
\* error half way ends the call.
Extract(e) ==
    /\ fetch.pc = "unzip" /\ e \in fetch.todo
    /\ \/ /\ tree' = [tree EXCEPT ![e] = zip]
          /\ fetch' = [fetch EXCEPT !.todo = @ \ {e}]
       \/ /\ tree' = [tree EXCEPT ![e] = Bad]
          /\ fetch' = Off
    /\ UNCHANGED <<published, zip, part, info>>

\* DownloadAndUnzipHsjDay returns the path, and the caller reads the tree.
Unzipped ==
    /\ fetch.pc = "unzip" /\ fetch.todo = {}
    /\ Goto("ok")
    /\ UNCHANGED <<published, zip, part, info, tree>>

FetchAgain ==
    /\ fetch.pc = "ok"
    /\ fetch' = Off
    /\ UNCHANGED <<published, zip, part, info, tree>>

\* The process dies; what it had written so far stays.
DownloadCrash ==
    /\ fetch # Off
    /\ fetch' = Off
    /\ \/ UNCHANGED <<part, tree>>
       \/ fetch.pc \in {"get", "curl"} /\ part' = Bad /\ tree' = tree
       \/ \E e \in fetch.todo : tree' = [tree EXCEPT ![e] = Bad] /\ part' = part
    /\ UNCHANGED <<published, zip, info>>

Publish ==
    /\ published < MaxVersion
    /\ published' = published + 1
    /\ UNCHANGED <<zip, part, info, tree, fetch>>

PackageNext ==
    \/ Announced
    \/ HttpGet
    \/ Curl
    \/ Validate
    \/ Rename
    \/ WriteInfo
    \/ \E e \in Entries : Extract(e)
    \/ Unzipped
    \/ FetchAgain
    \/ DownloadCrash
    \/ Publish

PackageSpec == PackageInit /\ [][PackageNext]_packageVars

-----------------------------------------------------------------------------
PackageTypeOK ==
    /\ published \in Versions
    /\ zip \in AnyFile
    /\ part \in AnyFile
    /\ info \in OldFile
    /\ tree \in [Entries -> AnyFile]
    /\ fetch \in [pc   : {"off", "get", "checkGet", "curl", "checkCurl",
                          "rename", "info", "unzip", "ok"},
                  info : OldFile, todo : SUBSET Entries]

\* "Written to .part first and renamed when complete, so that no half-made
\* package is used by mistake" (DownloadTdxHsjDay): whatever is interrupted
\* where, hsjday.zip is never a broken archive, and hsjday.txt never claims a
\* package newer than the one beside it, which the next start would skip;
\* and when DownloadAndUnzipHsjDay returns without an error, every file of the
\* archive is in the tree in that version, whatever earlier runs left there
\* half written.
PackageWhole ==
    /\ zip # Bad /\ info <= zip
    /\ fetch.pc = "ok" => \A e \in Entries : tree[e] = zip
=============================================================================
