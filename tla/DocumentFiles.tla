-------------------------- MODULE DocumentFiles --------------------------
(***************************************************************************)
(* The evidence attached to a voucher, a debt or a loan                    *)
(* (apps/api/src/routes/documents.ts, routes/attachment-owner.ts,          *)
(* storage/index.ts, cleanupOrphans in jobs/index.ts).                     *)
(*                                                                         *)
(* An upload has a row in `attachments`, a file in the storage and, once   *)
(* confirmed, an entry in the owner's attachments[]. Nothing joins the     *)
(* three writes: a handler may die between any two of them, a request may  *)
(* arrive twice, and the weekly clean-up reads the rows first and removes  *)
(* files and marks rows one after the other.                               *)
(*                                                                         *)
(* The web client confirms with the version it saw when it asked for the   *)
(* upload (web/src/components/attachments.tsx).                            *)
(***************************************************************************)
EXTENDS Naturals, FiniteSets

CONSTANTS
    Uploads,        \* the uploads there may be
    Handlers,       \* requests in progress at the same time
    Owners,         \* subset of {"document", "debt", "loan"}
    MaxVersion,     \* bound: changes of the owner
    MaxDeaths,      \* bound: handlers that die
    MaxAged         \* bound: uploads that lie about for more than 7 days

FilesAssumption ==
    /\ Owners \subseteq {"document", "debt", "loan"}
    /\ MaxVersion \in Nat /\ MaxDeaths \in Nat /\ MaxAged \in Nat

VARIABLES
    owner,      \* what the files are attached to
    closed,     \* the voucher is paid, rejected or cancelled
    version,    \* version of the voucher
    embedded,   \* embedded[a]: entries of a in attachments[]
    cited,      \* referenced_by is not empty
    row,        \* row[a]: the state of a's row
    file,       \* files in the storage
    asked,      \* asked[a]: the version the client saw
    aged,       \* rows older than 7 days
    held,       \* held[h]: the request handler h works on
    cleaning,   \* the rows the clean-up has read and not dealt with
    wiped,      \* the row whose file the clean-up has removed
    crashesLeft

filesVars == <<owner, closed, version, embedded, cited, row, file, asked, aged, held,
               cleaning, wiped, crashesLeft>>
store == <<embedded, cited, row, file, asked, aged>>

Idle == [op |-> "idle"]
Doing(op, a) == [op |-> op, upload |-> a, ifMatch |-> version]

FilesInit ==
    /\ owner \in Owners
    /\ closed = FALSE
    /\ version = 0
    /\ embedded = [a \in Uploads |-> 0]
    /\ cited = {}
    /\ row = [a \in Uploads |-> "none"]
    /\ file = {}
    /\ asked = [a \in Uploads |-> 0]
    /\ aged = {}
    /\ held = [h \in Handlers |-> Idle]
    /\ cleaning = {}
    /\ wiped = {}
    /\ crashesLeft = MaxDeaths

-----------------------------------------------------------------------------
(* POST attachments/prepare, then the client puts the file in the storage   *)
(* (the signed address is good for minutes).                                *)
Prepare(a) ==
    /\ row[a] = "none" /\ a \notin aged /\ embedded[a] = 0 /\ a \notin file
    /\ ~closed
    /\ row' = [row EXCEPT ![a] = "prepared"]
    /\ asked' = [asked EXCEPT ![a] = version]
    /\ UNCHANGED <<owner, closed, version, embedded, cited, file, aged, held,
                   cleaning, wiped, crashesLeft>>

Put(a) ==
    /\ row[a] = "prepared" /\ a \notin aged
    /\ file' = file \cup {a}
    /\ UNCHANGED <<owner, closed, version, embedded, cited, row, asked, aged, held,
                   cleaning, wiped, crashesLeft>>

(* POST attachments/confirm, which may arrive more than once: the row is    *)
(* read and the file looked for,                                            *)
Confirm(h, a) ==
    /\ held[h] = Idle
    /\ row[a] \in {"prepared", "orphan"}
    /\ a \in file
    /\ held' = [held EXCEPT ![h] = [Doing("embed", a) EXCEPT !.ifMatch = asked[a]]]
    /\ UNCHANGED <<owner, closed, version, store, cleaning, wiped, crashesLeft>>

(* then attachments[] is written: a voucher by compare-and-set, a debt or a *)
(* loan whatever happened to it meanwhile.                                  *)
MatchesAnyway(w) == TRUE

Matches(w) == owner = "document" => w.ifMatch = version

Embed(h) ==
    LET w == held[h]
    IN  /\ w.op = "embed"
        /\ version < MaxVersion
        /\ IF Matches(w)
             THEN /\ embedded' = [embedded EXCEPT ![w.upload] = @ + 1]
                  /\ version' = version + 1
                  /\ held' = [held EXCEPT ![h].op = "mark"]
             ELSE /\ held' = [held EXCEPT ![h] = Idle]
                  /\ UNCHANGED <<embedded, version>>
        /\ UNCHANGED <<owner, closed, cited, row, file, asked, aged, cleaning, wiped, crashesLeft>>

(* and at last the row.                                                     *)
Mark(h) ==
    LET a == held[h].upload
    IN  /\ held[h].op = "mark"
        /\ row' = [row EXCEPT ![a] = IF @ = "none" THEN "none" ELSE "confirmed"]
        /\ held' = [held EXCEPT ![h] = Idle]
        /\ UNCHANGED <<owner, closed, version, embedded, cited, file, asked, aged,
                       cleaning, wiped, crashesLeft>>

-----------------------------------------------------------------------------
(* POST attachments/:attachmentId/remove: nobody downloaded it yet and the  *)
(* voucher is open; the entry, the row and the file go in this order.       *)
RemoveUpload(h, a) ==
    /\ held[h] = Idle
    /\ embedded[a] > 0 /\ a \notin cited
    /\ ~closed
    /\ held' = [held EXCEPT ![h] = Doing("pull", a)]
    /\ UNCHANGED <<owner, closed, version, store, cleaning, wiped, crashesLeft>>

Pull(h) ==
    LET w == held[h]
    IN  /\ w.op = "pull"
        /\ version < MaxVersion
        /\ IF Matches(w)
             THEN /\ embedded' = [embedded EXCEPT ![w.upload] = 0]
                  /\ version' = version + 1
                  /\ held' = [held EXCEPT ![h].op = "dropRow"]
             ELSE /\ held' = [held EXCEPT ![h] = Idle]
                  /\ UNCHANGED <<embedded, version>>
        /\ UNCHANGED <<owner, closed, cited, row, file, asked, aged, cleaning, wiped, crashesLeft>>

DropRow(h) ==
    /\ held[h].op = "dropRow"
    /\ row' = [row EXCEPT ![held[h].upload] = "none"]
    /\ held' = [held EXCEPT ![h].op = "dropFile"]
    /\ UNCHANGED <<owner, closed, version, embedded, cited, file, asked, aged,
                   cleaning, wiped, crashesLeft>>

DropFile(h) ==
    /\ held[h].op = "dropFile"
    /\ file' = file \ {held[h].upload}
    /\ aged' = aged \cup {held[h].upload}      \* the upload is over for good
    /\ held' = [held EXCEPT ![h] = Idle]
    /\ UNCHANGED <<owner, closed, version, embedded, cited, row, asked,
                   cleaning, wiped, crashesLeft>>

(* GET /attachments/:id?download=1 notes the reader, without a version.     *)
Download(a) ==
    /\ row[a] = "confirmed"
    /\ embedded[a] > 0
    /\ cited' = cited \cup {a}
    /\ UNCHANGED <<owner, closed, version, embedded, row, file, asked, aged, held,
                   cleaning, wiped, crashesLeft>>

(* The owner changes otherwise, or the voucher is closed, by                *)
(* compare-and-set. Debts and loans are not closed to attachments.          *)
Change ==
    /\ version < MaxVersion
    /\ version' = version + 1
    /\ closed' \in IF owner = "document" THEN {closed, TRUE} ELSE {closed}
    /\ UNCHANGED <<owner, store, held, cleaning, wiped, crashesLeft>>

-----------------------------------------------------------------------------
(* Seven days pass. No request lasts that long.                             *)
Age(a) ==
    /\ row[a] = "prepared"
    /\ Cardinality(aged) < MaxAged
    /\ \A h \in Handlers : held[h] = Idle
    /\ aged' = aged \cup {a}
    /\ UNCHANGED <<owner, closed, version, embedded, cited, row, file, asked, held,
                   cleaning, wiped, crashesLeft>>

(* cleanupOrphans: the rows that were never confirmed are read; the file of *)
(* each is removed, then its row is marked, whatever became of it.          *)
ReadOrphans ==
    /\ cleaning = {} /\ wiped = {}
    /\ cleaning' = {a \in aged : row[a] = "prepared"}
    /\ UNCHANGED <<owner, closed, version, store, held, wiped, crashesLeft>>

WipeFile(a) ==
    /\ a \in cleaning /\ wiped = {}
    /\ file' = file \ {a}
    /\ wiped' = {a}
    /\ cleaning' = cleaning \ {a}
    /\ UNCHANGED <<owner, closed, version, embedded, cited, row, asked, aged, held, crashesLeft>>

WipeRow(a) ==
    /\ a \in wiped
    /\ row' = [row EXCEPT ![a] = IF @ = "none" THEN "none" ELSE "orphan"]
    /\ wiped' = {}
    /\ UNCHANGED <<owner, closed, version, embedded, cited, file, asked, aged, held,
                   cleaning, crashesLeft>>

(* A handler dies.                                                          *)
HandlerDies(h) ==
    /\ held[h] # Idle
    /\ crashesLeft > 0
    /\ crashesLeft' = crashesLeft - 1
    /\ held' = [held EXCEPT ![h] = Idle]
    /\ UNCHANGED <<owner, closed, version, store, cleaning, wiped>>

HandlerStep(h) ==
    \/ \E a \in Uploads : Confirm(h, a) \/ RemoveUpload(h, a)
    \/ Embed(h) \/ Mark(h) \/ Pull(h) \/ DropRow(h) \/ DropFile(h) \/ HandlerDies(h)

FilesNext ==
    \/ \E h \in Handlers : HandlerStep(h)
    \/ \E a \in Uploads : Prepare(a) \/ Put(a) \/ Download(a) \/ Age(a) \/ WipeFile(a) \/ WipeRow(a)
    \/ Change \/ ReadOrphans

FilesSpec == FilesInit /\ [][FilesNext]_filesVars

-----------------------------------------------------------------------------
(* Rows, files and entries are those of uploads, at a state the code has.   *)
FilesTypeOK ==
    /\ owner \in Owners
    /\ embedded \in [Uploads -> Nat]
    /\ row \in [Uploads -> {"none", "prepared", "confirmed", "orphan"}]
    /\ file \subseteq Uploads /\ cited \subseteq Uploads
    /\ aged \subseteq Uploads /\ cleaning \subseteq Uploads /\ wiped \subseteq Uploads
    /\ version \in 0..MaxVersion

(* A voucher lists an upload once, however often its confirmation arrives   *)
(* and wherever the handler of an earlier one died.                         *)
EmbeddedOnce == owner = "document" => \A a \in Uploads : embedded[a] <= 1

(* The evidence of a closed voucher does not change any more, whatever was  *)
(* being confirmed or removed when it was closed.                           *)
ClosedFilesFixed == [][closed => embedded' = embedded]_filesVars
=============================================================================
