------------------------ MODULE DocumentFilesProofs ------------------------
(***************************************************************************)
(* Proofs about DocumentFiles. A confirmation carries the version its      *)
(* client saw when it asked for the upload. What an upload was asked at is *)
(* never ahead of the voucher (AskedBefore), falls behind it with the      *)
(* first confirmation that is written (ListedIsPast) and with the voucher  *)
(* being closed (ClosedIsPast); a handler carries nothing newer than that. *)
(***************************************************************************)
EXTENDS DocumentFiles, TLAPS

Work == [op : {"embed", "mark", "pull", "dropRow", "dropFile"}, upload : Uploads, ifMatch : Nat]

Typed ==
    /\ FilesTypeOK
    /\ held \in [Handlers -> {Idle} \cup Work]
    /\ asked \in [Uploads -> Nat]
    /\ closed => owner = "document"

AskedBefore ==
    /\ \A a \in Uploads : asked[a] <= version
    /\ \A h \in Handlers : held[h] # Idle =>
          /\ held[h].ifMatch <= version
          /\ held[h].op = "embed" => held[h].ifMatch <= asked[held[h].upload]

ListedIsPast ==
    owner = "document" => \A a \in Uploads : embedded[a] > 0 => asked[a] < version

ClosedIsPast ==
    closed =>
        /\ \A a \in Uploads : asked[a] < version
        /\ \A h \in Handlers : held[h] # Idle /\ held[h].op \in {"embed", "pull"} => held[h].ifMatch < version

Inv == Typed /\ AskedBefore /\ EmbeddedOnce /\ ListedIsPast /\ ClosedIsPast

-----------------------------------------------------------------------------
LEMMA InvInit == ASSUME FilesAssumption, FilesInit PROVE Inv
<1> USE DEF FilesAssumption, FilesInit
<1>1. Typed
  <2>1. FilesTypeOK /\ held \in [Handlers -> {Idle} \cup Work] /\ asked \in [Uploads -> Nat]
    BY DEF FilesTypeOK
  <2>2. closed => owner = "document"
    BY Zenon
  <2> QED BY <2>1, <2>2 DEF Typed
<1>2. AskedBefore
  BY DEF AskedBefore
<1> QED
  BY <1>1, <1>2 DEF Inv, EmbeddedOnce, ListedIsPast, ClosedIsPast

LEMMA TypedNext == ASSUME FilesAssumption, Inv, [FilesNext]_filesVars PROVE Typed'
<1> USE DEF FilesAssumption, Inv, Typed, FilesTypeOK
<1>1. CASE UNCHANGED filesVars
  BY <1>1 DEF filesVars
<1>2. ASSUME NEW a \in Uploads, Prepare(a) PROVE Typed'
  BY <1>2 DEF Prepare
<1>3. ASSUME NEW a \in Uploads, Put(a) PROVE Typed'
  BY <1>3 DEF Put
<1>4. ASSUME NEW a \in Uploads, Download(a) PROVE Typed'
  BY <1>4 DEF Download
<1>5. ASSUME NEW a \in Uploads, Age(a) PROVE Typed'
  BY <1>5 DEF Age
<1>6. ASSUME NEW a \in Uploads, WipeFile(a) PROVE Typed'
  BY <1>6 DEF WipeFile
<1>7. ASSUME NEW a \in Uploads, WipeRow(a) PROVE Typed'
  BY <1>7 DEF WipeRow
<1>8. CASE Change
  <2>1. (closed => owner = "document")'
    <3>1. CASE owner = "document"
      BY <1>8, <3>1 DEF Change
    <3>2. CASE owner # "document"
      BY <1>8, <3>2 DEF Change
    <3> QED BY <3>1, <3>2
  <2> QED BY <1>8, <2>1 DEF Change, store
<1>9. CASE ReadOrphans
  BY <1>9 DEF ReadOrphans, store
<1>10. ASSUME NEW h \in Handlers, HandlerStep(h) PROVE Typed'
  <2>1. ASSUME NEW a \in Uploads, Confirm(h, a) PROVE Typed'
    BY <2>1 DEF Confirm, Doing, Work, store
  <2>2. ASSUME NEW a \in Uploads, RemoveUpload(h, a) PROVE Typed'
    BY <2>2 DEF RemoveUpload, Doing, Work, store
  <2>3. CASE Embed(h)
    BY <2>3 DEF Embed, Work, Idle
  <2>4. CASE Mark(h)
    BY <2>4 DEF Mark, Work, Idle
  <2>5. CASE Pull(h)
    BY <2>5 DEF Pull, Work, Idle
  <2>6. CASE DropRow(h)
    BY <2>6 DEF DropRow, Work, Idle
  <2>7. CASE DropFile(h)
    BY <2>7 DEF DropFile, Work, Idle
  <2>8. CASE HandlerDies(h)
    BY <2>8 DEF HandlerDies, store
  <2> QED BY <1>10, <2>1, <2>2, <2>3, <2>4, <2>5, <2>6, <2>7, <2>8 DEF HandlerStep
<1> QED BY <1>1, <1>2, <1>3, <1>4, <1>5, <1>6, <1>7, <1>8, <1>9, <1>10 DEF FilesNext

-----------------------------------------------------------------------------
(* What is asked for is asked at the version of the moment, and the version *)
(* never goes back.                                                         *)
LEMMA AskedBeforeNext == ASSUME Inv, [FilesNext]_filesVars PROVE AskedBefore'
<1> USE DEF Inv, Typed, FilesTypeOK, AskedBefore
<1>1. CASE UNCHANGED filesVars
  BY <1>1 DEF filesVars
<1>2. ASSUME NEW a \in Uploads, Prepare(a) PROVE AskedBefore'
  BY <1>2 DEF Prepare, Work
<1>3. ASSUME NEW a \in Uploads, Put(a) \/ Download(a) \/ Age(a) \/ WipeFile(a) \/ WipeRow(a) PROVE AskedBefore'
  BY <1>3 DEF Put, Download, Age, WipeFile, WipeRow
<1>4. CASE Change
  BY <1>4 DEF Change, store, Work
<1>5. CASE ReadOrphans
  BY <1>5 DEF ReadOrphans, store
<1>6. ASSUME NEW h \in Handlers, HandlerStep(h) PROVE AskedBefore'
  <2>1. ASSUME NEW a \in Uploads, Confirm(h, a) PROVE AskedBefore'
    BY <2>1 DEF Confirm, Doing, Work, store
  <2>2. ASSUME NEW a \in Uploads, RemoveUpload(h, a) PROVE AskedBefore'
    BY <2>2 DEF RemoveUpload, Doing, Work, store
  <2>3. CASE Embed(h)
    BY <2>3 DEF Embed, Work, Idle
  <2>4. CASE Mark(h) \/ DropRow(h) \/ DropFile(h)
    BY <2>4 DEF Mark, DropRow, DropFile, Work, Idle
  <2>5. CASE Pull(h)
    BY <2>5 DEF Pull, Work, Idle
  <2>6. CASE HandlerDies(h)
    BY <2>6 DEF HandlerDies, store
  <2> QED BY <1>6, <2>1, <2>2, <2>3, <2>4, <2>5, <2>6 DEF HandlerStep
<1> QED BY <1>1, <1>2, <1>3, <1>4, <1>5, <1>6 DEF FilesNext

(* A first confirmation moves the version past the one it was asked at, so  *)
(* that the second does not match any more.                                 *)
LEMMA ListedNext == ASSUME Inv, [FilesNext]_filesVars PROVE EmbeddedOnce' /\ ListedIsPast'
<1> USE DEF Inv, Typed, FilesTypeOK, EmbeddedOnce, ListedIsPast
<1>1. CASE UNCHANGED filesVars
  BY <1>1 DEF filesVars
<1>2. ASSUME NEW a \in Uploads, Prepare(a) PROVE EmbeddedOnce' /\ ListedIsPast'
  BY <1>2 DEF Prepare
<1>3. ASSUME NEW a \in Uploads, Put(a) \/ Download(a) \/ Age(a) \/ WipeFile(a) \/ WipeRow(a)
      PROVE EmbeddedOnce' /\ ListedIsPast'
  BY <1>3 DEF Put, Download, Age, WipeFile, WipeRow
<1>4. CASE Change
  BY <1>4 DEF Change, store
<1>5. CASE ReadOrphans
  BY <1>5 DEF ReadOrphans, store
<1>6. ASSUME NEW h \in Handlers, HandlerStep(h) PROVE EmbeddedOnce' /\ ListedIsPast'
  <2>1. ASSUME NEW a \in Uploads, Confirm(h, a) \/ RemoveUpload(h, a) PROVE EmbeddedOnce' /\ ListedIsPast'
    BY <2>1 DEF Confirm, RemoveUpload, store
  <2>2. CASE Embed(h)
    <3>1. CASE owner # "document"
      BY <2>2, <3>1 DEF Embed
    <3>2. CASE owner = "document" /\ held[h].ifMatch = version
      <4>1. held[h] \in Work /\ held[h].op = "embed"
        BY <2>2 DEF Embed, Idle
      <4>2. embedded[held[h].upload] = 0
        BY <3>2, <4>1 DEF AskedBefore, Work, Idle
      <4> QED BY <2>2, <3>2, <4>1, <4>2 DEF Embed, Matches, Work, AskedBefore
    <3>3. CASE owner = "document" /\ held[h].ifMatch # version
      BY <2>2, <3>3 DEF Embed, Matches
    <3> QED BY <3>1, <3>2, <3>3
  <2>3. CASE Mark(h) \/ DropRow(h) \/ DropFile(h)
    BY <2>3 DEF Mark, DropRow, DropFile
  <2>4. CASE Pull(h)
    BY <2>4 DEF Pull, Work, Idle
  <2>5. CASE HandlerDies(h)
    BY <2>5 DEF HandlerDies, store
  <2> QED BY <1>6, <2>1, <2>2, <2>3, <2>4, <2>5 DEF HandlerStep
<1> QED BY <1>1, <1>2, <1>3, <1>4, <1>5, <1>6 DEF FilesNext

(* Closing a voucher leaves everything behind that was asked for before.    *)
LEMMA ClosedNext == ASSUME Inv, [FilesNext]_filesVars PROVE ClosedIsPast'
<1> USE DEF Inv, Typed, FilesTypeOK, ClosedIsPast
<1>1. CASE UNCHANGED filesVars
  BY <1>1 DEF filesVars
<1>2. ASSUME NEW a \in Uploads, Prepare(a) PROVE ClosedIsPast'
  BY <1>2 DEF Prepare
<1>3. ASSUME NEW a \in Uploads, Put(a) \/ Download(a) \/ Age(a) \/ WipeFile(a) \/ WipeRow(a) PROVE ClosedIsPast'
  BY <1>3 DEF Put, Download, Age, WipeFile, WipeRow
<1>4. CASE Change
  BY <1>4 DEF Change, store, AskedBefore, Work
<1>5. CASE ReadOrphans
  BY <1>5 DEF ReadOrphans, store
<1>6. ASSUME NEW h \in Handlers, HandlerStep(h) PROVE ClosedIsPast'
  <2>1. ASSUME NEW a \in Uploads, Confirm(h, a) PROVE ClosedIsPast'
    BY <2>1 DEF Confirm, Doing, Work, store
  <2>2. ASSUME NEW a \in Uploads, RemoveUpload(h, a) PROVE ClosedIsPast'
    BY <2>2 DEF RemoveUpload
  <2>3. CASE Embed(h)
    BY <2>3 DEF Embed, Work, Idle
  <2>4. CASE Mark(h) \/ DropFile(h)
    BY <2>4 DEF Mark, DropFile, Idle
  <2>5. CASE DropRow(h)
    BY <2>5 DEF DropRow, Work, Idle
  <2>6. CASE Pull(h)
    BY <2>6 DEF Pull, Work, Idle
  <2>7. CASE HandlerDies(h)
    BY <2>7 DEF HandlerDies, store
  <2> QED BY <1>6, <2>1, <2>2, <2>3, <2>4, <2>5, <2>6, <2>7 DEF HandlerStep
<1> QED BY <1>1, <1>2, <1>3, <1>4, <1>5, <1>6 DEF FilesNext

LEMMA ClosedStep == ASSUME Inv, [FilesNext]_filesVars, closed PROVE embedded' = embedded
<1> USE DEF Inv, Typed, FilesTypeOK, ClosedIsPast
<1>1. CASE UNCHANGED filesVars
  BY <1>1 DEF filesVars
<1>2. ASSUME NEW a \in Uploads, Prepare(a) \/ Put(a) \/ Download(a) \/ Age(a) \/ WipeFile(a) \/ WipeRow(a)
      PROVE embedded' = embedded
  BY <1>2 DEF Prepare, Put, Download, Age, WipeFile, WipeRow
<1>3. CASE Change \/ ReadOrphans
  BY <1>3 DEF Change, ReadOrphans, store
<1>4. ASSUME NEW h \in Handlers, HandlerStep(h) PROVE embedded' = embedded
  <2>1. ASSUME NEW a \in Uploads, Confirm(h, a) \/ RemoveUpload(h, a) PROVE embedded' = embedded
    BY <2>1 DEF Confirm, RemoveUpload, store
  <2>2. CASE Embed(h) \/ Pull(h)
    <3>1. held[h].op \in {"embed", "pull"} /\ held[h] \in Work /\ held[h] # Idle
      <4>1. held[h].op = "embed" \/ held[h].op = "pull"
        BY <2>2 DEF Embed, Pull
      <4> QED BY <4>1 DEF Idle
    <3>2. ~Matches(held[h])
      BY <3>1 DEF Matches, Work
    <3> QED BY <2>2, <3>2 DEF Embed, Pull
  <2>3. CASE Mark(h) \/ DropRow(h) \/ DropFile(h) \/ HandlerDies(h)
    BY <2>3 DEF Mark, DropRow, DropFile, HandlerDies, store
  <2> QED BY <1>4, <2>1, <2>2, <2>3 DEF HandlerStep
<1> QED BY <1>1, <1>2, <1>3, <1>4 DEF FilesNext

-----------------------------------------------------------------------------
LEMMA InvHolds == ASSUME FilesAssumption PROVE FilesSpec => []Inv
<1>1. FilesInit => Inv
  BY InvInit
<1>2. Inv /\ [FilesNext]_filesVars => Inv'
  BY TypedNext, AskedBeforeNext, ListedNext, ClosedNext DEF Inv
<1> QED BY <1>1, <1>2, PTL DEF FilesSpec

(* Rows, files, entries and versions keep their types, for any number of    *)
(* uploads, handlers, crashes and changes.                                  *)
THEOREM TypeCorrect == ASSUME FilesAssumption PROVE FilesSpec => []FilesTypeOK
<1>1. Inv => FilesTypeOK
  BY DEF Inv, Typed
<1> QED BY <1>1, InvHolds, PTL

(* A voucher lists an upload once, however often its confirmation arrives.  *)
THEOREM EmbeddedOnceHolds == ASSUME FilesAssumption PROVE FilesSpec => []EmbeddedOnce
<1>1. Inv => EmbeddedOnce
  BY DEF Inv
<1> QED BY <1>1, InvHolds, PTL

(* The evidence of a closed voucher does not change.                        *)
THEOREM ClosedFilesFixedHolds == ASSUME FilesAssumption PROVE FilesSpec => ClosedFilesFixed
<1>1. Inv /\ [FilesNext]_filesVars => [closed => embedded' = embedded]_filesVars
  BY ClosedStep
<1> QED BY <1>1, InvHolds, PTL DEF FilesSpec, ClosedFilesFixed
=============================================================================
