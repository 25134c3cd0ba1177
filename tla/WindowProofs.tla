---------------------------- MODULE WindowProofs ----------------------------
(***************************************************************************)
(* Proofs about parts of the window and of its main process, each a        *)
(* section of its own: SignIn, Imports, Files, HwSync, LiveFeed, AppUpdate *)
(* and Screen, for any values of their constants.                          *)
(***************************************************************************)
EXTENDS SignIn, Imports, Files, HwSync, LiveFeed, AppUpdate, Screen, SequenceTheorems, TLAPS

-----------------------------------------------------------------------------
(***************************************************************************)
(* SignIn: the devices listed are those of the address shown.              *)
(***************************************************************************)

\* A code that is being verified is of the address shown, unless the form has gone
\* back to the address: then only a new code, which drops the list, leads on.
VerifiesShown == step = "code" /\ asking = "verify" => sentEmail = email

SignInInv == VerifiesShown /\ LimitOfShownEmail

LEMMA FreshInv == ASSUME NEW e, Fresh(e) PROVE SignInInv'
BY DEF Fresh, SignInInv, VerifiesShown, LimitOfShownEmail

LEMMA UserInv ==
  ASSUME SignInInv,
         \/ \E e \in Email : TypeEmail(e)
         \/ \E full \in BOOLEAN : TypeCode(full)
         \/ SendCode \/ Resend \/ Verify \/ OpenLimit \/ OtherEmail \/ CloseLimit \/ Replace
  PROVE  SignInInv'
<1> USE DEF SignInInv, VerifiesShown, LimitOfShownEmail, formVars, limitVars
<1>1. CASE \E e \in Email : TypeEmail(e)
  BY <1>1 DEF TypeEmail, AtForm, Shown
<1>2. CASE \E full \in BOOLEAN : TypeCode(full)
  BY <1>2 DEF TypeCode
<1>3. CASE SendCode \/ Resend \/ Verify
  BY <1>3 DEF SendCode, Resend, Verify, Ask, AtForm, Shown
<1>4. CASE OpenLimit
  BY <1>4 DEF OpenLimit, LimitExpired
<1>5. CASE OtherEmail
  BY <1>5 DEF OtherEmail
<1>6. CASE CloseLimit \/ Replace
  BY <1>6 DEF CloseLimit, Replace
<1> QED
  BY <1>1, <1>2, <1>3, <1>4, <1>5, <1>6

LEMMA FormAnswerInv ==
  ASSUME SignInInv,
         \/ \E e \in Email : Replaced(e)
         \/ CodeSent \/ Verified \/ TooManyDevices \/ Refused \/ TokenRefused \/ ReplaceFails
         \/ CooldownEnds \/ NineMinutes \/ SignedOutAgain
  PROVE  SignInInv'
<1>1. CASE (\E e \in Email : Replaced(e)) \/ Verified \/ SignedOutAgain
  BY <1>1, FreshInv DEF Replaced, Verified, SignedInAs, SignedOutAgain
<1> USE DEF SignInInv, VerifiesShown, LimitOfShownEmail, formVars, limitVars
<1>2. CASE CodeSent
  BY <1>2 DEF CodeSent, Done
<1>3. CASE TooManyDevices
  BY <1>3 DEF TooManyDevices, Done
<1>4. CASE Refused
  BY <1>4 DEF Refused, Done
<1>5. CASE TokenRefused
  BY <1>5 DEF TokenRefused, LimitExpired
<1>6. CASE ReplaceFails
  BY <1>6 DEF ReplaceFails
<1>7. CASE CooldownEnds \/ NineMinutes
  BY <1>7 DEF CooldownEnds, NineMinutes
<1> QED
  BY <1>1, <1>2, <1>3, <1>4, <1>5, <1>6, <1>7

LEMMA InitSignIn == SignInInit => SignInInv
BY DEF SignInInit, SignInInv, VerifiesShown, LimitOfShownEmail

LEMMA NextSignIn == ASSUME SignInInv, [SignInNext]_signVars PROVE SignInInv'
<1>1. CASE UNCHANGED signVars
  BY <1>1 DEF signVars, SignInInv, VerifiesShown, LimitOfShownEmail
<1> QED
  BY <1>1, UserInv, FormAnswerInv DEF SignInNext

\* Whatever answers come late, the devices offered are those of the address shown.
THEOREM LimitIsOfShown == SignInSpec => []LimitOfShownEmail
<1>1. SignInInv /\ [SignInNext]_signVars => SignInInv'
  BY NextSignIn
<1>2. SignInInv => LimitOfShownEmail
  BY DEF SignInInv
<1> QED
  BY <1>1, <1>2, InitSignIn, PTL DEF SignInSpec

LEMMA FreshTypes ==
  ASSUME SignInAssumption, NEW e \in Email \cup {NoEmail}, Fresh(e), signedIn' \in BOOLEAN
  PROVE  SignInTypeOK'
<1>1. replacing' \in 0 .. MaxReplacing
  BY DEF SignInAssumption, Fresh
<1> QED
  BY <1>1 DEF Fresh, SignInTypeOK

LEMMA UserTypes ==
  ASSUME SignInAssumption, SignInTypeOK,
         \/ \E e \in Email : TypeEmail(e)
         \/ \E full \in BOOLEAN : TypeCode(full)
         \/ SendCode \/ Resend \/ Verify \/ OpenLimit \/ OtherEmail \/ CloseLimit \/ Replace
  PROVE  SignInTypeOK'
<1>n. replacing \in 0 .. MaxReplacing /\ MaxReplacing \in Nat
  BY DEF SignInTypeOK, SignInAssumption
<1> USE DEF SignInTypeOK, formVars, limitVars
<1>1. CASE \E e \in Email : TypeEmail(e)
  BY <1>1 DEF TypeEmail
<1>2. CASE \E full \in BOOLEAN : TypeCode(full)
  BY <1>2 DEF TypeCode
<1>3. CASE SendCode \/ Resend \/ Verify
  BY <1>3 DEF SendCode, Resend, Verify, Ask
<1>4. CASE OpenLimit
  BY <1>4 DEF OpenLimit, LimitExpired
<1>5. CASE OtherEmail
  BY <1>5 DEF OtherEmail
<1>6. CASE CloseLimit \/ Replace
  <2>1. replacing' \in 0 .. MaxReplacing
    BY <1>n, <1>6 DEF CloseLimit, Replace
  <2> QED
    BY <1>6, <2>1 DEF CloseLimit, Replace
<1> QED
  BY <1>1, <1>2, <1>3, <1>4, <1>5, <1>6

LEMMA AnswerTypes ==
  ASSUME SignInAssumption, SignInTypeOK,
         \/ \E e \in Email : Replaced(e)
         \/ CodeSent \/ Verified \/ TooManyDevices \/ Refused \/ TokenRefused \/ ReplaceFails
         \/ CooldownEnds \/ NineMinutes \/ SignedOutAgain
  PROVE  SignInTypeOK'
<1>1. CASE (\E e \in Email : Replaced(e)) \/ Verified \/ SignedOutAgain
  <2>1. email \in Email \cup {NoEmail} /\ sentEmail \in Email \cup {NoEmail}
    BY DEF SignInTypeOK
  <2> QED
    BY <1>1, <2>1, FreshTypes DEF Replaced, Verified, SignedInAs, SignedOutAgain
<1>n. replacing \in 0 .. MaxReplacing /\ MaxReplacing \in Nat
  BY DEF SignInTypeOK, SignInAssumption
<1> USE DEF SignInTypeOK, formVars, limitVars
<1>2. CASE CodeSent
  BY <1>2 DEF CodeSent, Done
<1>3. CASE TooManyDevices
  BY <1>3 DEF TooManyDevices, Done
<1>4. CASE Refused
  BY <1>4 DEF Refused, Done
<1>5. CASE TokenRefused
  <2>1. replacing' \in 0 .. MaxReplacing
    BY <1>n, <1>5 DEF TokenRefused
  <2> QED
    BY <1>5, <2>1 DEF TokenRefused, LimitExpired
<1>6. CASE ReplaceFails
  <2>1. replacing' \in 0 .. MaxReplacing
    BY <1>n, <1>6 DEF ReplaceFails
  <2>2. /\ picking' \in BOOLEAN
        /\ UNCHANGED <<step, email, code, asking, sentEmail, needNew, limit, oldLimit, limitOpen,
                       cooldown, signedIn>>
    BY <1>6 DEF ReplaceFails
  <2> QED
    BY <2>1, <2>2
<1>7. CASE CooldownEnds \/ NineMinutes
  BY <1>7 DEF CooldownEnds, NineMinutes
<1> QED
  BY <1>1, <1>2, <1>3, <1>4, <1>5, <1>6, <1>7

LEMMA InitSignInTypes == ASSUME SignInAssumption, SignInInit PROVE SignInTypeOK
<1>1. replacing \in 0 .. MaxReplacing
  BY DEF SignInAssumption, SignInInit
<1> QED
  BY <1>1 DEF SignInInit, SignInTypeOK

LEMMA NextSignInTypes ==
  ASSUME SignInAssumption, SignInTypeOK, [SignInNext]_signVars PROVE SignInTypeOK'
<1>1. CASE UNCHANGED signVars
  BY <1>1 DEF signVars, SignInTypeOK
<1> QED
  BY <1>1, UserTypes, AnswerTypes DEF SignInNext

\* The form's state keeps its types.
THEOREM SignInTypeCorrect == ASSUME SignInAssumption PROVE SignInSpec => []SignInTypeOK
<1> QED
  BY InitSignInTypes, NextSignInTypes, PTL DEF SignInSpec

-----------------------------------------------------------------------------
(***************************************************************************)
(* Imports: what is ticked and shown is of the file chosen.                *)
(***************************************************************************)

\* Nothing is ticked but what is shown, and that is of the file chosen.
ShowsChosen ==
  \A s \in Source : IF data[s] = NoData THEN ticked[s] = {}
                    ELSE ticked[s] \subseteq data[s].new /\ data[s].from = file[s]

\* A read that is not stale is of the file chosen.
ReadsChosen == \A q \in reads : ~q.stale => q.path = file[q.source]

ImportsInv == ImportsTypeOK /\ ShowsChosen /\ ReadsChosen /\ ImportsWhatWasShown

LEMMA InitImports == ASSUME ImportsAssumption, ImportsInit PROVE ImportsInv
<1>1. \A s \in Source : /\ NewRead(s, Usual) \in Fetch /\ NewRead(s, Usual).source = s
                         /\ NewRead(s, Usual).path = Usual
  BY DEF ImportsAssumption, NewRead, Fetch
<1>2. reads \subseteq Fetch /\ ReadsChosen
  BY <1>1 DEF ImportsInit, ReadsChosen
<1>3. /\ from \in Source /\ file \in [Source -> Path] /\ importing = {}
      /\ data = [s \in Source |-> NoData] /\ ticked = [s \in Source |-> {}]
  BY DEF ImportsInit, ImportsAssumption, Source
<1>4. ImportsTypeOK
  BY <1>2, <1>3 DEF ImportsTypeOK
<1>5. ShowsChosen /\ ImportsWhatWasShown
  BY <1>3 DEF ShowsChosen, ImportsWhatWasShown
<1> QED
  BY <1>2, <1>4, <1>5 DEF ImportsInv

\* Another file: what was shown goes, and the reads under way become stale.
LEMMA ChooseFileInv ==
  ASSUME ImportsInv, NEW p \in Path, ChooseFile(p)
  PROVE  ImportsInv'
<1> USE DEF ImportsInv, ImportsTypeOK
<1>1. \A q \in Fetch : /\ [q EXCEPT !.stale = @ \/ q.source = from] \in Fetch
                       /\ [q EXCEPT !.stale = @ \/ q.source = from].source = q.source
                       /\ [q EXCEPT !.stale = @ \/ q.source = from].path = q.path
                       /\ ~[q EXCEPT !.stale = @ \/ q.source = from].stale =>
                            ~q.stale /\ q.source # from
  BY DEF Fetch
<1>2. NewRead(from, p) \in Fetch /\ NewRead(from, p).source = from /\ NewRead(from, p).path = p
  BY DEF NewRead, Fetch
<1>3. \A q \in reads' : \/ q = NewRead(from, p)
                        \/ \E r \in reads : q = [r EXCEPT !.stale = @ \/ r.source = from]
  BY DEF ChooseFile, Stale
<1>4. reads' \subseteq Fetch
  BY <1>1, <1>2, <1>3
<1>5. ImportsTypeOK'
  BY <1>4 DEF ChooseFile
<1>6. ReadsChosen'
  BY <1>1, <1>2, <1>3 DEF ReadsChosen, ChooseFile, Fetch
<1>7. ShowsChosen'
  BY DEF ShowsChosen, ChooseFile
<1>8. ImportsWhatWasShown'
  BY DEF ImportsWhatWasShown, ChooseFile
<1> QED
  BY <1>5, <1>6, <1>7, <1>8

\* An answer is shown as of the file that was read, which is still the one chosen.
LEMMA ReadAnswersInv ==
  ASSUME ImportsAssumption, ImportsInv, NEW q \in Fetch, NEW new \in SUBSET Entry, ReadAnswers(q, new)
  PROVE  ImportsInv'
<1> DEFINE d == [new |-> new, from |-> q.path]
<1>1. q.source \in Source /\ q.path \in Path /\ d \in Data /\ d # NoData
  BY DEF Fetch, Data, ImportsAssumption
<1>2. ~q.stale => q.path = file[q.source]
  BY DEF ReadAnswers, ImportsInv, ReadsChosen
<1>3. ImportsTypeOK'
  BY <1>1 DEF ReadAnswers, ImportsInv, ImportsTypeOK
<1>4. ShowsChosen'
  <2> SUFFICES ASSUME NEW s \in Source
               PROVE  IF data'[s] = NoData THEN ticked'[s] = {}
                      ELSE ticked'[s] \subseteq data'[s].new /\ data'[s].from = file'[s]
    BY DEF ShowsChosen
  <2>1. CASE q.stale \/ s # q.source
    BY <1>1, <2>1 DEF ReadAnswers, ImportsInv, ImportsTypeOK, ShowsChosen
  <2>2. CASE ~q.stale /\ s = q.source
    <3>1. data'[s] = d /\ ticked'[s] \subseteq new /\ file' = file
      BY <1>1, <2>2 DEF ReadAnswers, ImportsInv, ImportsTypeOK
    <3> QED
      BY <1>1, <1>2, <2>2, <3>1
  <2> QED
    BY <2>1, <2>2
<1>5. ReadsChosen'
  BY DEF ReadAnswers, ImportsInv, ReadsChosen
<1>6. ImportsWhatWasShown'
  BY DEF ReadAnswers, ImportsInv, ImportsWhatWasShown
<1> QED
  BY <1>3, <1>4, <1>5, <1>6 DEF ImportsInv

LEMMA SubmitImportInv ==
  ASSUME ImportsInv, SubmitImport
  PROVE  ImportsInv'
<1> USE DEF ImportsInv
<1> DEFINE i == [source |-> from, entries |-> Chosen, path |-> file[from], shown |-> data[from]]
<1>1. from \in Source /\ ticked[from] \in SUBSET Entry
  BY DEF ImportsTypeOK
<1>2. data[from] # NoData /\ Chosen \subseteq data[from].new /\ Chosen \in SUBSET Entry
  BY <1>1 DEF SubmitImport, Chosen, ShowsChosen
<1>3. data[from] \in Data /\ data[from].from = file[from]
  BY <1>1, <1>2 DEF ImportsTypeOK, ShowsChosen
<1>4. importing' = {i} /\ UNCHANGED <<from, file, reads, data, ticked>>
  BY DEF SubmitImport
<1>5. i \in Import
  BY <1>1, <1>2, <1>3 DEF Import, ImportsTypeOK
<1>6. ImportsTypeOK'
  BY <1>4, <1>5 DEF ImportsTypeOK
<1>7. ImportsWhatWasShown'
  BY <1>2, <1>3, <1>4 DEF ImportsWhatWasShown
<1> QED
  BY <1>4, <1>6, <1>7 DEF ShowsChosen, ReadsChosen

LEMMA NextImports ==
  ASSUME ImportsAssumption, ImportsInv, [ImportsNext]_impVars
  PROVE  ImportsInv'
<1>1. CASE UNCHANGED impVars \/ (\E s \in Source : ShowSource(s)) \/ ImportFails
  BY <1>1 DEF ShowSource, ImportFails, impVars, ImportsInv, ImportsTypeOK, ShowsChosen, ReadsChosen,
    ImportsWhatWasShown
<1>2. CASE (\E e \in Entry : Tick(e)) \/ TickAll
  <2>1. /\ data[from] # NoData /\ from \in Source
        /\ ticked' = [ticked EXCEPT ![from] = ticked'[from]]
        /\ ticked'[from] \subseteq data[from].new /\ ticked'[from] \subseteq Entry
        /\ UNCHANGED <<from, file, reads, data, importing>>
    <3>1. ticked \in [Source -> SUBSET Entry] /\ from \in Source /\ data[from] # NoData
      BY <1>2 DEF Tick, TickAll, ImportsInv, ImportsTypeOK
    <3>2. ticked[from] \subseteq data[from].new /\ data[from].new \subseteq Entry
      BY <3>1 DEF ImportsInv, ImportsTypeOK, ShowsChosen, Data
    <3> QED
      BY <1>2, <3>1, <3>2 DEF Tick, TickAll
  <2> QED
    BY <2>1 DEF ImportsInv, ImportsTypeOK, ShowsChosen, ReadsChosen, ImportsWhatWasShown
<1>3. CASE \E q \in Fetch : ReadFails(q)
  BY <1>3 DEF ReadFails, ImportsInv, ImportsTypeOK, ShowsChosen, ReadsChosen, ImportsWhatWasShown
<1> QED
  BY <1>1, <1>2, <1>3, ChooseFileInv, ReadAnswersInv, SubmitImportInv DEF ImportsNext

\* What is shown and ticked is of the file chosen, and so is every read not stale.
THEOREM ImportsSafe == ASSUME ImportsAssumption PROVE ImportsSpec => []ImportsInv
<1>1. ImportsInit => ImportsInv
  BY InitImports
<1>2. ImportsInv /\ [ImportsNext]_impVars => ImportsInv'
  BY NextImports
<1> QED
  BY <1>1, <1>2, PTL DEF ImportsSpec

\* What is imported is what the user saw ticked, from the file it was read from.
THEOREM ImportsAreShown == ASSUME ImportsAssumption PROVE ImportsSpec => []ImportsWhatWasShown
BY ImportsSafe, PTL DEF ImportsInv

-----------------------------------------------------------------------------
(***************************************************************************)
(* Files: the list shown is the last one seen of the directory shown.      *)
(***************************************************************************)

ListIsLastSeen == listed => entries = lastSeen[path]

\* Nothing is done before a directory is shown, so that what is done is done in one.
WorkIsInDir ==
  /\ listed \/ choosing \/ (\E w \in Work : work[w] # NoWork) => path \in Dir
  /\ \A w \in Work : work[w] # NoWork => work[w].file[1] \in Dir

FilesInv == FilesTypeOK /\ ListIsLastSeen /\ WorkIsInDir

LEMMA InitFiles == FilesInit => FilesInv
<1> SUFFICES ASSUME FilesInit PROVE FilesInv
  OBVIOUS
<1>1. loads \in [Load -> LoadState \cup {NoLoad}]
  <2>1. PICK d \in Dir :
          loads = [[x \in Load |-> NoLoad] EXCEPT ![CHOOSE l \in Load : TRUE] =
                     [pc |-> "connecting", dir |-> d, files |-> {}]]
    BY DEF FilesInit
  <2>2. [pc |-> "connecting", dir |-> d, files |-> {}] \in LoadState
    BY DEF LoadState
  <2>3. [x \in Load |-> NoLoad] \in [Load -> LoadState \cup {NoLoad}]
    OBVIOUS
  <2> HIDE DEF NoLoad
  <2> QED
    BY <2>1, <2>2, <2>3
<1>2. work = [w \in Work |-> NoWork]
  BY DEF FilesInit
<1> QED
  BY <1>1, <1>2 DEF FilesInit, FilesInv, FilesTypeOK, ListIsLastSeen, WorkIsInDir

\* Loads: the work stays.
LEMMA LoadInv ==
  ASSUME FilesInv, NEW l \in Load,
         \/ \E d \in Dir : Browse(l, d)
         \/ LoadConnected(l) \/ ListFiles(l) \/ LoadShown(l) \/ LoadFails(l)
  PROVE  FilesInv'
<1>l. loads \in [Load -> LoadState \cup {NoLoad}]
  BY DEF FilesInv, FilesTypeOK
<1>s. loads[l].pc # "none" => loads[l] \in LoadState
  BY <1>l DEF NoLoad
<1> USE DEF FilesInv, FilesTypeOK, ListIsLastSeen, WorkIsInDir
<1>1. ASSUME NEW d \in Dir, Browse(l, d) PROVE FilesInv'
  <2>1. [pc |-> "connecting", dir |-> d, files |-> {}] \in LoadState
    BY DEF LoadState
  <2> QED
    BY <1>1, <2>1 DEF Browse, StartLoad
<1>2. CASE LoadConnected(l)
  <2>1. [loads[l] EXCEPT !.pc = "listing"] \in LoadState
    BY <1>2, <1>s DEF LoadConnected, LoadState
  <2> QED
    BY <1>2, <2>1 DEF LoadConnected
<1>3. CASE ListFiles(l)
  <2>1. PICK files \in SUBSET FileName :
          loads' = [loads EXCEPT ![l].pc = "listed", ![l].files = files]
    BY <1>3 DEF ListFiles
  <2>2. [loads[l] EXCEPT !.pc = "listed", !.files = files] \in LoadState
    BY <1>3, <1>s DEF ListFiles, LoadState
  <2>3. loads' \in [Load -> LoadState \cup {NoLoad}]
    BY <1>l, <2>1, <2>2
  <2> QED
    BY <1>3, <2>3 DEF ListFiles
<1>4. CASE LoadShown(l)
  <2>1. loads[l].dir \in Dir /\ loads[l].files \subseteq FileName
    BY <1>4, <1>s DEF LoadShown, LoadState
  <2> QED
    BY <1>4, <2>1 DEF LoadShown
<1>5. CASE LoadFails(l)
  BY <1>5 DEF LoadFails
<1> QED
  BY <1>1, <1>2, <1>3, <1>4, <1>5

\* Work that begins, goes on or ends, in a directory that was shown.
LEMMA WorkKept ==
  ASSUME FilesInv, NEW w \in Work, NEW new, new = NoWork \/ (new \in WorkState /\ new.file[1] \in Dir),
         work' = [work EXCEPT ![w] = new], new # NoWork => path \in Dir,
         choosing' \in {choosing, FALSE},
         UNCHANGED <<path, entries, listed, loading, fsError, loads, lastSeen>>
  PROVE  FilesInv'
<1> USE DEF FilesInv
<1>1. work \in [Work -> WorkState \cup {NoWork}] /\ choosing \in BOOLEAN
  BY DEF FilesTypeOK
<1>2. work' \in [Work -> WorkState \cup {NoWork}] /\ choosing' \in BOOLEAN
  BY <1>1
<1>3. FilesTypeOK' /\ ListIsLastSeen'
  BY <1>2 DEF FilesTypeOK, ListIsLastSeen
<1>4. \A x \in Work : work'[x] = IF x = w THEN new ELSE work[x]
  BY <1>1
<1>5. WorkIsInDir'
  <2>1. listed' \/ choosing' \/ (\E x \in Work : work'[x] # NoWork) => path \in Dir
    <3>1. listed' \/ choosing' => path \in Dir
      BY DEF WorkIsInDir
    <3>2. ASSUME NEW x \in Work, work'[x] # NoWork PROVE path \in Dir
      BY <1>4, <3>2 DEF WorkIsInDir
    <3> QED
      BY <3>1, <3>2
  <2>2. ASSUME NEW x \in Work, work'[x] # NoWork PROVE work'[x].file[1] \in Dir
    BY <1>4, <2>2 DEF WorkIsInDir
  <2> QED
    BY <2>1, <2>2 DEF WorkIsInDir
<1> QED
  BY <1>3, <1>5

LEMMA WorkInv ==
  ASSUME FilesInv, NEW w \in Work,
         \/ \E n \in FileName : \/ Choose(w, n) \/ Drop(w, n) \/ Delete(w, n)
                                \/ \E kind \in {"mkdir", "rename"} : OpenNameModal(w, kind, n)
         \/ Confirm(w) \/ Decline(w) \/ \E ok \in BOOLEAN : WorkAnswered(w, ok)
  PROVE  FilesInv'
<1>w. work[w] \in WorkState \cup {NoWork}
  BY DEF FilesInv, FilesTypeOK
<1>s. work[w].pc # "none" => work[w] \in WorkState /\ work[w] # NoWork
  BY <1>w DEF NoWork
<1>d. /\ listed \/ choosing \/ work[w] # NoWork => path \in Dir
      /\ work[w] # NoWork => work[w].file[1] \in Dir
  BY DEF FilesInv, WorkIsInDir
<1>1. ASSUME NEW n \in FileName,
             \/ Choose(w, n) \/ Drop(w, n) \/ Delete(w, n)
             \/ \E kind \in {"mkdir", "rename"} : OpenNameModal(w, kind, n)
      PROVE  FilesInv'
  <2>1. path \in Dir
    BY <1>1, <1>d DEF Choose, Drop, Delete, OpenNameModal
  <2>2. PICK kind \in {"upload", "delete", "mkdir", "rename"}, pc \in {"asking", "sending"} :
          NewWork(w, kind, pc, <<path, n>>)
    BY <1>1 DEF Choose, Drop, Delete, OpenNameModal, Upload
  <2>3. /\ choosing' \in {choosing, FALSE}
        /\ UNCHANGED <<path, entries, listed, loading, fsError, loads, lastSeen>>
    BY <1>1 DEF Choose, Drop, Delete, OpenNameModal, Upload
  <2> DEFINE new == [kind |-> kind, pc |-> pc, file |-> <<path, n>>]
  <2>4. new \in WorkState /\ new.file[1] \in Dir
    BY <2>1 DEF WorkState, File
  <2>5. work' = [work EXCEPT ![w] = new]
    BY <2>2 DEF NewWork
  <2> HIDE DEF new
  <2> QED
    BY <2>1, <2>3, <2>4, <2>5, WorkKept
<1>2. CASE Confirm(w)
  <2>1. work[w] \in WorkState /\ path \in Dir /\ work[w].file[1] \in Dir
    BY <1>2, <1>s, <1>d DEF Confirm
  <2>2. PICK f \in {work[w].file, <<path, work[w].file[2]>>} :
          work' = [work EXCEPT ![w] = [work[w] EXCEPT !.pc = "sending", !.file = f]]
    BY <1>2, <2>1 DEF Confirm, WorkState
  <2> DEFINE new == [work[w] EXCEPT !.pc = "sending", !.file = f]
  <2>3. f \in File /\ f[1] \in Dir
    BY <2>1 DEF WorkState, File
  <2>4. new \in WorkState /\ new.file[1] \in Dir
    BY <2>1, <2>3 DEF WorkState
  <2>5. work' = [work EXCEPT ![w] = new]
    BY <2>2
  <2> HIDE DEF new
  <2> QED
    BY <1>2, <2>1, <2>4, <2>5, WorkKept DEF Confirm
<1>3. CASE Decline(w)
  BY <1>3, WorkKept DEF Decline
<1>4. ASSUME NEW ok \in BOOLEAN, WorkAnswered(w, ok) PROVE FilesInv'
  <2>1. work[w] \in WorkState /\ path \in Dir /\ work[w].file[1] \in Dir
    BY <1>4, <1>s, <1>d DEF WorkAnswered
  <2>2. PICK new : /\ work' = [work EXCEPT ![w] = new]
                   /\ \/ new = NoWork
                      \/ \E pc \in {"reload", "asking"} : new = [work[w] EXCEPT !.pc = pc]
    <3>1. work \in [Work -> WorkState \cup {NoWork}]
      BY DEF FilesInv, FilesTypeOK
    <3> QED
      BY <1>4, <3>1 DEF WorkAnswered
  <2>3. new = NoWork \/ (new \in WorkState /\ new.file[1] \in Dir)
    BY <2>1, <2>2 DEF WorkState
  <2> QED
    BY <1>4, <2>1, <2>2, <2>3, WorkKept DEF WorkAnswered
<1> QED
  BY <1>1, <1>2, <1>3, <1>4

LEMMA NextFiles == ASSUME FilesInv, [FilesNext]_filesVars PROVE FilesInv'
<1>0. CASE UNCHANGED filesVars
  BY <1>0 DEF filesVars, FilesInv, FilesTypeOK, ListIsLastSeen, WorkIsInDir
<1>1. CASE OpenChooser
  <2>1. listed /\ choosing' = TRUE
        /\ UNCHANGED <<path, entries, listed, loading, fsError, loads, work, lastSeen>>
    BY <1>1 DEF OpenChooser
  <2>2. FilesTypeOK' /\ ListIsLastSeen'
    BY <2>1 DEF FilesInv, FilesTypeOK, ListIsLastSeen
  <2>3. WorkIsInDir'
    BY <2>1 DEF FilesInv, WorkIsInDir
  <2> QED
    BY <2>2, <2>3 DEF FilesInv
<1>2. ASSUME NEW w \in Work, NEW l \in Load, Reload(w, l) PROVE FilesInv'
  <2>1. work \in [Work -> WorkState \cup {NoWork}] /\ loads \in [Load -> LoadState \cup {NoLoad}]
    BY DEF FilesInv, FilesTypeOK
  <2>2. work[w].file[1] \in Dir
    BY <1>2 DEF Reload, FilesInv, WorkIsInDir, NoWork
  <2>3. [pc |-> "connecting", dir |-> work[w].file[1], files |-> {}] \in LoadState
    BY <2>2 DEF LoadState
  <2>4. loads' \in [Load -> LoadState \cup {NoLoad}] /\ work' \in [Work -> WorkState \cup {NoWork}]
    BY <1>2, <2>1, <2>3 DEF Reload, StartLoad
  <2>5. FilesTypeOK' /\ ListIsLastSeen'
    BY <1>2, <2>4 DEF Reload, StartLoad, FilesInv, FilesTypeOK, ListIsLastSeen
  <2>6. \A x \in Work : work'[x] \in {work[x], NoWork}
    BY <1>2, <2>1 DEF Reload
  <2>7. WorkIsInDir'
    BY <1>2, <2>6 DEF Reload, FilesInv, WorkIsInDir
  <2> QED
    BY <2>5, <2>7 DEF FilesInv
<1> QED
  BY <1>0, <1>1, <1>2, LoadInv, WorkInv DEF FilesNext

\* The list on the page is that of its directory when it was last shown, and work is
\* begun in a directory that is shown.
THEOREM FilesSafe == FilesSpec => []FilesInv
<1>1. FilesInit => FilesInv
  BY InitFiles
<1>2. FilesInv /\ [FilesNext]_filesVars => FilesInv'
  BY NextFiles
<1> QED
  BY <1>1, <1>2, PTL DEF FilesSpec

\* Only an upload that was not asked about is new and on its way at once, and its name
\* is none of those shown.
LEMMA NewUpload ==
  ASSUME FilesInv, [FilesNext]_filesVars, NEW w \in Work, listed, work[w] = NoWork,
         work'[w].kind = "upload", work'[w].pc = "sending"
  PROVE  work'[w].file[2] \notin lastSeen[work'[w].file[1]]
<1>t. /\ work \in [Work -> WorkState \cup {NoWork}] /\ path \in Dir
      /\ entries = lastSeen[path] /\ work'[w] # work[w]
  BY DEF FilesInv, FilesTypeOK, ListIsLastSeen, WorkIsInDir, NoWork
<1>1. ASSUME NEW x \in Work, NEW n \in FileName, Upload(x, n)
      PROVE  work'[w].file[2] \notin lastSeen[work'[w].file[1]]
  <2>1. x = w
    BY <1>t, <1>1 DEF Upload, NewWork
  <2>2. work'[w] = [kind |-> "upload", pc |-> IF n \in entries THEN "asking" ELSE "sending",
                    file |-> <<path, n>>]
    BY <1>t, <1>1, <2>1 DEF Upload, NewWork
  <2> QED
    BY <1>t, <2>2
<1>2. ASSUME NEW x \in Work, NEW n \in FileName,
             Delete(x, n) \/ \E kind \in {"mkdir", "rename"} : OpenNameModal(x, kind, n)
      PROVE  FALSE
  <2>1. PICK kind \in {"delete", "mkdir", "rename"} : NewWork(x, kind, "asking", <<path, n>>)
    BY <1>2 DEF Delete, OpenNameModal
  <2>2. x = w
    BY <1>t, <2>1 DEF NewWork
  <2>3. work'[w].kind = kind
    BY <1>t, <2>1, <2>2 DEF NewWork
  <2> QED
    BY <2>1, <2>3
<1>3. ASSUME NEW x \in Work, \/ Confirm(x) \/ Decline(x)
                             \/ \E ok \in BOOLEAN : WorkAnswered(x, ok)
                             \/ \E l \in Load : Reload(x, l)
      PROVE  FALSE
  <2>1. x = w
    BY <1>t, <1>3 DEF Confirm, Decline, WorkAnswered, Reload
  <2>2. work[x].pc = "none"
    BY <2>1 DEF NoWork
  <2>3. work[x].pc \in {"asking", "sending", "reload"}
    BY <1>3 DEF Confirm, Decline, WorkAnswered, Reload
  <2> QED
    BY <2>2, <2>3
<1>4. CASE UNCHANGED work
  BY <1>t, <1>4
<1> QED
  BY <1>1, <1>2, <1>3, <1>4 DEF FilesNext, filesVars, Choose, Drop, Browse, LoadConnected,
    ListFiles, LoadShown, LoadFails, OpenChooser

\* An upload that is not asked about never takes a name that was listed.
THEOREM UploadsAskFirst == FilesSpec => NeverOverwritesListed
<1>1. FilesInv /\ [FilesNext]_filesVars =>
        [\A w \in Work :
           listed /\ work[w] = NoWork /\ work'[w].kind = "upload" /\ work'[w].pc = "sending" =>
             work'[w].file[2] \notin lastSeen[work'[w].file[1]]]_filesVars
  BY NewUpload
<1> QED
  BY <1>1, FilesSafe, PTL DEF FilesSpec, NeverOverwritesListed

-----------------------------------------------------------------------------
(***************************************************************************)
(* HwSync: the spinners of requests under way, and who answers a request.   *)
(***************************************************************************)

\* A call whose spinner was taken down is under way still.
UncoveredAsked == \A r \in uncovered : UnderWay(r)

\* The host is held for a request that is not answered yet; while the last one pressed
\* is pending some request is with the core or its answer on the way.
HostIsHeldFor == checking \in HwCall => request[checking] = "posted"
PendingIsAsked == hwPending => \E r \in HwCall : request[r] \in {"posted", "done", "busy", "failed"}
CheckHoldsHost == finishing => checking # Nobody

Spins == HwTypeOK /\ UncoveredAsked /\ SpinnerWhileAsked
HwSyncInv == Spins /\ HostIsHeldFor /\ PendingIsAsked /\ CheckHoldsHost

LEMMA InitHwSync == ASSUME HwSyncAssumption, HwInit PROVE HwSyncInv
<1>1. events \in Seq({"start", "progress", "done"}) /\ others \in 0 .. MaxOther
  BY DEF HwInit, HwSyncAssumption
<1>2. /\ request \in [HwCall -> {"idle", "connecting", "posted", "done", "busy", "failed"}]
      /\ snapshot \in [Snapshot -> {"none", "asked", "busy", "free"}]
  BY DEF HwInit
<1> QED
  BY <1>1, <1>2 DEF HwInit, HwSyncInv, Spins, HwTypeOK, UncoveredAsked, SpinnerWhileAsked, UnderWay,
    HostIsHeldFor, PendingIsAsked, CheckHoldsHost, HwSyncAssumption

\* What keeps the spinners of all calls under way but one that is answered.
LEMMA StillSpins ==
  ASSUME Spins, uncovered' = uncovered,
         \A r \in HwCall : UnderWay(r) => UnderWay(r)',
         \/ running' /\ hwPending'
         \/ /\ \A r \in HwCall : UnderWay(r)' => UnderWay(r)
            /\ running /\ hwPending => running' /\ hwPending'
  PROVE  UncoveredAsked' /\ SpinnerWhileAsked'
<1>1. uncovered \subseteq HwCall
  BY DEF Spins, HwTypeOK
<1> QED
  BY <1>1 DEF Spins, UncoveredAsked, SpinnerWhileAsked

\* Where the requests stay as they are.
LEMMA NothingAsked ==
  ASSUME Spins, UNCHANGED <<request, uncovered>>,
         running /\ hwPending => running' /\ hwPending'
  PROVE  UncoveredAsked' /\ SpinnerWhileAsked'
BY StillSpins DEF UnderWay

\* Events and snapshots keep their types in the core's steps and in the window's.
LEMMA PublishTypes ==
  ASSUME HwTypeOK, NEW kind \in {"start", "progress", "done"}, PublishHw(kind)
  PROVE  events' \in Seq({"start", "progress", "done"})
BY DEF HwTypeOK, PublishHw

LEMMA AskTypes ==
  ASSUME HwTypeOK, AskSnapshot \/ UNCHANGED snapshot
  PROVE  snapshot' \in [Snapshot -> {"none", "asked", "busy", "free"}]
BY DEF HwTypeOK, AskSnapshot

LEMMA NextSpins ==
  ASSUME HwSyncAssumption, Spins, HostIsHeldFor, [HwNext]_hwSyncVars
  PROVE  Spins'
<1> USE DEF Spins
<1>1. CASE UNCHANGED hwSyncVars
  BY <1>1, NothingAsked DEF hwSyncVars, HwTypeOK
<1>2. ASSUME NEW r \in HwCall, TakeRequest(r) PROVE Spins'
  <2>1. events' \in Seq({"start", "progress", "done"})
    BY <1>2, PublishTypes DEF TakeRequest, HwTypeOK
  <2>2. /\ checking' \in HwCall \cup {Nobody, Other}
        /\ request' \in [HwCall -> {"idle", "connecting", "posted", "done", "busy", "failed"}]
        /\ UNCHANGED <<finishing, others, online, snapshot, hwPending, running, uncovered>>
    BY <1>2 DEF TakeRequest, HwTypeOK
  <2>3. request[r] = "posted" /\ (request' = [request EXCEPT ![r] = "busy"] \/ request' = request)
    BY <1>2 DEF TakeRequest
  <2>4. \A q \in HwCall : UnderWay(q) <=> UnderWay(q)'
    BY <2>3 DEF UnderWay, HwTypeOK
  <2>5. UncoveredAsked' /\ SpinnerWhileAsked'
    BY <2>2, <2>4, StillSpins
  <2> QED
    BY <2>1, <2>2, <2>5 DEF HwTypeOK
<1>3. ASSUME NEW r \in HwCall, StartHardwareCheck(r) \/ Connected(r) \/ NotConnected(r)
      PROVE  Spins'
  <2>1. request' \in [HwCall -> {"idle", "connecting", "posted", "done", "busy", "failed"}]
    BY <1>3 DEF StartHardwareCheck, Connected, NotConnected, HwTypeOK
  <2>2. UNCHANGED <<checking, finishing, others, online, events, snapshot, uncovered>>
    BY <1>3 DEF StartHardwareCheck, Connected, NotConnected
  <2>3. PICK now \in {"idle", "connecting", "posted"} :
          /\ request[r] \in {"idle", "connecting"} /\ request' = [request EXCEPT ![r] = now]
          /\ \/ hwPending' = TRUE /\ running' = TRUE
             \/ now # "posted" /\ UNCHANGED <<hwPending, running>>
    BY <1>3 DEF StartHardwareCheck, Connected, NotConnected
  <2>4. \A q \in HwCall : request'[q] = IF q = r THEN now ELSE request[q]
    BY <2>3 DEF HwTypeOK
  <2>5. /\ \A q \in HwCall : UnderWay(q) => UnderWay(q)'
        /\ now # "posted" => \A q \in HwCall : UnderWay(q)' => UnderWay(q)
    BY <2>3, <2>4 DEF UnderWay
  <2>6. UncoveredAsked' /\ SpinnerWhileAsked'
    BY <2>2, <2>3, <2>5, StillSpins
  <2>7. hwPending' \in BOOLEAN /\ running' \in BOOLEAN
    BY <2>3 DEF HwTypeOK
  <2> QED
    BY <2>1, <2>2, <2>6, <2>7 DEF HwTypeOK
<1>4. ASSUME NEW r \in HwCall, HwAnswered(r) PROVE Spins'
  <2>1. AskSnapshot \/ UNCHANGED snapshot
    BY <1>4 DEF HwAnswered
  <2>2. snapshot' \in [Snapshot -> {"none", "asked", "busy", "free"}]
    BY <2>1, AskTypes
  <2>3. request' \in [HwCall -> {"idle", "connecting", "posted", "done", "busy", "failed"}]
    BY <1>4 DEF HwAnswered, HwTypeOK
  <2>4. /\ hwPending' = FALSE /\ running' = FALSE
        /\ UNCHANGED <<checking, finishing, others, online, events>>
        /\ uncovered' = {q \in HwCall : UnderWay(q)} \ {r}
    BY <1>4 DEF HwAnswered
  <2>5. \A q \in HwCall : request'[q] = IF q = r THEN "idle" ELSE request[q]
    BY <1>4 DEF HwAnswered, HwTypeOK
  <2>6. UncoveredAsked' /\ SpinnerWhileAsked'
    BY <2>4, <2>5 DEF UncoveredAsked, SpinnerWhileAsked, UnderWay
  <2> QED
    BY <2>2, <2>3, <2>4, <2>6 DEF HwTypeOK
<1>5. ASSUME NEW s \in Snapshot, AnswerSnapshot(s) \/ ApplySnapshot(s) PROVE Spins'
  <2>1. snapshot' \in [Snapshot -> {"none", "asked", "busy", "free"}]
    BY <1>5 DEF AnswerSnapshot, ApplySnapshot, HwTypeOK
  <2>2. /\ running' \in {running, snapshot[s] = "busy"} /\ (hwPending => running' = running)
        /\ UNCHANGED <<checking, finishing, others, online, events, request, hwPending, uncovered>>
    BY <1>5 DEF AnswerSnapshot, ApplySnapshot, Synced
  <2>3. running' \in BOOLEAN
    BY <2>2 DEF HwTypeOK
  <2>4. UncoveredAsked' /\ SpinnerWhileAsked'
    BY <2>2, NothingAsked
  <2> QED
    BY <2>1, <2>2, <2>3, <2>4 DEF HwTypeOK
<1>6. CASE StartElsewhere
  <2>1. events' \in Seq({"start", "progress", "done"})
    BY <1>6, PublishTypes DEF StartElsewhere
  <2>2. others' \in 0 .. MaxOther
    BY <1>6 DEF StartElsewhere, HwTypeOK, HwSyncAssumption
  <2>3. UncoveredAsked' /\ SpinnerWhileAsked'
    BY <1>6, NothingAsked DEF StartElsewhere
  <2> QED
    BY <1>6, <2>1, <2>2, <2>3 DEF StartElsewhere, HwTypeOK
<1>7. CASE PublishProgress \/ PublishDone
  <2>1. events' \in Seq({"start", "progress", "done"}) /\ finishing' \in {finishing, TRUE}
    BY <1>7, PublishTypes DEF PublishProgress, PublishDone
  <2>2. UNCHANGED <<checking, others, online, request, snapshot, hwPending, running, uncovered>>
    BY <1>7 DEF PublishProgress, PublishDone
  <2>3. UncoveredAsked' /\ SpinnerWhileAsked'
    BY <2>2, NothingAsked
  <2> QED
    BY <2>1, <2>2, <2>3 DEF HwTypeOK
<1>8. CASE ReleaseHost
  <2>1. request' \in [HwCall -> {"idle", "connecting", "posted", "done", "busy", "failed"}]
    BY <1>8 DEF ReleaseHost, HwTypeOK
  <2>2. PICK answer \in {"done", "failed"} :
          request' = IF checking \in HwCall THEN [request EXCEPT ![checking] = answer] ELSE request
    BY <1>8 DEF ReleaseHost
  <2>3. checking \in HwCall => UnderWay(checking)
    BY DEF HostIsHeldFor, UnderWay
  <2>4. \A q \in HwCall : UnderWay(q) <=> UnderWay(q)'
    BY <2>2, <2>3 DEF UnderWay, HwTypeOK
  <2>5. UncoveredAsked' /\ SpinnerWhileAsked'
    BY <1>8, <2>4, StillSpins DEF ReleaseHost
  <2> QED
    BY <1>8, <2>1, <2>5 DEF ReleaseHost, HwTypeOK
<1>9. CASE OnEvent
  <2>1. Head(events) \in {"start", "progress", "done"} /\ events' \in Seq({"start", "progress", "done"})
    BY <1>9 DEF OnEvent, HwTypeOK
  <2>2. running' \in BOOLEAN /\ (running /\ hwPending => running')
    BY <1>9, <2>1 DEF OnEvent, HwTypeOK
  <2>3. UncoveredAsked' /\ SpinnerWhileAsked'
    BY <1>9, <2>2, NothingAsked DEF OnEvent
  <2> QED
    BY <1>9, <2>1, <2>2, <2>3 DEF OnEvent, HwTypeOK
<1>10. CASE Disconnect \/ Reconnect \/ SettingsSaved
  <2>1. AskSnapshot \/ UNCHANGED snapshot
    BY <1>10 DEF Disconnect, Reconnect, SettingsSaved
  <2>2. snapshot' \in [Snapshot -> {"none", "asked", "busy", "free"}]
    BY <2>1, AskTypes
  <2>3. /\ online' \in {online, TRUE, FALSE} /\ events' \in {events, <<>>}
        /\ UNCHANGED <<checking, finishing, others, request, hwPending, running, uncovered>>
    BY <1>10 DEF Disconnect, Reconnect, SettingsSaved
  <2>4. events' \in Seq({"start", "progress", "done"})
    <3>1. events \in Seq({"start", "progress", "done"}) /\ <<>> \in Seq({"start", "progress", "done"})
      BY DEF HwTypeOK
    <3> QED
      BY <2>3, <3>1
  <2>5. UncoveredAsked' /\ SpinnerWhileAsked'
    BY <2>3, NothingAsked
  <2> QED
    BY <2>2, <2>3, <2>4, <2>5 DEF HwTypeOK
<1> QED
  BY <1>1, <1>2, <1>3, <1>4, <1>5, <1>6, <1>7, <1>8, <1>9, <1>10 DEF HwNext

LEMMA NextAsked ==
  ASSUME HwSyncAssumption, HwTypeOK, HostIsHeldFor, PendingIsAsked, CheckHoldsHost,
         [HwNext]_hwSyncVars
  PROVE  (HostIsHeldFor /\ PendingIsAsked /\ CheckHoldsHost)'
<1> USE DEF HostIsHeldFor, PendingIsAsked, CheckHoldsHost
<1>1. CASE UNCHANGED hwSyncVars
  BY <1>1 DEF hwSyncVars
<1>2. ASSUME NEW r \in HwCall, TakeRequest(r)
      PROVE  (HostIsHeldFor /\ PendingIsAsked /\ CheckHoldsHost)'
  <2>1. CASE checking = Nobody
    BY <1>2, <2>1 DEF TakeRequest, HwSyncAssumption
  <2>2. CASE checking # Nobody
    <3>1. /\ request' = [request EXCEPT ![r] = "busy"] /\ checking # r
          /\ UNCHANGED <<checking, finishing, hwPending>>
      BY <1>2, <2>2 DEF TakeRequest
    <3>2. \A q \in HwCall : request'[q] = IF q = r THEN "busy" ELSE request[q]
      BY <3>1 DEF HwTypeOK
    <3> QED
      BY <3>1, <3>2
  <2> QED
    BY <2>1, <2>2
<1>3. ASSUME NEW r \in HwCall, NEW now \in {"idle", "connecting", "posted"},
             request[r] # "posted", request' = [request EXCEPT ![r] = now],
             \/ now = "posted"
             \/ hwPending' = FALSE
             \/ hwPending' = hwPending /\ request[r] \in {"idle", "connecting"},
             UNCHANGED <<checking, finishing>>
      PROVE  (HostIsHeldFor /\ PendingIsAsked /\ CheckHoldsHost)'
  <2>1. \A q \in HwCall : request'[q] = IF q = r THEN now ELSE request[q]
    BY <1>3 DEF HwTypeOK
  <2> QED
    BY <1>3, <2>1
<1>4. ASSUME NEW r \in HwCall, StartHardwareCheck(r) \/ Connected(r) \/ NotConnected(r)
      PROVE  (HostIsHeldFor /\ PendingIsAsked /\ CheckHoldsHost)'
  BY <1>3, <1>4 DEF StartHardwareCheck, Connected, NotConnected
<1>5. ASSUME NEW r \in HwCall, HwAnswered(r)
      PROVE  (HostIsHeldFor /\ PendingIsAsked /\ CheckHoldsHost)'
  BY <1>3, <1>5 DEF HwAnswered
<1>6. CASE ReleaseHost
  <2>1. PICK answer \in {"done", "failed"} :
          request' = IF checking \in HwCall THEN [request EXCEPT ![checking] = answer] ELSE request
    BY <1>6 DEF ReleaseHost
  <2>2. \A q \in HwCall : request'[q] = IF q = checking THEN answer ELSE request[q]
    BY <2>1 DEF HwTypeOK
  <2>3. checking' = Nobody /\ finishing' = FALSE /\ hwPending' = hwPending
    BY <1>6 DEF ReleaseHost
  <2>4. checking' \notin HwCall
    BY <2>3 DEF HwSyncAssumption
  <2>5. HostIsHeldFor' /\ CheckHoldsHost'
    BY <2>3, <2>4
  <2>6. ASSUME hwPending'
        PROVE  \E r \in HwCall : request'[r] \in {"posted", "done", "busy", "failed"}
    <3>1. PICK r \in HwCall : request[r] \in {"posted", "done", "busy", "failed"}
      BY <2>3, <2>6
    <3>2. request'[r] \in {"posted", "done", "busy", "failed"}
      BY <2>2, <3>1
    <3> QED
      BY <3>2
  <2> QED
    BY <2>5, <2>6
<1>7. CASE StartElsewhere
  BY <1>7 DEF StartElsewhere, HwSyncAssumption
<1>8. CASE PublishProgress \/ PublishDone \/ OnEvent \/ Disconnect \/ Reconnect \/ SettingsSaved
  <2>1. /\ UNCHANGED <<checking, request, hwPending>>
        /\ finishing' = finishing \/ checking # Nobody
    BY <1>8 DEF PublishProgress, PublishDone, OnEvent, Disconnect, Reconnect, SettingsSaved
  <2> QED
    BY <2>1
<1>9. ASSUME NEW s \in Snapshot, AnswerSnapshot(s) \/ ApplySnapshot(s)
      PROVE  (HostIsHeldFor /\ PendingIsAsked /\ CheckHoldsHost)'
  BY <1>9 DEF AnswerSnapshot, ApplySnapshot
<1> QED
  BY <1>1, <1>2, <1>4, <1>5, <1>6, <1>7, <1>8, <1>9 DEF HwNext

LEMMA NextHwSync ==
  ASSUME HwSyncAssumption, HwSyncInv, [HwNext]_hwSyncVars
  PROVE  HwSyncInv'
BY NextSpins, NextAsked DEF HwSyncInv, Spins

\* The types, who the host is held for, and the spinners of requests under way.
THEOREM HwSyncSafe == ASSUME HwSyncAssumption PROVE HwSyncSpec => []HwSyncInv
<1>1. HwInit => HwSyncInv
  BY InitHwSync
<1>2. HwSyncInv /\ [HwNext]_hwSyncVars => HwSyncInv'
  BY NextHwSync
<1> QED
  BY <1>1, <1>2, PTL DEF HwSyncSpec

\* The spinner of every request under way stays, whatever is heard of other checks, unless
\* the answer to another press of the same button took it down.
THEOREM SpinnersStay == ASSUME HwSyncAssumption PROVE HwSyncSpec => []SpinnerWhileAsked
BY HwSyncSafe, PTL DEF HwSyncInv, Spins

\* A hardware check the window waits for is one a request of it is still about, and the
\* host is held for that request until it is answered (runCheck and hwBusy): the spinner
\* never waits for a request that is over, and no other check answers it.
THEOREM RequestsAreTaken ==
  ASSUME HwSyncAssumption
  PROVE  HwSyncSpec => [](HostIsHeldFor /\ PendingIsAsked /\ CheckHoldsHost)
BY HwSyncSafe, PTL DEF HwSyncInv

-----------------------------------------------------------------------------
(***************************************************************************)
(* LiveFeed: every alert of the list is notified once.                     *)
(***************************************************************************)

\* What the core may have published.
Published ==
  [kind: {"status"}, n: 0 .. MaxPolls, last: 0 .. MaxTicks]
  \cup [kind: {"metric"}, n: 1 .. MaxTicks, last: Nat]
  \cup [kind: {"alert"}, n: 1 .. MaxAlerts, last: Nat]
  \cup [kind: {"removed"}, n: Nat, last: Nat]

FeedInv == FeedTypeOK /\ feed \in Seq(Published) /\ NotifiedOnce

Wire == feed \in Seq(Event) /\ feed \in Seq(Published) /\ Len(feed) <= MaxFeed
Ring == points \in Seq(1 .. MaxTicks) /\ Len(points) <= Cap
Lists ==
  /\ listedAlerts \in Seq(1 .. MaxAlerts) /\ waiting \in Seq(1 .. MaxAlerts)
  /\ notified \in Seq(1 .. MaxAlerts) /\ NotifiedOnce
Scalars ==
  /\ polled \in 0 .. MaxPolls /\ tick \in 0 .. MaxTicks /\ raised \in 0 .. MaxAlerts
  /\ answers \subseteq StatusAnswer /\ feedOnline \in BOOLEAN
  /\ shownStatus \in 0 .. MaxPolls /\ buffered \in 0 .. MaxTicks /\ drops \in 0 .. MaxDrops

LEMMA FeedParts == FeedInv <=> Wire /\ Ring /\ Lists /\ Scalars
BY DEF FeedInv, FeedTypeOK, Wire, Ring, Lists, Scalars

\* What is published is known to the window, and one more event only where there is room.
LEMMA PublishWire ==
  ASSUME FeedAssumption, Wire, NEW kind, NEW n, NEW last, PublishFeed(kind, n, last),
         [kind |-> kind, n |-> n, last |-> last] \in Published \cap Event
  PROVE  Wire'
<1> DEFINE e == [kind |-> kind, n |-> n, last |-> last]
<1>1. feed' = IF feedOnline /\ Len(feed) < MaxFeed THEN Append(feed, e) ELSE feed
  BY DEF PublishFeed
<1>2. e \in Published /\ e \in Event
  OBVIOUS
<1> HIDE DEF e
<1>3. Len(feed) \in Nat /\ MaxFeed \in Nat
  BY LenProperties DEF Wire, FeedAssumption
<1>4. Len(Append(feed, e)) = Len(feed) + 1 /\ Append(feed, e) \in Seq(Event)
      /\ Append(feed, e) \in Seq(Published)
  BY <1>2, AppendProperties DEF Wire
<1> QED
  BY <1>1, <1>3, <1>4 DEF Wire

LEMMA ArrivesWire ==
  ASSUME FeedAssumption, Wire, NEW kind, Arrives(kind)
  PROVE  Wire' /\ Head(feed) \in Published /\ Head(feed).kind = kind
<1>1. /\ Head(feed) \in Published /\ Tail(feed) \in Seq(Published)
      /\ Tail(feed) \in Seq(Event) /\ Len(Tail(feed)) = Len(feed) - 1 /\ Len(feed) \in Nat
  BY HeadTailProperties, LenProperties DEF Wire, Arrives
<1>2. Len(feed) <= MaxFeed => Len(Tail(feed)) <= MaxFeed
  BY <1>1 DEF FeedAssumption
<1> QED
  BY <1>1, <1>2 DEF Wire, Arrives

LEMMA SeededRing ==
  ASSUME FeedAssumption, Ring, NEW last \in 0 .. MaxTicks, points' = Seeded(last)
  PROVE  Ring'
<1>a. Cap \in Nat \ {0} /\ MaxTicks \in Nat
  BY DEF FeedAssumption
<1> DEFINE k == IF last > Cap THEN Cap ELSE last
           from0 == IF last > Cap THEN last - Cap ELSE 0
           s == [i \in 1 .. k |-> from0 + i]
<1>1. k \in Nat /\ k <= Cap /\ last - from0 = k /\ from0 \in Nat /\ from0 + k = last
  BY <1>a
<1>2. points' = points \/ points' = s
  BY <1>1 DEF Seeded
<1>3. \A i \in 1 .. k : from0 + i \in 1 .. MaxTicks
  BY <1>1, <1>a
<1> HIDE DEF k, from0
<1>4. s \in [1 .. k -> 1 .. MaxTicks]
  BY <1>3
<1>5. s \in Seq(1 .. MaxTicks)
  BY <1>1, <1>4
<1>6. Len(s) = k
  BY <1>1
<1> HIDE DEF s
<1> QED
  BY <1>1, <1>2, <1>5, <1>6 DEF Ring

LEMMA PushedRing ==
  ASSUME FeedAssumption, Ring, NEW n \in 1 .. MaxTicks, points' = Pushed(n)
  PROVE  Ring'
<1> DEFINE s == IF Len(points) < Cap THEN points ELSE Tail(points)
<1>1. Len(points) \in Nat /\ Cap \in Nat \ {0} /\ points \in Seq(1 .. MaxTicks) /\ Len(points) <= Cap
  BY LenProperties DEF Ring, FeedAssumption
<1>2. s \in Seq(1 .. MaxTicks) /\ Len(s) < Cap /\ Len(s) \in Nat
  <2>1. CASE Len(points) < Cap
    BY <1>1, <2>1
  <2>2. CASE ~(Len(points) < Cap)
    <3>1. points # <<>>
      BY <1>1, <2>2, EmptySeq
    <3> QED
      BY <1>1, <2>2, <3>1, HeadTailProperties
  <2> QED
    BY <2>1, <2>2
<1>3. points' = Append(s, n)
  BY DEF Pushed
<1> HIDE DEF s
<1> QED
  BY <1>1, <1>2, <1>3, AppendProperties DEF Ring

LEMMA InitFeed == ASSUME FeedAssumption, FeedInit PROVE FeedInv
<1>1. Wire
  BY EmptySeq DEF FeedInit, FeedAssumption, Wire
<1>2. Ring
  BY EmptySeq DEF FeedInit, FeedAssumption, Ring
<1>3. Lists
  BY EmptySeq, ConcatEmptySeq DEF FeedInit, Lists, NotifiedOnce
<1>4. Scalars
  <2>1. MaxPolls \in Nat \ {0} /\ MaxTicks \in Nat /\ MaxAlerts \in Nat /\ MaxDrops \in Nat
    BY DEF FeedAssumption
  <2>2. /\ 0 \in 0 .. MaxPolls /\ 1 \in 0 .. MaxPolls /\ 0 \in 0 .. MaxTicks
        /\ 0 \in 0 .. MaxAlerts /\ 0 \in 0 .. MaxDrops
    BY <2>1
  <2> QED
    BY <2>2 DEF FeedInit, Scalars
<1> QED
  BY <1>1, <1>2, <1>3, <1>4, FeedParts

\* The core publishes; the window is not touched.
LEMMA CoreFeed ==
  ASSUME FeedAssumption, FeedInv, Poll \/ StreamTick \/ Raise \/ Unmonitor
  PROVE  FeedInv'
<1> USE FeedParts
<1>a. {MaxPolls, MaxTicks, MaxAlerts} \subseteq Nat
  BY DEF FeedAssumption
<1>w. Ring' /\ Lists'
  BY DEF Poll, StreamTick, Raise, Unmonitor, windowVars, Ring, Lists, NotifiedOnce
<1>1. CASE Poll
  <2>1. polled' \in 0 .. MaxPolls /\ tick \in 0 .. MaxTicks
    BY <1>1, <1>a DEF Poll, Scalars
  <2>2. [kind |-> "status", n |-> polled', last |-> tick] \in Published \cap Event
    BY <1>a, <2>1 DEF Published, Event
  <2>3. Wire'
    BY <1>1, <2>2, PublishWire DEF Poll
  <2>4. Scalars'
    BY <1>1, <2>1 DEF Poll, Scalars, windowVars
  <2> QED
    BY <1>w, <2>3, <2>4 DEF FeedInv, FeedTypeOK, Wire, Ring, Lists, Scalars
<1>2. CASE StreamTick
  <2>1. tick' \in 1 .. MaxTicks
    BY <1>2, <1>a DEF StreamTick, Scalars
  <2>2. [kind |-> "metric", n |-> tick', last |-> tick'] \in Published \cap Event
    BY <1>a, <2>1 DEF Published, Event
  <2>3. Wire'
    BY <1>2, <2>2, PublishWire DEF StreamTick
  <2>4. Scalars'
    BY <1>2, <2>1 DEF StreamTick, Scalars, windowVars
  <2> QED
    BY <1>w, <2>3, <2>4 DEF FeedInv, FeedTypeOK, Wire, Ring, Lists, Scalars
<1>3. CASE Raise
  <2>1. raised' \in 1 .. MaxAlerts
    BY <1>3, <1>a DEF Raise, Scalars
  <2>2. [kind |-> "alert", n |-> raised', last |-> 0] \in Published \cap Event
    BY <1>a, <2>1 DEF Published, Event
  <2>3. Wire'
    BY <1>3, <2>2, PublishWire DEF Raise
  <2>4. Scalars'
    BY <1>3, <2>1 DEF Raise, Scalars, windowVars
  <2> QED
    BY <1>w, <2>3, <2>4 DEF FeedInv, FeedTypeOK, Wire, Ring, Lists, Scalars
<1>4. CASE Unmonitor
  <2>1. [kind |-> "removed", n |-> 0, last |-> 0] \in Published \cap Event
    BY DEF Published, Event
  <2>2. Wire'
    BY <1>4, <2>1, PublishWire DEF Unmonitor
  <2>3. Scalars'
    BY <1>4, <1>a DEF Unmonitor, Scalars, windowVars
  <2> QED
    BY <1>w, <2>2, <2>3 DEF FeedInv, FeedTypeOK, Wire, Ring, Lists, Scalars
<1> QED
  BY <1>1, <1>2, <1>3, <1>4

\* An alert goes to the end of the list and of the batch; a batch that is told goes
\* to the end of what was told.
LEMMA OnAlertLists ==
  ASSUME Lists, NEW n \in 1 .. MaxAlerts,
         listedAlerts' = Append(listedAlerts, n), waiting' = Append(waiting, n),
         notified' = notified
  PROVE  Lists'
<1>1. waiting \in Seq(1 .. MaxAlerts) /\ notified \in Seq(1 .. MaxAlerts)
      /\ listedAlerts \in Seq(1 .. MaxAlerts) /\ <<n>> \in Seq(1 .. MaxAlerts)
  BY DEF Lists
<1>2. Append(waiting, n) = waiting \o <<n>> /\ Append(listedAlerts, n) = listedAlerts \o <<n>>
  BY <1>1, AppendIsConcat
<1>3. notified \o (waiting \o <<n>>) = (notified \o waiting) \o <<n>>
  BY <1>1, ConcatAssociative
<1>4. Append(waiting, n) \in Seq(1 .. MaxAlerts) /\ Append(listedAlerts, n) \in Seq(1 .. MaxAlerts)
  BY <1>1, AppendProperties
<1> QED
  BY <1>1, <1>2, <1>3, <1>4 DEF Lists, NotifiedOnce

LEMMA FlushLists ==
  ASSUME Lists, notified' = notified \o waiting, waiting' = <<>>, listedAlerts' = listedAlerts
  PROVE  Lists'
<1>1. notified \o waiting \in Seq(1 .. MaxAlerts)
  BY ConcatProperties DEF Lists
<1>2. (notified \o waiting) \o <<>> = notified \o waiting /\ <<>> \in Seq(1 .. MaxAlerts)
  BY <1>1, ConcatEmptySeq, EmptySeq
<1> QED
  BY <1>1, <1>2 DEF Lists, NotifiedOnce

LEMMA WindowFeed ==
  ASSUME FeedAssumption, FeedInv,
         OnStatus \/ OnRemoved \/ OnMetric \/ FlushMetrics \/ OnAlert \/ FlushNotifications
  PROVE  FeedInv'
<1>0. Wire /\ Ring /\ Lists /\ Scalars
  BY FeedParts
<1>a. {MaxPolls, MaxTicks, MaxAlerts} \subseteq Nat
  BY DEF FeedAssumption
<1> SUFFICES Wire' /\ Ring' /\ Lists' /\ Scalars'
  BY DEF FeedInv, FeedTypeOK, Wire, Ring, Lists, Scalars
<1>1. CASE OnStatus
  <2>1. Wire' /\ Head(feed).n \in 0 .. MaxPolls /\ Head(feed).last \in 0 .. MaxTicks
    BY <1>0, <1>1, ArrivesWire DEF OnStatus, Published
  <2>2. Ring'
    BY <1>0, <1>1, <2>1, SeededRing DEF OnStatus
  <2> QED
    BY <1>0, <1>1, <2>1, <2>2 DEF OnStatus, Lists, Scalars, NotifiedOnce, coreVars
<1>2. CASE OnRemoved
  <2>1. Wire'
    BY <1>0, <1>2, ArrivesWire DEF OnRemoved
  <2>2. Ring'
    BY <1>2, EmptySeq DEF OnRemoved, Ring, FeedAssumption
  <2> QED
    BY <1>0, <1>2, <1>a, <2>1, <2>2 DEF OnRemoved, Lists, Scalars, NotifiedOnce, coreVars
<1>3. CASE OnMetric
  <2>1. Wire' /\ Head(feed).n \in 1 .. MaxTicks
    BY <1>0, <1>3, ArrivesWire DEF OnMetric, Published
  <2> QED
    BY <1>0, <1>3, <1>a, <2>1 DEF OnMetric, Ring, Lists, Scalars, NotifiedOnce, coreVars
<1>4. CASE FlushMetrics
  <2>1. buffered \in 1 .. MaxTicks
    BY <1>0, <1>4, <1>a DEF FlushMetrics, Scalars
  <2>2. Ring'
    BY <1>0, <1>4, <2>1, PushedRing DEF FlushMetrics
  <2> QED
    BY <1>0, <1>4, <1>a, <2>2 DEF FlushMetrics, Wire, Lists, Scalars, NotifiedOnce, coreVars
<1>5. CASE OnAlert
  <2>1. Wire' /\ Head(feed).n \in 1 .. MaxAlerts
    BY <1>0, <1>5, ArrivesWire DEF OnAlert, Published
  <2>2. Lists'
    BY <1>0, <1>5, <2>1, OnAlertLists DEF OnAlert
  <2> QED
    BY <1>0, <1>5, <2>1, <2>2 DEF OnAlert, Ring, Scalars, coreVars
<1>6. CASE FlushNotifications
  <2>1. Lists'
    BY <1>0, <1>6, FlushLists DEF FlushNotifications
  <2> QED
    BY <1>0, <1>6, <2>1 DEF FlushNotifications, Wire, Ring, Scalars, coreVars
<1> QED
  BY <1>1, <1>2, <1>3, <1>4, <1>5, <1>6

LEMMA SocketFeed ==
  ASSUME FeedAssumption, FeedInv,
         FeedBreaks \/ FeedOpens \/ \E x \in StatusAnswer : StatusLoaded(x)
  PROVE  FeedInv'
<1>0. Wire /\ Ring /\ Lists /\ Scalars
  BY FeedParts
<1> SUFFICES Wire' /\ Ring' /\ Lists' /\ Scalars'
  BY DEF FeedInv, FeedTypeOK, Wire, Ring, Lists, Scalars
<1>1. CASE FeedBreaks
  <2>1. Wire'
    BY <1>1, EmptySeq DEF FeedBreaks, Wire, FeedAssumption
  <2>2. drops' \in 0 .. MaxDrops
    BY <1>0, <1>1 DEF FeedBreaks, Scalars, FeedAssumption
  <2> QED
    BY <1>0, <1>1, <2>1, <2>2 DEF FeedBreaks, Ring, Lists, Scalars, NotifiedOnce, coreVars, windowVars
<1>2. CASE FeedOpens
  <2>1. Present \in StatusAnswer
    BY <1>0 DEF Present, StatusAnswer, Scalars
  <2> QED
    BY <1>0, <1>2, <2>1 DEF FeedOpens, Wire, Ring, Lists, Scalars, NotifiedOnce, coreVars, windowVars
<1>3. ASSUME NEW x \in StatusAnswer, StatusLoaded(x)
      PROVE  Wire' /\ Ring' /\ Lists' /\ Scalars'
  <2>1. x.result \in 0 .. MaxPolls /\ x.last \in 0 .. MaxTicks
    BY DEF StatusAnswer
  <2>2. Ring'
    BY <1>0, <1>3, <2>1, SeededRing DEF StatusLoaded, Ring
  <2> QED
    BY <1>0, <1>3, <2>1, <2>2 DEF StatusLoaded, Wire, Lists, Scalars, NotifiedOnce, coreVars
<1> QED
  BY <1>1, <1>2, <1>3

LEMMA NextFeed == ASSUME FeedAssumption, FeedInv, [FeedNext]_feedVars PROVE FeedInv'
<1>1. CASE UNCHANGED feedVars
  BY <1>1 DEF feedVars, FeedInv, FeedTypeOK, NotifiedOnce
<1> QED
  BY <1>1, CoreFeed, WindowFeed, SocketFeed DEF FeedNext

\* The types, what may be on the wire, and which alerts were told.
THEOREM FeedSafe == ASSUME FeedAssumption PROVE FeedSpec => []FeedInv
<1>1. FeedInit => FeedInv
  BY InitFeed
<1>2. FeedInv /\ [FeedNext]_feedVars => FeedInv'
  BY NextFeed
<1> QED
  BY <1>1, <1>2, PTL DEF FeedSpec

\* Every alert in the list is notified once, in order.
THEOREM AlertsAreToldOnce == ASSUME FeedAssumption PROVE FeedSpec => []NotifiedOnce
BY FeedSafe, PTL DEF FeedInv

-----------------------------------------------------------------------------
(***************************************************************************)
(* AppUpdate: "Restart now" installs the version it is offered for.        *)
(***************************************************************************)

\* Nothing is shown, asked for or fetched before a check found a version.
Counts ==
  /\ updKind \in {"dev", "notify", "install"}
  /\ latest \in 0 .. MaxVersion /\ found \in 0 .. latest
  /\ startup \in BOOLEAN
  /\ asked \in 0 .. MaxAsked /\ checks \in 0 .. MaxChecks
  /\ wants \in 0 .. MaxDownloads /\ downloads \in 0 .. MaxDownloads
  /\ fetching \in 0 .. found /\ onDisk \in 0 .. found /\ installed \in 0 .. found
  /\ banner \in [status: Status, version: 0 .. MaxVersion, dismissed: 0 .. MaxVersion]
  /\ wants > 0 \/ banner.status \in {"available", "downloading", "ready"} => found > 0
  /\ downloads > 0 => fetching > 0

\* What tells the window what is on the disk now.
DiskNews == IF onDisk = None THEN Msg("error", None) ELSE Msg("ready", onDisk)

\* The messages under way: one of progress or of a version follows a check that found
\* one; one of a download that is not on the disk any more is followed by the news of
\* what is.
Messages ==
  /\ toUi \in Seq(Message)
  /\ \A i \in 1 .. Len(toUi) : toUi[i].type \in {"available", "progress", "ready"} => found > 0
  /\ \A i \in 1 .. Len(toUi) : toUi[i].type = "ready" =>
       \/ onDisk # None /\ toUi[i].version = onDisk
       \/ \E j \in i + 1 .. Len(toUi) : toUi[j] = DiskNews

UpdInv == Counts /\ Messages /\ RestartInstallsIt

LEMMA InitUpd == ASSUME UpdAssumption, UpdInit PROVE UpdInv
<1>1. toUi \in Seq(Message) /\ Len(toUi) = 0
  BY EmptySeq DEF UpdInit
<1>2. 0 \in 0 .. MaxVersion /\ 0 \in 0 .. MaxAsked /\ 0 \in 0 .. MaxChecks /\ 0 \in 0 .. MaxDownloads
  BY DEF UpdAssumption
<1>3. Counts
  BY <1>2 DEF UpdInit, Counts, Status, None
<1> QED
  BY <1>1, <1>3 DEF UpdInit, UpdInv, Messages, RestartInstallsIt, None

\* Messages that are no news of a download go to the end; nothing else that the
\* messages are about changes.
LEMMA Extended ==
  ASSUME UpdInv, toUi' \in Seq(Message), Len(toUi') >= Len(toUi), UNCHANGED <<onDisk, banner>>,
         \A i \in 1 .. Len(toUi) : toUi'[i] = toUi[i],
         \A i \in Len(toUi) + 1 .. Len(toUi') :
           /\ toUi'[i].type # "ready"
           /\ toUi'[i].type \in {"available", "progress"} => found' > 0,
         found > 0 => found' > 0
  PROVE  Messages' /\ RestartInstallsIt'
<1> USE DEF UpdInv
<1>0. DiskNews' = DiskNews
  BY DEF DiskNews, Msg, None
<1>1. Len(toUi) \in Nat /\ Len(toUi') \in Nat
  BY LenProperties DEF Messages
<1>2. \A i \in 1 .. Len(toUi') : i \in 1 .. Len(toUi) \/ i \in Len(toUi) + 1 .. Len(toUi')
  BY <1>1
<1>3. \A i \in 1 .. Len(toUi') : toUi'[i].type \in {"available", "progress", "ready"} => found' > 0
  BY <1>2 DEF Messages
<1>4. ASSUME NEW i \in 1 .. Len(toUi'), toUi'[i].type = "ready"
      PROVE  \/ onDisk' # None /\ toUi'[i].version = onDisk'
             \/ \E j \in i + 1 .. Len(toUi') : toUi'[j] = DiskNews'
  <2>1. i \in 1 .. Len(toUi) /\ toUi[i].type = "ready"
    BY <1>2, <1>4
  <2>3. CASE onDisk # None /\ toUi[i].version = onDisk
    BY <2>1, <2>3 DEF None
  <2>4. CASE \E j \in i + 1 .. Len(toUi) : toUi[j] = DiskNews
    <3>1. PICK j \in i + 1 .. Len(toUi) : toUi[j] = DiskNews
      BY <2>4
    <3>2. j \in 1 .. Len(toUi) /\ j \in i + 1 .. Len(toUi') /\ toUi'[j] = toUi[j]
      BY <1>1, <2>1, <3>1
    <3> QED
      BY <1>0, <3>1, <3>2
  <2> QED
    BY <2>1, <2>3, <2>4 DEF Messages
<1>5. RestartInstallsIt'
  <2> SUFFICES ASSUME banner.status = "ready"
               PROVE  \/ onDisk # None /\ banner.version = onDisk
                      \/ \E i \in 1 .. Len(toUi') : toUi'[i] = DiskNews
    BY <1>0 DEF RestartInstallsIt, DiskNews, None
  <2>1. CASE \E i \in 1 .. Len(toUi) : toUi[i] = DiskNews
    BY <1>1, <2>1
  <2>2. CASE onDisk # None /\ banner.version = onDisk
    BY <2>2
  <2> QED
    BY <2>1, <2>2 DEF RestartInstallsIt, DiskNews
<1> QED
  BY <1>3, <1>4, <1>5 DEF Messages

LEMMA OneMore ==
  ASSUME UpdInv, NEW m \in Message, toUi' = Append(toUi, m), UNCHANGED <<onDisk, banner>>,
         m.type # "ready", m.type \in {"available", "progress"} => found' > 0,
         found > 0 => found' > 0
  PROVE  Messages' /\ RestartInstallsIt'
<1>1. /\ Len(toUi) \in Nat /\ toUi' \in Seq(Message) /\ Len(toUi') = Len(toUi) + 1
      /\ \A i \in 1 .. Len(toUi) : toUi'[i] = toUi[i]
      /\ toUi'[Len(toUi) + 1] = m
  BY LenProperties, AppendProperties DEF UpdInv, Messages
<1>2. \A i \in Len(toUi) + 1 .. Len(toUi') : toUi'[i] = m
  BY <1>1
<1> QED
  BY <1>1, <1>2, Extended

\* Copies of a message are as many.
LEMMA CopiesFacts ==
  ASSUME NEW m \in Message, NEW n \in Nat
  PROVE  Copies(m, n) \in Seq(Message) /\ Len(Copies(m, n)) = n
<1> DEFINE s == Copies(m, n)
<1>1. s = [i \in 1 .. n |-> m]
  BY DEF Copies
<1> HIDE DEF s
<1>2. s \in [1 .. n -> Message] /\ DOMAIN s = 1 .. n
  BY <1>1
<1>3. s \in Seq(Message)
  BY <1>2, SeqDef
<1>4. DOMAIN s = 1 .. Len(s) /\ Len(s) \in Nat
  BY <1>3, LenProperties
<1>5. Len(s) = n
  BY <1>2, <1>4
<1> QED
  BY <1>3, <1>5 DEF s

LEMMA MoreErrors ==
  ASSUME UpdInv, NEW n \in Nat, toUi' = toUi \o Copies(Msg("error", None), n),
         UNCHANGED <<onDisk, banner, found>>, None \in 0 .. MaxVersion
  PROVE  Messages' /\ RestartInstallsIt'
<1> DEFINE s == Copies(Msg("error", None), n)
<1>1. Msg("error", None) \in Message /\ Msg("error", None).type = "error"
  BY DEF Msg, Message
<1>2. s = [i \in 1 .. n |-> Msg("error", None)]
  BY DEF Copies
<1> HIDE DEF s
<1>3. s \in Seq(Message) /\ Len(s) = n
  BY <1>1, CopiesFacts DEF s
<1>4. toUi \in Seq(Message) /\ Len(toUi) \in Nat /\ n \in Nat
  BY LenProperties DEF UpdInv, Messages
<1>5. /\ toUi \o s \in Seq(Message) /\ Len(toUi \o s) = Len(toUi) + n
      /\ \A i \in 1 .. Len(toUi) + n : (toUi \o s)[i] = IF i <= Len(toUi) THEN toUi[i] ELSE s[i - Len(toUi)]
  BY <1>3, <1>4, ConcatProperties
<1>6. toUi' = toUi \o s
  BY DEF s
<1>7. \A i \in Len(toUi) + 1 .. Len(toUi') : toUi'[i].type = "error"
  <2> SUFFICES ASSUME NEW i \in Len(toUi) + 1 .. Len(toUi') PROVE toUi'[i].type = "error"
    OBVIOUS
  <2>1. i - Len(toUi) \in 1 .. n /\ toUi'[i] = s[i - Len(toUi)]
    BY <1>4, <1>5, <1>6
  <2> QED
    BY <1>1, <1>2, <2>1
<1>8. \A i \in 1 .. Len(toUi) : toUi'[i] = toUi[i]
  BY <1>4, <1>5, <1>6
<1>9. toUi' \in Seq(Message) /\ Len(toUi') >= Len(toUi)
  <2>1. Len(toUi') = Len(toUi) + n
    BY <1>5, <1>6
  <2>2. Len(toUi') >= Len(toUi)
    BY <1>4, <2>1
  <2>3. toUi' \in Seq(Message)
    BY <1>5, <1>6, Zenon
  <2> QED
    BY <2>2, <2>3
<1>10. \A i \in Len(toUi) + 1 .. Len(toUi') :
         /\ toUi'[i].type # "ready"
         /\ toUi'[i].type \in {"available", "progress"} => found' > 0
  BY <1>7
<1>11. found > 0 => found' > 0
  OBVIOUS
<1>12. UNCHANGED <<onDisk, banner>>
  OBVIOUS
<1> HIDE DEF s
<1> QED
  BY <1>8, <1>9, <1>10, <1>11, <1>12, Extended

\* Nothing happens that the messages are about.
LEMMA SameMessages ==
  ASSUME UpdInv, UNCHANGED <<toUi, onDisk, found>>,
         banner'.status = "ready" => banner.status = "ready" /\ banner'.version = banner.version
  PROVE  Messages' /\ RestartInstallsIt'
BY DEF UpdInv, Messages, RestartInstallsIt, DiskNews, Msg, None

-----------------------------------------------------------------------------

LEMMA CheckInv ==
  ASSUME UpdAssumption, UpdInv,
         NewRelease \/ StartupCheck \/ HandleCheck \/ CheckAnswered \/ CheckFailed
  PROVE  UpdInv'
<1> USE DEF UpdInv
<1>a. MaxVersion \in Nat /\ MaxAsked \in Nat /\ MaxChecks \in Nat /\ None = 0
  BY DEF UpdAssumption, None
<1>n. /\ latest \in Nat /\ found \in Nat /\ asked \in Nat /\ checks \in Nat
      /\ fetching \in Nat /\ onDisk \in Nat /\ installed \in Nat /\ found <= latest
  BY <1>a DEF Counts
<1>1. CASE NewRelease
  <2>1. Counts'
    BY <1>1, <1>a, <1>n DEF NewRelease, Counts
  <2> QED
    BY <1>1, <2>1, SameMessages DEF NewRelease
<1>2. CASE StartupCheck \/ HandleCheck
  <2>1. /\ startup' \in BOOLEAN /\ asked' \in 0 .. MaxAsked /\ checks' \in 0 .. MaxChecks
        /\ UNCHANGED <<updKind, latest, found, wants, downloads, fetching, onDisk, banner, installed>>
    <3>1. CASE StartupCheck
      <4>1. checks' \in {checks, checks + 1} /\ (checks' = checks + 1 => checks < MaxChecks)
        BY <3>1 DEF StartupCheck, EnterCheck
      <4> QED
        <5>1. /\ startup' = FALSE
              /\ UNCHANGED <<asked, updKind, latest, found, wants, downloads, fetching, onDisk, banner,
                            installed>>
          BY <3>1 DEF StartupCheck, EnterCheck
        <5>2. asked \in 0 .. MaxAsked /\ checks \in 0 .. MaxChecks
          BY DEF Counts
        <5>3. checks' \in 0 .. MaxChecks
          BY <1>a, <4>1, <5>2
        <5> QED
          BY <5>1, <5>2, <5>3
    <3>2. CASE HandleCheck
      <4>1. checks' \in {checks, checks + 1} /\ (checks' = checks + 1 => checks < MaxChecks)
        BY <3>2 DEF HandleCheck, EnterCheck
      <4>2. asked' \in 0 .. MaxAsked
        BY <3>2, <1>a, <1>n DEF HandleCheck, Counts
      <4> QED
        BY <3>2, <4>1, <4>2, <1>a, <1>n DEF HandleCheck, EnterCheck, Counts
    <3> QED
      BY <1>2, <3>1, <3>2
  <2>2. toUi' = toUi \/ toUi' = Append(toUi, Msg("none", None))
    BY <1>2 DEF StartupCheck, HandleCheck, EnterCheck
  <2>3. Msg("none", None) \in Message /\ Msg("none", None).type = "none"
    BY <1>a DEF Msg, Message
  <2>4. Messages' /\ RestartInstallsIt'
    BY <2>1, <2>2, <2>3, SameMessages, OneMore
  <2> QED
    BY <2>1, <2>4 DEF Counts
<1>3. CASE CheckAnswered
  <2>1. /\ found' \in {found, latest} /\ found' >= found /\ checks' \in 0 .. MaxChecks
        /\ UNCHANGED <<updKind, latest, startup, asked, wants, downloads, fetching, onDisk, banner, installed>>
    BY <1>3, <1>a, <1>n DEF CheckAnswered, Counts
  <2>2. Counts'
    BY <1>n, <2>1 DEF Counts
  <2>3. PICK m \in Message : /\ toUi' = Append(toUi, m) /\ m.type \in {"available", "none"}
                             /\ m.type = "available" => found' > 0
    BY <1>3, <1>a, <1>n DEF CheckAnswered, Msg, Message, Counts
  <2> QED
    BY <1>n, <2>1, <2>2, <2>3, OneMore
<1>4. CASE CheckFailed
  <2>1. /\ checks' \in 0 .. MaxChecks
        /\ UNCHANGED <<updKind, latest, startup, asked, found, wants, downloads, fetching, onDisk, banner,
                       installed>>
    BY <1>4, <1>a, <1>n DEF CheckFailed, Counts
  <2>2. Messages' /\ RestartInstallsIt'
    <3> DEFINE n == IF updKind = "install" THEN 1 + checks ELSE 1
    <3>1. n \in Nat /\ None \in 0 .. MaxVersion
      BY <1>a, <1>n
    <3>2. toUi' = toUi \o Copies(Msg("error", None), n)
      BY <1>4 DEF CheckFailed
    <3>3. UNCHANGED <<onDisk, banner, found>>
      BY <2>1
    <3> HIDE DEF n
    <3> QED
      BY <3>1, <3>2, <3>3, MoreErrors
  <2> QED
    BY <2>1, <2>2 DEF Counts
<1> QED
  BY <1>1, <1>2, <1>3, <1>4

\* What was downloaded replaces what was on the disk, and its message is the last.
LEMMA DownloadedMessages ==
  ASSUME UpdInv, Downloaded, fetching > 0, fetching \in 0 .. MaxVersion
  PROVE  Messages' /\ RestartInstallsIt'
<1> USE DEF UpdInv
<1> DEFINE m == Msg("ready", fetching)
<1>1. m \in Message /\ m.type = "ready" /\ m.version = fetching
  BY DEF Msg, Message
<1>2. /\ toUi' = Append(toUi, m) /\ onDisk' = fetching /\ UNCHANGED <<found, banner>>
  BY DEF Downloaded
<1>3. m = DiskNews'
  BY <1>2 DEF Msg, DiskNews, None
<1> HIDE DEF m
<1>4. /\ toUi \in Seq(Message) /\ Len(toUi) \in Nat
      /\ toUi' \in Seq(Message) /\ Len(toUi') = Len(toUi) + 1
      /\ \A i \in 1 .. Len(toUi) : toUi'[i] = toUi[i]
      /\ toUi'[Len(toUi) + 1] = m
  BY <1>1, <1>2, LenProperties, AppendProperties DEF Messages
<1>5. \A i \in 1 .. Len(toUi') : i \in 1 .. Len(toUi) \/ i = Len(toUi) + 1
  BY <1>4
<1>6. found > 0
  BY DEF Downloaded, Counts
<1>7. \A i \in 1 .. Len(toUi') : toUi'[i].type = "ready" =>
        \/ onDisk' # None /\ toUi'[i].version = onDisk'
        \/ \E j \in i + 1 .. Len(toUi') : toUi'[j] = DiskNews'
  <2> SUFFICES ASSUME NEW i \in 1 .. Len(toUi'), toUi'[i].type = "ready"
               PROVE  \/ onDisk' # None /\ toUi'[i].version = onDisk'
                      \/ \E j \in i + 1 .. Len(toUi') : toUi'[j] = DiskNews'
    OBVIOUS
  <2>1. CASE i = Len(toUi) + 1
    BY <1>1, <1>2, <1>4, <2>1 DEF None
  <2>2. CASE i \in 1 .. Len(toUi)
    <3>1. Len(toUi) + 1 \in i + 1 .. Len(toUi')
      BY <1>4, <2>2
    <3> QED
      BY <1>3, <1>4, <3>1
  <2> QED
    BY <1>5, <2>1, <2>2
<1>8. \E i \in 1 .. Len(toUi') : toUi'[i] = DiskNews'
  BY <1>3, <1>4
<1>9. Messages'
  BY <1>2, <1>4, <1>6, <1>7 DEF Messages
<1>10. RestartInstallsIt'
  BY <1>8 DEF RestartInstallsIt, DiskNews
<1> QED
  BY <1>9, <1>10

\* A download that failed: when its file is gone the last message tells it.
LEMMA FailedMessages ==
  ASSUME UpdAssumption, UpdInv, DownloadFailed, downloads \in Nat, None \in 0 .. MaxVersion
  PROVE  Messages' /\ RestartInstallsIt'
<1> USE DEF UpdInv
<1> DEFINE e == Msg("error", None)
           n == 1 + downloads
           s == Copies(e, n)
<1>1. n \in Nat /\ n > 0 /\ toUi' = toUi \o s
      /\ onDisk' \in {onDisk, None} /\ UNCHANGED <<found, banner>>
  BY DEF DownloadFailed
<1>2. e \in Message /\ e.type = "error"
  BY DEF Msg, Message
<1>3. s = [i \in 1 .. n |-> e]
  BY DEF Copies
<1> HIDE DEF n, s
<1>4. s \in Seq(Message) /\ Len(s) = n
  BY <1>1, <1>2, CopiesFacts DEF s
<1>5. toUi \in Seq(Message) /\ Len(toUi) \in Nat
  BY LenProperties DEF Messages
<1>6. /\ toUi \o s \in Seq(Message) /\ Len(toUi \o s) = Len(toUi) + n
      /\ \A i \in 1 .. Len(toUi) + n : (toUi \o s)[i] = IF i <= Len(toUi) THEN toUi[i] ELSE s[i - Len(toUi)]
  BY <1>4, <1>5, ConcatProperties
<1>7. toUi' \in Seq(Message) /\ Len(toUi') = Len(toUi) + n /\ Len(toUi') \in Nat
  <2>1. toUi' \in Seq(Message) /\ Len(toUi') = Len(toUi) + n
    BY <1>1, <1>6, Zenon
  <2> QED
    BY <1>1, <1>5, <2>1
<1>8. \A i \in 1 .. Len(toUi) : toUi'[i] = toUi[i]
  BY <1>1, <1>5, <1>6
<1>9. \A i \in Len(toUi) + 1 .. Len(toUi') : toUi'[i] = e
  <2> SUFFICES ASSUME NEW i \in Len(toUi) + 1 .. Len(toUi') PROVE toUi'[i] = e
    OBVIOUS
  <2>1. i - Len(toUi) \in 1 .. n /\ toUi'[i] = s[i - Len(toUi)]
    BY <1>1, <1>5, <1>6, <1>7
  <2> QED
    BY <1>3, <2>1
<1> HIDE DEF e
<1>10. CASE onDisk' = onDisk
  <2>1. \A i \in Len(toUi) + 1 .. Len(toUi') :
          /\ toUi'[i].type # "ready"
          /\ toUi'[i].type \in {"available", "progress"} => found' > 0
    BY <1>2, <1>9
  <2>2. Len(toUi') >= Len(toUi)
    BY <1>1, <1>5, <1>7
  <2> QED
    BY <1>1, <1>7, <1>8, <1>10, <2>1, <2>2, Extended
<1>11. CASE onDisk' = None
  <2>1. DiskNews' = e
    BY <1>11 DEF DiskNews, e, Msg, None
  <2>2. Len(toUi') \in Len(toUi) + 1 .. Len(toUi') /\ toUi'[Len(toUi')] = e
    BY <1>1, <1>5, <1>7, <1>9
  <2>3. \A i \in 1 .. Len(toUi') : i \in 1 .. Len(toUi) \/ i \in Len(toUi) + 1 .. Len(toUi')
    BY <1>5, <1>7
  <2>4. \A i \in 1 .. Len(toUi') : toUi'[i].type \in {"available", "progress", "ready"} => found' > 0
    BY <1>1, <1>2, <1>8, <1>9, <2>3 DEF Messages
  <2>5. \A i \in 1 .. Len(toUi') : toUi'[i].type = "ready" =>
          \E j \in i + 1 .. Len(toUi') : toUi'[j] = DiskNews'
    <3> SUFFICES ASSUME NEW i \in 1 .. Len(toUi'), toUi'[i].type = "ready"
                 PROVE  \E j \in i + 1 .. Len(toUi') : toUi'[j] = DiskNews'
      OBVIOUS
    <3>1. i \in 1 .. Len(toUi)
      BY <1>2, <1>9, <2>3
    <3>2. Len(toUi') \in i + 1 .. Len(toUi')
      BY <1>1, <1>5, <1>7, <3>1
    <3> QED
      BY <2>1, <2>2, <3>2
  <2>6. Messages'
    BY <1>7, <2>4, <2>5 DEF Messages
  <2>7. \E i \in 1 .. Len(toUi') : toUi'[i] = DiskNews'
    BY <1>5, <1>7, <2>1, <2>2
  <2> QED
    BY <2>6, <2>7 DEF RestartInstallsIt, DiskNews
<1> QED
  BY <1>1, <1>10, <1>11

LEMMA DownloadInv ==
  ASSUME UpdAssumption, UpdInv, HandleDownload \/ DownloadProgress \/ Downloaded \/ DownloadFailed
  PROVE  UpdInv'
<1> USE DEF UpdInv
<1>a. MaxVersion \in Nat /\ MaxDownloads \in Nat /\ None = 0
  BY DEF UpdAssumption, None
<1>n. /\ latest \in 0 .. MaxVersion /\ found \in 0 .. latest /\ wants \in 0 .. MaxDownloads
      /\ downloads \in 0 .. MaxDownloads /\ fetching \in 0 .. found
  BY <1>a DEF Counts
<1>1. CASE HandleDownload
  <2>1. /\ wants' \in 0 .. MaxDownloads /\ downloads' \in 0 .. MaxDownloads /\ fetching' \in 0 .. found
        /\ fetching' > 0 /\ found > 0
    BY <1>1, <1>a, <1>n DEF HandleDownload, Counts
  <2>2. UNCHANGED <<updKind, latest, startup, asked, checks, found, onDisk, toUi, banner, installed>>
    BY <1>1 DEF HandleDownload
  <2>3. Counts'
    BY <2>1, <2>2 DEF Counts
  <2> QED
    BY <2>2, <2>3, SameMessages
<1>2. CASE DownloadProgress
  <2>1. UNCHANGED <<updKind, latest, startup, asked, checks, found, wants, downloads, fetching, onDisk,
                    banner, installed>>
    BY <1>2 DEF DownloadProgress
  <2>2. found > 0
    BY <1>2, <1>a, <1>n DEF DownloadProgress, Counts
  <2>3. toUi' = Append(toUi, Msg("progress", None)) /\ Msg("progress", None) \in Message
        /\ Msg("progress", None).type = "progress"
    BY <1>2, <1>a DEF DownloadProgress, Msg, Message
  <2>4. Messages' /\ RestartInstallsIt'
    BY <2>1, <2>2, <2>3, OneMore
  <2> QED
    BY <2>1, <2>4 DEF Counts
<1>3. CASE Downloaded
  <2>1. /\ fetching > 0 /\ fetching \in 0 .. MaxVersion /\ downloads' = 0 /\ fetching' = 0
        /\ onDisk' = fetching
        /\ UNCHANGED <<updKind, latest, startup, asked, checks, found, wants, banner, installed>>
    BY <1>3, <1>a, <1>n DEF Downloaded, Counts
  <2>2. Counts'
    BY <1>a, <1>n, <2>1 DEF Counts
  <2> QED
    BY <1>3, <2>1, <2>2, DownloadedMessages
<1>4. CASE DownloadFailed
  <2>1. /\ downloads' = 0 /\ fetching' = 0 /\ onDisk' \in {onDisk, 0}
        /\ UNCHANGED <<updKind, latest, startup, asked, checks, found, wants, banner, installed>>
    BY <1>4, <1>a DEF DownloadFailed
  <2>2. Counts'
    BY <1>a, <1>n, <2>1 DEF Counts
  <2>3. downloads \in Nat /\ None \in 0 .. MaxVersion
    BY <1>a, <1>n
  <2> QED
    BY <1>4, <2>2, <2>3, FailedMessages
<1> QED
  BY <1>1, <1>2, <1>3, <1>4

-----------------------------------------------------------------------------
\* What the window's actions do to the banner keeps its type.
Banner == [status: Status, version: 0 .. MaxVersion, dismissed: 0 .. MaxVersion]

LEMMA BannerShown ==
  ASSUME NEW b \in Banner, NEW s \in Status, NEW v \in 0 .. MaxVersion
  PROVE  /\ [b EXCEPT !.status = s] \in Banner
         /\ [b EXCEPT !.status = s].status = s
         /\ [b EXCEPT !.status = s].version = b.version
         /\ [b EXCEPT !.status = s, !.version = v] \in Banner
         /\ [b EXCEPT !.status = s, !.version = v].status = s
         /\ [b EXCEPT !.status = s, !.version = v].version = v
         /\ [b EXCEPT !.status = s, !.dismissed = v] \in Banner
         /\ [b EXCEPT !.status = s, !.dismissed = v].status = s
BY DEF Banner

\* The window reads a message: of those after it nothing changes.
LEMMA OnMessageInv ==
  ASSUME UpdAssumption, UpdInv, OnMessage
  PROVE  UpdInv'
<1> USE DEF UpdInv
<1> DEFINE m == Head(toUi)
<1>1. /\ toUi \in Seq(Message) /\ Len(toUi) \in Nat /\ Len(toUi) > 0 /\ m = toUi[1]
      /\ m \in Message /\ toUi' \in Seq(Message) /\ Len(toUi') = Len(toUi) - 1
      /\ \A i \in 1 .. Len(toUi') : toUi'[i] = toUi[i + 1]
  BY LenProperties, EmptySeq, HeadTailProperties DEF OnMessage, Messages
<1>2. UNCHANGED <<updKind, latest, startup, asked, checks, found, wants, downloads, fetching, onDisk,
                  installed>>
  BY DEF OnMessage
<1>d. DiskNews' = DiskNews
  BY <1>2 DEF DiskNews, Msg, None
<1>m. m.type \in {"available", "none", "progress", "ready", "error"} /\ m.version \in 0 .. MaxVersion
  BY <1>1 DEF Message
<1>b. banner \in [status: Status, version: 0 .. MaxVersion, dismissed: 0 .. MaxVersion]
      /\ None \in 0 .. MaxVersion
  BY DEF Counts, UpdAssumption, None
<1>3. \/ m.type = "available" /\ OnAvailable(m.version)
      \/ m.type = "none" /\ banner' = [banner EXCEPT !.status = "idle"]
      \/ m.type = "progress" /\ banner' = [banner EXCEPT !.status = "downloading"]
      \/ m.type = "ready" /\ OnReady(m.version)
      \/ m.type = "error" /\ OnError
  BY DEF OnMessage
<1>4. m.type \in {"available", "progress", "ready"} => found > 0
  BY <1>1 DEF Messages
<1> HIDE DEF m
<1>5. /\ banner' \in Banner
      /\ banner'.status \in {"available", "downloading", "ready"} => found > 0
      /\ banner'.status = "ready" => m.type = "ready" /\ banner'.version = m.version
  <2>1. CASE m.type = "available" /\ OnAvailable(m.version)
    <3>1. [status |-> "available", version |-> m.version, dismissed |-> None] \in Banner
      BY <1>m, <1>b DEF Banner, Status
    <3>2. CASE banner' = [status |-> "available", version |-> m.version, dismissed |-> None]
      BY <1>4, <2>1, <3>1, <3>2
    <3>3. CASE banner' = [banner EXCEPT !.status = "idle"]
      BY <1>b, <3>3, BannerShown DEF Banner, Status
    <3> QED
      BY <2>1, <3>2, <3>3 DEF OnAvailable
  <2>2. CASE m.type = "none" /\ banner' = [banner EXCEPT !.status = "idle"]
    BY <1>b, <2>2 DEF Banner, Status
  <2>3. CASE m.type = "progress" /\ banner' = [banner EXCEPT !.status = "downloading"]
    BY <1>b, <1>4, <2>3 DEF Banner, Status
  <2>4. CASE m.type = "ready" /\ OnReady(m.version)
    BY <1>b, <1>m, <1>4, <2>4 DEF Banner, Status, OnReady
  <2>5. CASE m.type = "error" /\ OnError
    <3>1. CASE banner.status = "downloading"
      <4>1. banner' = [banner EXCEPT !.status = "available"] /\ found > 0
        BY <2>5, <3>1 DEF OnError, Counts
      <4> QED
        BY <1>b, <4>1 DEF Banner, Status
    <3>2. CASE banner.status # "downloading"
      <4>1. banner' = [banner EXCEPT !.status = "idle"]
        BY <2>5, <3>2 DEF OnError
      <4> QED
        BY <1>b, <4>1 DEF Banner, Status
    <3> QED
      BY <3>1, <3>2
  <2> QED
    BY <1>3, <2>1, <2>2, <2>3, <2>4, <2>5
<1>7. Counts'
  BY <1>2, <1>5 DEF Counts, Banner
<1>8. \A i \in 1 .. Len(toUi') : i + 1 \in 1 .. Len(toUi)
  BY <1>1
<1>9. Messages'
  <2>1. \A i \in 1 .. Len(toUi') : toUi'[i].type \in {"available", "progress", "ready"} => found' > 0
    BY <1>1, <1>2, <1>8 DEF Messages
  <2>2. ASSUME NEW i \in 1 .. Len(toUi'), toUi'[i].type = "ready"
        PROVE  \/ onDisk' # None /\ toUi'[i].version = onDisk'
               \/ \E j \in i + 1 .. Len(toUi') : toUi'[j] = DiskNews'
    <3>1. i + 1 \in 1 .. Len(toUi) /\ toUi[i + 1].type = "ready" /\ toUi'[i] = toUi[i + 1]
      BY <1>1, <1>8, <2>2
    <3>2. \/ onDisk # None /\ toUi[i + 1].version = onDisk
          \/ \E j \in i + 1 + 1 .. Len(toUi) : toUi[j] = DiskNews
      BY <3>1 DEF Messages
    <3>3. ASSUME NEW j \in i + 1 + 1 .. Len(toUi), toUi[j] = DiskNews
          PROVE  \E k \in i + 1 .. Len(toUi') : toUi'[k] = DiskNews'
      <4>1. j - 1 \in i + 1 .. Len(toUi') /\ j - 1 \in 1 .. Len(toUi') /\ (j - 1) + 1 = j
        BY <1>1
      <4>2. toUi'[j - 1] = DiskNews'
        BY <1>1, <1>d, <3>3, <4>1
      <4> QED
        BY <4>1, <4>2
    <3> QED
      BY <1>2, <3>1, <3>2, <3>3 DEF None
  <2> QED
    BY <1>1, <2>1, <2>2 DEF Messages
<1>10. RestartInstallsIt'
  <2> SUFFICES ASSUME banner'.status = "ready"
               PROVE  \/ onDisk # None /\ banner'.version = onDisk
                      \/ \E i \in 1 .. Len(toUi') : toUi'[i] = DiskNews
    BY <1>2, <1>d DEF RestartInstallsIt, DiskNews, None
  <2>1. m.type = "ready" /\ banner'.version = m.version
    BY <1>5
  <2>2. \/ onDisk # None /\ m.version = onDisk
        \/ \E j \in 1 + 1 .. Len(toUi) : toUi[j] = DiskNews
    BY <1>1, <2>1 DEF Messages
  <2>3. ASSUME NEW j \in 1 + 1 .. Len(toUi), toUi[j] = DiskNews
        PROVE  \E i \in 1 .. Len(toUi') : toUi'[i] = DiskNews
    <3>1. j - 1 \in 1 .. Len(toUi') /\ (j - 1) + 1 = j
      BY <1>1
    <3> QED
      BY <1>1, <2>3, <3>1
  <2> QED
    BY <2>1, <2>2, <2>3
<1> QED
  BY <1>7, <1>9, <1>10

LEMMA UserUpdInv ==
  ASSUME UpdAssumption, UpdInv,
         CheckForUpdatesNow \/ StartUpdateDownload \/ InstallUpdate \/ DismissUpdate
  PROVE  UpdInv'
<1> USE DEF UpdInv
<1>a. MaxVersion \in Nat /\ MaxAsked \in Nat /\ MaxDownloads \in Nat /\ None = 0
  BY DEF UpdAssumption, None
<1>b. banner \in [status: Status, version: 0 .. MaxVersion, dismissed: 0 .. MaxVersion]
      /\ asked \in 0 .. MaxAsked /\ wants \in 0 .. MaxDownloads
  BY DEF Counts
<1>1. CASE CheckForUpdatesNow
  <2>1. /\ asked' \in 0 .. MaxAsked /\ banner'.status = "checking"
        /\ banner' \in [status: Status, version: 0 .. MaxVersion, dismissed: 0 .. MaxVersion]
        /\ UNCHANGED <<updKind, latest, startup, checks, found, wants, downloads, fetching, onDisk, toUi,
                       installed>>
    <3>1. banner' = [banner EXCEPT !.status = "checking", !.dismissed = None]
      BY <1>1 DEF CheckForUpdatesNow
    <3>2. "checking" \in Status /\ None \in 0 .. MaxVersion
      BY <1>a DEF Status
    <3>3. banner' \in Banner /\ banner'.status = "checking"
      BY <1>b, <3>1, <3>2, BannerShown DEF Banner
    <3>4. asked' \in 0 .. MaxAsked
      BY <1>1, <1>a, <1>b DEF CheckForUpdatesNow
    <3> QED
      BY <1>1, <3>3, <3>4 DEF CheckForUpdatesNow, Banner
  <2> QED
    BY <2>1, SameMessages DEF Counts
<1>2. CASE StartUpdateDownload
  <2>1. /\ wants' \in 0 .. MaxDownloads /\ banner'.status = "downloading" /\ banner.status = "available"
        /\ banner' \in [status: Status, version: 0 .. MaxVersion, dismissed: 0 .. MaxVersion]
        /\ UNCHANGED <<updKind, latest, startup, asked, checks, found, downloads, fetching, onDisk, toUi,
                       installed>>
    BY <1>2, <1>a, <1>b DEF StartUpdateDownload, Status
  <2> QED
    BY <2>1, SameMessages DEF Counts
<1>3. CASE InstallUpdate
  <2>1. /\ installed' = onDisk
        /\ UNCHANGED <<updKind, latest, startup, asked, checks, found, wants, downloads, fetching, onDisk,
                       banner>>
    BY <1>3 DEF InstallUpdate
  <2>2. toUi' = toUi \/ toUi' = Append(toUi, Msg("error", None))
    BY <1>3 DEF InstallUpdate
  <2>3. Msg("error", None) \in Message /\ Msg("error", None).type = "error"
    BY <1>a DEF Msg, Message
  <2>4. Messages' /\ RestartInstallsIt'
    BY <2>1, <2>2, <2>3, SameMessages, OneMore
  <2> QED
    BY <2>1, <2>4 DEF Counts
<1>4. CASE DismissUpdate
  <2>1. /\ banner'.status = "idle"
        /\ banner' \in [status: Status, version: 0 .. MaxVersion, dismissed: 0 .. MaxVersion]
        /\ UNCHANGED <<updKind, latest, startup, asked, checks, found, wants, downloads, fetching, onDisk,
                       toUi, installed>>
    BY <1>4, <1>a, <1>b DEF DismissUpdate, Status
  <2> QED
    BY <2>1, SameMessages DEF Counts
<1> QED
  BY <1>1, <1>2, <1>3, <1>4

LEMMA NextUpd == ASSUME UpdAssumption, UpdInv, [UpdNext]_updVars PROVE UpdInv'
<1>1. CASE UNCHANGED updVars
  BY <1>1, SameMessages DEF updVars, UpdInv, Counts
<1> QED
  BY <1>1, CheckInv, DownloadInv, OnMessageInv, UserUpdInv DEF UpdNext

\* "Restart now" and what it rests on, in every reachable state.
THEOREM UpdateSafe == ASSUME UpdAssumption PROVE UpdSpec => []UpdInv
<1>1. UpdInit => UpdInv
  BY InitUpd
<1>2. UpdInv /\ [UpdNext]_updVars => UpdInv'
  BY NextUpd
<1> QED
  BY <1>1, <1>2, PTL DEF UpdSpec

LEMMA UpdTypes == UpdInv => UpdTypeOK
BY DEF UpdInv, Counts, Messages, UpdTypeOK

\* The update's state keeps its types.
THEOREM UpdTypeCorrect == ASSUME UpdAssumption PROVE UpdSpec => []UpdTypeOK
BY UpdateSafe, UpdTypes, PTL

\* "Restart now" is offered for the version that quitting installs.
THEOREM RestartIsOffered == ASSUME UpdAssumption PROVE UpdSpec => []RestartInstallsIt
BY UpdateSafe, PTL DEF UpdInv

-----------------------------------------------------------------------------
\* "Check for updates" spins only while its request is on its way, a check waits for
\* its answer or the message that will end it is not yet read.
CheckIsUnderWay == banner.status = "checking" => asked > 0 \/ checks > 0 \/ toUi # <<>>

LEMMA Sent ==
  ASSUME NEW s \in Seq(Message), NEW m \in Message PROVE Append(s, m) # <<>>
BY AppendProperties, EmptySeq

LEMMA MainUnderWay ==
  ASSUME UpdAssumption, UpdInv, CheckIsUnderWay,
         \/ NewRelease \/ StartupCheck \/ HandleCheck \/ CheckAnswered \/ CheckFailed
         \/ HandleDownload \/ DownloadProgress \/ Downloaded \/ DownloadFailed
  PROVE  CheckIsUnderWay'
<1>1. toUi \in Seq(Message) /\ asked \in Nat /\ checks \in Nat
  BY DEF UpdAssumption, UpdInv, Counts, Messages
<1>2. \A t \in {"none", "progress", "ready", "available"}, v \in 0 .. MaxVersion :
        Msg(t, v) \in Message
  BY DEF Msg, Message
<1>3. None \in 0 .. MaxVersion /\ latest \in 0 .. MaxVersion /\ fetching \in 0 .. MaxVersion
  BY DEF UpdAssumption, UpdInv, Counts, None
<1>4. UNCHANGED banner
  BY DEF NewRelease, StartupCheck, HandleCheck, EnterCheck, CheckAnswered, CheckFailed, HandleDownload,
    DownloadProgress, Downloaded, DownloadFailed
<1>5. CASE NewRelease \/ HandleDownload
  BY <1>4, <1>5 DEF NewRelease, HandleDownload, CheckIsUnderWay
<1>6. CASE StartupCheck
  BY <1>1, <1>4, <1>6 DEF StartupCheck, EnterCheck, CheckIsUnderWay
<1>7. CASE HandleCheck
  <2>1. checks' > 0 \/ toUi' = Append(toUi, Msg("none", None))
    BY <1>1, <1>7 DEF HandleCheck, EnterCheck
  <2> QED
    BY <1>1, <1>2, <1>3, <2>1, Sent DEF CheckIsUnderWay
<1>8. CASE CheckAnswered \/ DownloadProgress \/ Downloaded
  <2>1. \E t \in {"none", "progress", "ready", "available"}, v \in 0 .. MaxVersion :
          toUi' = Append(toUi, Msg(t, v))
    BY <1>3, <1>8 DEF CheckAnswered, DownloadProgress, Downloaded
  <2> QED
    BY <1>1, <1>2, <2>1, Sent DEF CheckIsUnderWay
<1>9. CASE CheckFailed \/ DownloadFailed
  <2>1. \E n \in Nat \ {0} : toUi' = toUi \o Copies(Msg("error", None), n)
    <3>1. downloads \in Nat
      BY DEF UpdAssumption, UpdInv, Counts
    <3>2. 1 + checks \in Nat \ {0} /\ 1 + downloads \in Nat \ {0} /\ 1 \in Nat \ {0}
      BY <1>1, <3>1
    <3>3. CASE CheckFailed
      BY <1>1, <3>2, <3>3 DEF CheckFailed
    <3>4. CASE DownloadFailed
      BY <3>2, <3>4 DEF DownloadFailed
    <3> QED
      BY <1>9, <3>3, <3>4
  <2>2. PICK n \in Nat \ {0} : toUi' = toUi \o Copies(Msg("error", None), n)
    BY <2>1
  <2>3. Copies(Msg("error", None), n) \in Seq(Message) /\ Len(Copies(Msg("error", None), n)) = n
    <3>1. Msg("error", None) \in Message
      BY <1>3 DEF Msg, Message
    <3> QED
      BY <3>1, CopiesFacts
  <2>4. Len(toUi') > 0
    <3>1. Len(toUi \o Copies(Msg("error", None), n)) = Len(toUi) + n
      BY <1>1, <2>3, ConcatProperties
    <3>2. Len(toUi) \in Nat
      BY <1>1, LenProperties
    <3> QED
      BY <2>2, <3>1, <3>2
  <2>5. toUi' # <<>>
    BY <2>4, EmptySeq
  <2> QED
    BY <2>5 DEF CheckIsUnderWay
<1> QED
  BY <1>5, <1>6, <1>7, <1>8, <1>9

LEMMA WindowUnderWay ==
  ASSUME UpdAssumption, UpdInv, CheckIsUnderWay,
         OnMessage \/ CheckForUpdatesNow \/ StartUpdateDownload \/ InstallUpdate \/ DismissUpdate
  PROVE  CheckIsUnderWay'
<1>1. banner \in Banner /\ asked \in Nat
  BY DEF UpdAssumption, UpdInv, Counts, Banner
<1>2. CASE OnMessage
  <2>1. banner'.status # "checking"
    <3>1. \/ banner' \in {[banner EXCEPT !.status = t] : t \in Status \ {"checking"}}
          \/ \E v : \/ banner' = [status |-> "available", version |-> v, dismissed |-> None]
                  \/ banner' = [banner EXCEPT !.status = "ready", !.version = v]
      <4>1. CASE OnError
        <5>1. (IF banner.status = "downloading" THEN "available" ELSE "idle") \in Status \ {"checking"}
          BY DEF Status
        <5> QED
          BY <4>1, <5>1 DEF OnError
      <4> QED
        BY <1>2, <4>1 DEF OnMessage, OnAvailable, OnReady, Status
    <3> QED
      <4>1. CASE \E t \in Status \ {"checking"} : banner' = [banner EXCEPT !.status = t]
        BY <1>1, <4>1, BannerShown DEF Banner
      <4>2. CASE \E v : \/ banner' = [status |-> "available", version |-> v, dismissed |-> None]
                      \/ banner' = [banner EXCEPT !.status = "ready", !.version = v]
        <5>1. PICK v : \/ banner' = [status |-> "available", version |-> v, dismissed |-> None]
                       \/ banner' = [banner EXCEPT !.status = "ready", !.version = v]
          BY <4>2
        <5>2. CASE banner' = [status |-> "available", version |-> v, dismissed |-> None]
          BY <5>2
        <5>3. CASE banner' = [banner EXCEPT !.status = "ready", !.version = v]
          BY <1>1, <5>3 DEF Banner
        <5> QED
          BY <5>1, <5>2, <5>3
      <4> QED
        BY <3>1, <4>1, <4>2
  <2> QED
    BY <2>1 DEF CheckIsUnderWay
<1>3. CASE CheckForUpdatesNow
  BY <1>1, <1>3 DEF CheckForUpdatesNow, CheckIsUnderWay
<1>4. CASE StartUpdateDownload \/ DismissUpdate
  <2>1. banner'.status # "checking"
    BY <1>1, <1>4 DEF StartUpdateDownload, DismissUpdate, Banner
  <2> QED
    BY <2>1 DEF CheckIsUnderWay
<1>5. CASE InstallUpdate
  BY <1>5 DEF InstallUpdate, CheckIsUnderWay
<1> QED
  BY <1>2, <1>3, <1>4, <1>5

\* A check the user asked for is never forgotten: as long as its button spins, what
\* will stop it is under way (checkForUpdatesNow, update:check, initUpdates).
THEOREM ChecksAreAnswered == ASSUME UpdAssumption PROVE UpdSpec => []CheckIsUnderWay
<1>1. UpdInit => CheckIsUnderWay
  BY DEF UpdInit, CheckIsUnderWay
<1>2. UpdInv /\ CheckIsUnderWay /\ [UpdNext]_updVars => CheckIsUnderWay'
  <2>1. CASE UNCHANGED updVars
    BY <2>1 DEF updVars, CheckIsUnderWay
  <2> QED
    BY <2>1, MainUnderWay, WindowUnderWay DEF UpdNext
<1> QED
  BY <1>1, <1>2, UpdateSafe, PTL DEF UpdSpec

-----------------------------------------------------------------------------
(***************************************************************************)
(* Screen: the busy flag of a dialog and the requests it has under way.    *)
(***************************************************************************)

\* The types are needed of what names a server only.
Shapes ==
  /\ dialog \in Dialog \cup {NoDialog}
  /\ slot \in [Slot -> Request \cup {Free}]
  /\ busy \in BOOLEAN
  /\ menu \in Server \cup {NoServer}

\* Without a dialog nothing is left of one.
NothingLeft == dialog.kind = "none" => ~busy /\ \A s \in Slot : ~slot[s].mine

\* A request of the shown dialog keeps its button disabled; the power dialog may have
\* two, the first of which to fail enables it.
MineIsBusy == dialog.kind # "power" => \A s \in Slot : slot[s].mine => busy

ScreenInv ==
  /\ Shapes /\ NothingLeft /\ MineIsBusy
  /\ ButtonComesBack /\ OneRequestPerDialog

-----------------------------------------------------------------------------
(* What showing a dialog does: of another component everything is new, of   *)
(* the same one everything stays.                                           *)

LEMMA ShowDialogInv ==
  ASSUME ScreenAssumption, ScreenInv, NEW d \in Dialog \cup {NoDialog},
         NEW slots \in [Slot -> Request \cup {Free}], ShowDialog(d, slots),
         \A s \in Slot : slots[s] \in {slot[s], Free},
         slots = slot \/ d = NoDialog,
         menu' \in Server \cup {NoServer}
  PROVE  ScreenInv'
<1> USE DEF ScreenInv
<1>1. dialog' = d
  BY DEF ShowDialog
<1>2. CASE Component(d) = Component(dialog)
  <2>1. slot' = slots /\ busy' = busy
    BY <1>2 DEF ShowDialog
  <2> QED
    BY <1>1, <1>2, <2>1 DEF Shapes, NothingLeft, MineIsBusy,
      ButtonComesBack, OneRequestPerDialog, ScreenAssumption, Component, Dialog,
      NoDialog, Free, Request
<1>3. CASE Component(d) # Component(dialog)
  <2>1. /\ slot' = [s \in Slot |-> [slots[s] EXCEPT !.mine = FALSE]]
        /\ busy' = FALSE
    <3>1. DOMAIN slots = Slot
      OBVIOUS
    <3> QED
      BY <1>3 DEF ShowDialog, Orphaned
  <2>2. d.host \in Server \cup {NoServer}
    BY DEF Dialog, NoDialog
  <2>3. slot' \in [Slot -> Request \cup {Free}]
    <3> SUFFICES ASSUME NEW s \in Slot
                 PROVE  [slots[s] EXCEPT !.mine = FALSE] \in Request \cup {Free}
      BY <2>1
    <3>1. CASE slots[s] \in Request
      BY <3>1 DEF Request
    <3>2. CASE slots[s] = Free
      <4> DEFINE Blank == [kind: {"none"}, host: {NoServer}, mine: {FALSE}]
      <4>1. slots[s] \in Blank
        BY <3>2 DEF Free
      <4>2. [slots[s] EXCEPT !.mine = FALSE] \in Blank
        BY <4>1
      <4>3. ASSUME NEW r \in Blank PROVE r = Free
        <5>1. r = [kind |-> r.kind, host |-> r.host, mine |-> r.mine]
          OBVIOUS
        <5>2. r.kind = "none" /\ r.host = NoServer /\ r.mine = FALSE
          OBVIOUS
        <5> HIDE DEF Blank
        <5> QED
          BY <5>1, <5>2 DEF Free
      <4> QED
        BY <4>2, <4>3
    <3> QED
      BY <3>1, <3>2
  <2>4. \A s \in Slot : ~slot'[s].mine
    BY <2>1 DEF Request, Free
  <2>5. Shapes'
    BY <1>1, <2>1, <2>2, <2>3 DEF Shapes
  <2> QED
    BY <1>1, <2>1, <2>4, <2>5 DEF NothingLeft, MineIsBusy, ButtonComesBack, OneRequestPerDialog
<1> QED
  BY <1>2, <1>3

-----------------------------------------------------------------------------

LEMMA InitScreenInv == ASSUME ScreenAssumption, ScreenInit PROVE ScreenInv
BY DEF ScreenInit, ScreenAssumption, ScreenInv, Shapes, NothingLeft, MineIsBusy,
  ButtonComesBack, OneRequestPerDialog, NoDialog, Free

\* Opening, over whatever is shown.
LEMMA OpenInv ==
  ASSUME ScreenAssumption, ScreenInv, NEW d \in Dialog,
         OpenByUser(d) \/ OpenByItself(d) \/ OpenFromPage(d) \/ OpenInPage(d) \/ OpenFromMenu(d)
  PROVE  ScreenInv'
<1>1. ShowDialog(d, slot) /\ menu' \in {menu, NoServer}
  BY DEF OpenByUser, OpenByItself, OpenFromPage, OpenInPage, OpenFromMenu, OpenDialog
<1> QED
  BY <1>1, ShowDialogInv DEF ScreenInv, Shapes

\* Closing: a request that ends closes whatever is shown.
LEMMA CloseInv ==
  ASSUME ScreenAssumption, ScreenInv, NEW slots \in [Slot -> Request \cup {Free}],
         ShowDialog(NoDialog, slots), \A s \in Slot : slots[s] \in {slot[s], Free},
         menu' = menu
  PROVE  ScreenInv'
BY ShowDialogInv DEF ScreenInv, Shapes, NoDialog

\* What shows or hides no dialog, and starts or ends no request.
LEMMA MoveInv ==
  ASSUME ScreenAssumption, ScreenInv, UNCHANGED <<dialog, busy, slot>>,
         menu' \in {menu, NoServer} \cup Server
  PROVE  ScreenInv'
BY DEF ScreenInv, Shapes, NothingLeft, MineIsBusy, ButtonComesBack, OneRequestPerDialog

LEMMA SubmitInv ==
  ASSUME ScreenAssumption, ScreenInv, NEW s \in Slot, Submit(s)
  PROVE  ScreenInv'
<1> DEFINE r == [kind |-> dialog.kind, host |-> dialog.host, mine |-> TRUE]
<1>1. /\ busy' = TRUE /\ slot' = [slot EXCEPT ![s] = r] /\ slot[s] = Free
      /\ UNCHANGED <<menu, dialog>>
  BY DEF Submit, Asks
<1>2. dialog.kind \in {"form", "delete", "remove", "power"} \cup Task
  BY DEF Submit, FormReady, ConfirmReady, TaskReady, PowerReady
<1>3. dialog.host \in Server \cup {NoServer}
  BY DEF ScreenInv, Shapes, Dialog, NoDialog
<1>4. r \in Request
  BY <1>2, <1>3 DEF ScreenInv, Shapes, Request
<1>5. Shapes'
  BY <1>1, <1>4 DEF ScreenInv, Shapes
<1>6. dialog.kind # "power" => ~busy
  BY DEF Submit, FormReady, ConfirmReady, TaskReady, PowerReady, ScreenAssumption
<1>8. r # Free /\ r.mine
  BY DEF Free
<1>9. ButtonComesBack'
  BY <1>1, <1>8 DEF ScreenInv, Shapes, ButtonComesBack
<1>10. OneRequestPerDialog'
  BY <1>1, <1>6 DEF ScreenInv, Shapes, OneRequestPerDialog, MineIsBusy
<1> QED
  BY <1>1, <1>2, <1>5, <1>9, <1>10 DEF ScreenInv, NothingLeft, MineIsBusy, ScreenAssumption

LEMMA RequestFailsInv ==
  ASSUME ScreenAssumption, ScreenInv, NEW s \in Slot, RequestFails(s)
  PROVE  ScreenInv'
<1>1. /\ slot' = [slot EXCEPT ![s] = Free] /\ busy' = (busy /\ ~slot[s].mine)
      /\ UNCHANGED <<menu, dialog>>
  BY DEF RequestFails
<1>2. ~Free.mine
  BY DEF Free
<1>3. Shapes'
  BY <1>1 DEF ScreenInv, Shapes
<1>4. ButtonComesBack'
  BY <1>1 DEF ScreenInv, Shapes, ButtonComesBack
<1>5. MineIsBusy'
  BY <1>1, <1>2 DEF ScreenInv, Shapes, MineIsBusy, OneRequestPerDialog
<1>6. OneRequestPerDialog'
  BY <1>1, <1>2 DEF ScreenInv, Shapes, OneRequestPerDialog
<1> QED
  BY <1>1, <1>2, <1>3, <1>4, <1>5, <1>6 DEF ScreenInv, Shapes, NothingLeft

LEMMA RequestDoneInv ==
  ASSUME ScreenAssumption, ScreenInv, NEW s \in Slot, RequestDone(s)
  PROVE  ScreenInv'
<1> DEFINE slots == [slot EXCEPT ![s] = Free]
<1>1. slots \in [Slot -> Request \cup {Free}] /\ \A s2 \in Slot : slots[s2] \in {slot[s2], Free}
  BY DEF ScreenInv, Shapes
<1>2. ShowDialog(NoDialog, slots) /\ menu' = menu
  BY DEF RequestDone
<1> QED
  BY <1>1, <1>2, CloseInv

-----------------------------------------------------------------------------

LEMMA NextScreenInv ==
  ASSUME ScreenAssumption, ScreenInv, [ScreenNext]_screenVars
  PROVE  ScreenInv'
<1>1. slot \in [Slot -> Request \cup {Free}]
  BY DEF ScreenInv, Shapes
<1>2. CASE \E v \in View : Navigate(v)
  BY <1>2, MoveInv DEF Navigate
<1>3. CASE TerminalOpens \/ TogglePalette \/ OpenDrawer \/ CloseDrawer \/ CloseContextMenu
             \/ HostsChange \/ Question \/ UNCHANGED screenVars
  BY <1>3, MoveInv DEF TerminalOpens, TogglePalette, OpenDrawer, CloseDrawer, CloseContextMenu,
    HostsChange, Question, screenVars
<1>4. CASE \E h \in Server : OpenHostMenu(h)
  BY <1>4, MoveInv DEF OpenHostMenu
<1>5. CASE GoBack
  <2>1. \/ ShowDialog(NoDialog, slot) /\ menu' = menu
        \/ UNCHANGED <<dialog, busy, slot, menu>>
    BY <1>5 DEF GoBack, BackTo
  <2> QED
    BY <1>1, <2>1, CloseInv, MoveInv
<1>6. CASE \E d \in Dialog : \/ OpenByUser(d) \/ OpenByItself(d) \/ OpenFromPage(d)
                             \/ OpenInPage(d) \/ OpenFromMenu(d)
  BY <1>6, OpenInv
<1>7. CASE CloseDialog \/ Escape \/ SubmitAtOnce
  BY <1>1, <1>7, CloseInv DEF CloseDialog, Escape, SubmitAtOnce
<1>8. CASE \E s \in Slot : Submit(s) \/ RequestFails(s) \/ RequestDone(s)
  BY <1>8, SubmitInv, RequestFailsInv, RequestDoneInv
<1> QED
  BY <1>2, <1>3, <1>4, <1>5, <1>6, <1>7, <1>8 DEF ScreenNext

\* Requests, the busy flag and the mounted dialog agree in every reachable state.
THEOREM ScreenSafe == ASSUME ScreenAssumption PROVE ScreenSpec => []ScreenInv
<1>1. ScreenInit => ScreenInv
  BY InitScreenInv
<1>2. ScreenInv /\ [ScreenNext]_screenVars => ScreenInv'
  BY NextScreenInv
<1> QED
  BY <1>1, <1>2, PTL DEF ScreenSpec

\* The button of a dialog is never left disabled.
THEOREM ButtonsComeBack == ASSUME ScreenAssumption PROVE ScreenSpec => []ButtonComesBack
BY ScreenSafe, PTL DEF ScreenInv

\* One request at a time for each dialog but the power dialog.
THEOREM RequestsAreSingle == ASSUME ScreenAssumption PROVE ScreenSpec => []OneRequestPerDialog
BY ScreenSafe, PTL DEF ScreenInv

-----------------------------------------------------------------------------
(* The types of the layers the invariant above is not about. *)

Navigated ==
  /\ known \subseteq Server /\ view \in View
  /\ {drawer, palette, menuFocused, question} \subseteq BOOLEAN

LEMMA Views ==
  /\ [name |-> "overview", host |-> NoServer] \in View
  /\ [name |-> "terminals", host |-> NoServer] \in View
  /\ \A h \in Server : [name |-> "host", host |-> h] \in View
  /\ \A v \in View : v.name = "part" => v.host \in Server
BY DEF View

LEMMA MovesTypes ==
  ASSUME Navigated,
         \/ \E v \in View : Navigate(v)
         \/ TerminalOpens \/ TogglePalette \/ OpenDrawer \/ CloseDrawer
         \/ \E h \in Server : OpenHostMenu(h)
         \/ CloseContextMenu \/ GoBack \/ HostsChange \/ Question
  PROVE  Navigated'
<1> USE Views DEF Navigated, GoTo, FocusMayMove
<1>1. CASE \E v \in View : Navigate(v)
  BY <1>1 DEF Navigate
<1>2. CASE TerminalOpens \/ TogglePalette \/ OpenDrawer \/ CloseDrawer
  BY <1>2 DEF TerminalOpens, TogglePalette, OpenDrawer, CloseDrawer
<1>3. CASE (\E h \in Server : OpenHostMenu(h)) \/ CloseContextMenu
  BY <1>3 DEF OpenHostMenu, CloseContextMenu
<1>4. CASE GoBack
  BY <1>4 DEF GoBack, BackTo
<1>5. CASE HostsChange \/ Question
  BY <1>5 DEF HostsChange, Question
<1> QED
  BY <1>1, <1>2, <1>3, <1>4, <1>5

LEMMA DialogsTypes ==
  ASSUME Navigated,
         \/ \E d \in Dialog : \/ OpenByUser(d) \/ OpenByItself(d) \/ OpenFromPage(d)
                              \/ OpenInPage(d) \/ OpenFromMenu(d)
         \/ CloseDialog \/ Escape \/ SubmitAtOnce
         \/ \E s \in Slot : Submit(s) \/ RequestFails(s) \/ RequestDone(s)
  PROVE  Navigated'
<1> USE Views DEF Navigated, FocusMayMove
<1>1. CASE \E d \in Dialog : \/ OpenByUser(d) \/ OpenByItself(d) \/ OpenFromPage(d)
                             \/ OpenInPage(d) \/ OpenFromMenu(d)
  BY <1>1 DEF OpenByUser, OpenByItself, OpenFromPage, OpenInPage, OpenFromMenu, OpenDialog
<1>2. CASE CloseDialog \/ Escape \/ SubmitAtOnce
  BY <1>2 DEF CloseDialog, Escape, SubmitAtOnce
<1>3. CASE \E s \in Slot : Submit(s) \/ RequestFails(s)
  BY <1>3 DEF Submit, Asks, RequestFails
<1>4. ASSUME NEW s \in Slot, RequestDone(s) PROVE Navigated'
  <2>1. UNCHANGED <<question, menuFocused>>
    BY <1>4 DEF RequestDone
  <2>2. CASE Deleted(slot[s])
    BY <2>1, <2>2 DEF Deleted, GoTo
  <2>3. CASE Created(slot[s])
    BY <2>1, <2>3 DEF Created, GoTo
  <2>4. CASE Changed(slot[s])
    BY <2>1, <2>4 DEF Changed
  <2> QED
    BY <1>4, <2>2, <2>3, <2>4 DEF RequestDone
<1> QED
  BY <1>1, <1>2, <1>3, <1>4

LEMMA InitNavigated == ScreenInit => Navigated
BY Views DEF ScreenInit, Navigated

LEMMA NextNavigated == ASSUME Navigated, [ScreenNext]_screenVars PROVE Navigated'
<1>1. CASE UNCHANGED screenVars
  BY <1>1 DEF screenVars, Navigated
<1> QED
  BY <1>1, MovesTypes, DialogsTypes DEF ScreenNext

LEMMA ScreenTypes == ScreenInv /\ Navigated => ScreenTypeOK
BY DEF ScreenInv, Shapes, Navigated, ScreenTypeOK

\* The screen's state keeps its types: no dialog, menu or page of a server the program
\* never knew.
THEOREM ScreenTypeCorrect == ASSUME ScreenAssumption PROVE ScreenSpec => []ScreenTypeOK
<1>1. ScreenSpec => []Navigated
  BY InitNavigated, NextNavigated, PTL DEF ScreenSpec
<1> QED
  BY <1>1, ScreenSafe, ScreenTypes, PTL

=============================================================================
