------------------------- MODULE MailExtractProofs -------------------------
(***************************************************************************)
(* Proofs about Mails and Extract, the two components that produce the     *)
(* message file and read it.  Their states are disjoint: the names of      *)
(* Mails' specification say so (MailsSpec), those of Extract's are plain.  *)
(*                                                                         *)
(* Mails, for any directories, archives and message ids: the message file  *)
(* has questions with a keyword only, and after a complete pass it has all *)
(* of them whose id is unambiguous.                                        *)
(*                                                                         *)
(* Extract, for every set of messages, answers and message files and every *)
(* Threshold: the inductive invariant IInv ties the pool of the running    *)
(* process to the record it resumed from, and the section in memory to the *)
(* answers the record does not cover yet.                                  *)
(***************************************************************************)
EXTENDS Mails, Extract, SequenceTheorems, FiniteSetTheorems,
        WellFoundedInduction, TLAPS

\* A set of natural numbers with a bound has a greatest one: the least distance
\* from the bound.
LEMMA GreatestNatural ==
  ASSUME NEW b \in Nat, NEW T \in SUBSET 0..b, T # {}
  PROVE  \E x \in T : \A y \in T : y <= x
<1> DEFINE R == {ss \in Nat \X Nat : ss[1] < ss[2]}
           D == {b - y : y \in T}
<1>1. IsWellFoundedOn(R, Nat)
  BY NatLessThanWellFounded DEF OpToRel
<1>2. D \in SUBSET Nat /\ D # {}
  <2>1. \A y \in T : b - y \in Nat
    OBVIOUS
  <2>2. PICK y \in T : TRUE
    OBVIOUS
  <2> QED
    BY <2>1, <2>2
<1>3. \A y, z \in Nat : y < z => <<y, z>> \in R
  OBVIOUS
<1>4. \A y \in T : b - y \in D
  OBVIOUS
<1>5. \A d \in D : \E y \in T : d = b - y
  OBVIOUS
<1> HIDE DEF R, D
<1>6. PICK d \in D : \A e \in D : ~ (<<e, d>> \in R)
  BY <1>1, <1>2, WFMin, Zenon
<1>7. PICK x \in T : d = b - x
  BY <1>5
<1>8. \A y \in T : y <= x
  <2> TAKE y \in T
  <2>1. b - y \in Nat /\ d \in Nat /\ ~ (<<b - y, d>> \in R)
    BY <1>2, <1>4, <1>6
  <2>2. ~ (b - y < d)
    BY <2>1, <1>3, Zenon
  <2> QED
    BY <2>1, <2>2, <1>7
<1> QED
  BY <1>8

\* Every mail of a dict is under its own Message-ID, and was archived.
Keyed(d) == \A i \in Ids : d[i] # NoMail => d[i].id = i
From(d) == \A i \in Ids : d[i] # NoMail => d[i] \in Archived

\* A dict has a mail for every Message-ID of a question in some mbox files.
Covers(d, boxes) ==
  \A mbox \in boxes : \A k \in 1..Len(mbox) :
    HasText(mbox[k]) => d[mbox[k].id] # NoMail

\* Everything with a keyword in the output for a directory is in data.
Collected(d) ==
  \A i \in Ids : FilterText(titleAndText[d])[i] # NoMail => data[i] # NoMail

HasKeywords(d) == \A i \in Ids : d[i] # NoMail => d[i].text = "sql"

Filtering == {"filter", "save", "saving"}
Segmenting == {"segmentation", "dump"}

\* Mails are under their ids, in memory and in the files; filter.py has only
\* mails with a keyword.
KeyInv ==
  /\ Keyed(data)
  /\ \A d \in Dirs : titleAndText[d] \notin {Missing, Truncated} => Keyed(titleAndText[d])
  /\ filtered \notin {Missing, Truncated} => Keyed(filtered) /\ HasKeywords(filtered)
  /\ job \in Filtering => HasKeywords(data)

\* What segmentation.py has in memory, and what it has left.
SegmentInv ==
  /\ job \in Segmenting =>
       /\ dir \in Dirs /\ mboxes \subseteq archive[dir]
       /\ Covers(data, archive[dir] \ mboxes)
       /\ From(data)
  /\ job = "dump" => mboxes = {}
  /\ \A d \in fresh : titleAndText[d] = Truncated
                        \/ /\ titleAndText[d] # Missing
                           /\ Covers(titleAndText[d], archive[d])
                           /\ From(titleAndText[d])

\* What filter.py has collected.
FilterInv ==
  /\ job = "filter" => todo \subseteq Files /\ dir = Missing
  /\ job = "filter" => \A d \in fresh \ todo : titleAndText[d] # Truncated /\ Collected(d)
  /\ job \in {"save", "saving"} /\ dir = Missing =>
       \A d \in fresh : titleAndText[d] # Truncated /\ Collected(d)

MailsIInv == MailsTypeOK /\ KeyInv /\ SegmentInv /\ FilterInv /\ NoQuestionIsLost

-----------------------------------------------------------------------------
\* The mails of an mbox file, by Message-ID.
LEMMA GetTextOf ==
  ASSUME NEW mbox \in Mbox
  PROVE  /\ GetText(mbox) \in Dict
         /\ \A i \in Ids : GetText(mbox)[i] # NoMail =>
              /\ GetText(mbox)[i].id = i
              /\ \E k \in 1..Len(mbox) : GetText(mbox)[i] = mbox[k]
         /\ \A k \in 1..Len(mbox) :
              mbox[k].id \in Ids /\ (HasText(mbox[k]) => GetText(mbox)[mbox[k].id] # NoMail)
<1> DEFINE Of(i) == {k \in 1..Len(mbox) : mbox[k].id = i /\ HasText(mbox[k])}
           Last(i) == CHOOSE k \in Of(i) : \A j \in Of(i) : j <= k
<1>1. Len(mbox) \in Nat /\ \A k \in 1..Len(mbox) : mbox[k] \in Mail
  BY LenProperties, ElementOfSeq DEF Mbox
<1>2. \A k \in 1..Len(mbox) : mbox[k].id \in Ids /\ mbox[k] # NoMail
  BY <1>1, MailsAssumption DEF Mail
<1>3. GetText(mbox) = [i \in Ids |-> IF Of(i) = {} THEN NoMail ELSE mbox[Last(i)]]
  BY DEF GetText
<1>4. ASSUME NEW i \in Ids, Of(i) # {}
      PROVE  Last(i) \in Of(i)
  <2>1. Of(i) \in SUBSET (0..Len(mbox))
    BY <1>1
  <2>2. \E k \in Of(i) : \A j \in Of(i) : j <= k
    <3> HIDE DEF Of
    <3> QED
      BY <1>1, <1>4, <2>1, GreatestNatural
  <2> QED
    BY <2>2
<1>5. ASSUME NEW i \in Ids
      PROVE  /\ Of(i) = {} => GetText(mbox)[i] = NoMail
             /\ Of(i) # {} => \E k \in Of(i) : GetText(mbox)[i] = mbox[k]
  <2> HIDE DEF Last, Of
  <2> QED
    BY <1>3, <1>4
<1>6. ASSUME NEW i \in Ids, Of(i) # {}
      PROVE  \E k \in 1..Len(mbox) :
               /\ GetText(mbox)[i] = mbox[k]
               /\ mbox[k].id = i /\ mbox[k] \in Mail /\ mbox[k].subject = "question"
  BY <1>1, <1>5, <1>6 DEF HasText
<1>7. GetText(mbox) \in Dict
  <2>1. \A i \in Ids : GetText(mbox)[i] \in {mail \in Mail : mail.subject = "question"} \cup {NoMail}
    BY <1>5, <1>6
  <2> HIDE DEF Of, Last
  <2> QED
    BY <1>3, <2>1 DEF Dict
<1>8. \A i \in Ids : GetText(mbox)[i] # NoMail =>
        /\ GetText(mbox)[i].id = i
        /\ \E k \in 1..Len(mbox) : GetText(mbox)[i] = mbox[k]
  BY <1>5, <1>6
<1>9. ASSUME NEW k \in 1..Len(mbox), HasText(mbox[k])
      PROVE  GetText(mbox)[mbox[k].id] # NoMail
  <2>1. Of(mbox[k].id) # {} /\ mbox[k].id \in Ids
    BY <1>2, <1>9
  <2> QED
    BY <1>2, <1>6, <2>1
<1> QED
  BY <1>2, <1>7, <1>8, <1>9

LEMMA UpdateOf ==
  ASSUME NEW d \in Dict, NEW e \in Dict
  PROVE  /\ Update(d, e) \in Dict
         /\ \A i \in Ids : /\ Update(d, e)[i] \in {d[i], e[i]}
                           /\ Update(d, e)[i] = NoMail <=> d[i] = NoMail /\ e[i] = NoMail
BY DEF Update, Dict

LEMMA FilterTextOf ==
  ASSUME NEW d \in Dict
  PROVE  /\ FilterText(d) \in Dict
         /\ \A i \in Ids : /\ FilterText(d)[i] # NoMail =>
                                FilterText(d)[i] = d[i] /\ d[i].text = "sql"
                           /\ d[i] # NoMail /\ d[i].text = "sql" => FilterText(d)[i] # NoMail
BY DEF FilterText, Dict

LEMMA EmptyDictOf ==
  /\ EmptyDict \in Dict /\ Keyed(EmptyDict) /\ HasKeywords(EmptyDict) /\ From(EmptyDict)
BY DEF EmptyDict, Dict, Keyed, HasKeywords, From

\* The mbox files of a directory hold sequences of mails.
LEMMA MboxType ==
  ASSUME MailsTypeOK, NEW d \in Dirs
  PROVE  archive[d] \subseteq Mbox
BY MailsAssumption DEF MailsTypeOK

LEMMA NextType ==
  ASSUME MailsTypeOK, SegmentInv, FilterInv, [MailsNext]_mailsVars
  PROVE  MailsTypeOK'
<1> USE DEF MailsTypeOK
<1>1. CASE Download
  BY <1>1 DEF Download
<1>2. CASE Segement \/ SegmentRaises \/ OpenDirFile \/ SegmentationComplete
  BY <1>2 DEF Segement, SegmentRaises, OpenDirFile, SegmentationComplete
<1>3. ASSUME NEW d \in Dirs, SegmentDir(d)
      PROVE  MailsTypeOK'
  BY <1>3, MboxType, EmptyDictOf DEF SegmentDir
<1>4. CASE SegmentMbox
  BY <1>4, GetTextOf, UpdateOf DEF SegmentMbox
<1>5. CASE WriteDirFile
  BY <1>5 DEF WriteDirFile, SegmentInv, Segmenting
<1>6. CASE FilterDir
  BY <1>6, EmptyDictOf DEF FilterDir, Files
<1>7. CASE FilterNext
  <2>1. PICK d \in todo : /\ titleAndText[d] # Truncated
                          /\ data' = Update(data, FilterText(titleAndText[d]))
                          /\ todo' = todo \ {d}
    BY <1>7 DEF FilterNext
  <2>2. titleAndText[d] \in Dict
    BY <1>7, <2>1 DEF FilterNext, FilterInv, Files
  <2>3. data' \in Dict
    BY <2>1, <2>2, FilterTextOf, UpdateOf
  <2> QED
    BY <1>7, <2>1, <2>3 DEF FilterNext
<1>8. CASE FilterRaises \/ FilterDone \/ OpenFiltered \/ WriteFiltered \/ Kill
  BY <1>8 DEF FilterRaises, FilterDone, OpenFiltered, WriteFiltered, Kill
<1>9. ASSUME NEW d \in Dirs, FilterFile(d)
      PROVE  MailsTypeOK'
  BY <1>9, EmptyDictOf DEF FilterFile
<1>10. CASE UNCHANGED mailsVars
  BY <1>10 DEF mailsVars
<1> QED
  BY <1>1, <1>2, <1>3, <1>4, <1>5, <1>6, <1>7, <1>8, <1>9, <1>10
  DEF MailsNext, Segmentation, Filter

-----------------------------------------------------------------------------
\* What the filter adds to data is under its own id and has a keyword.
LEMMA KeyPreserved ==
  ASSUME MailsTypeOK, SegmentInv, FilterInv, KeyInv, [MailsNext]_mailsVars
  PROVE  KeyInv'
<1> USE DEF KeyInv, Filtering
<1>0. /\ \A d \in Dict, e \in Dict :
           /\ Keyed(d) /\ Keyed(e) => Keyed(Update(d, e))
           /\ HasKeywords(d) /\ HasKeywords(e) => HasKeywords(Update(d, e))
      /\ \A d \in Dict : HasKeywords(FilterText(d)) /\ (Keyed(d) => Keyed(FilterText(d)))
      /\ \A mbox \in Mbox : Keyed(GetText(mbox))
  <2>1. ASSUME NEW d \in Dict, NEW e \in Dict
        PROVE  /\ Keyed(d) /\ Keyed(e) => Keyed(Update(d, e))
               /\ HasKeywords(d) /\ HasKeywords(e) => HasKeywords(Update(d, e))
    BY UpdateOf DEF Keyed, HasKeywords
  <2>2. ASSUME NEW d \in Dict
        PROVE  HasKeywords(FilterText(d)) /\ (Keyed(d) => Keyed(FilterText(d)))
    BY FilterTextOf DEF Keyed, HasKeywords
  <2>3. ASSUME NEW mbox \in Mbox
        PROVE  Keyed(GetText(mbox))
    BY GetTextOf DEF Keyed
  <2> QED
    BY <2>1, <2>2, <2>3
<1>1. CASE Download
  BY <1>1 DEF Download
<1>2. CASE Segement \/ SegmentRaises \/ SegmentationComplete
  BY <1>2 DEF Segement, SegmentRaises, SegmentationComplete
<1>3. ASSUME NEW d \in Dirs, SegmentDir(d)
      PROVE  KeyInv'
  BY <1>3, EmptyDictOf DEF SegmentDir
<1>4. CASE SegmentMbox
  <2>1. PICK mbox \in mboxes : data' = Update(data, GetText(mbox))
    BY <1>4 DEF SegmentMbox
  <2>2. mbox \in Mbox /\ GetText(mbox) \in Dict /\ data \in Dict
    BY GetTextOf DEF MailsTypeOK
  <2>3. Keyed(data')
    BY <1>0, <2>1, <2>2
  <2> QED
    BY <1>4, <2>3 DEF SegmentMbox
<1>5. CASE OpenDirFile
  BY <1>5 DEF OpenDirFile, MailsTypeOK
<1>6. CASE WriteDirFile
  BY <1>6 DEF WriteDirFile, MailsTypeOK
<1>7. CASE FilterDir
  BY <1>7, EmptyDictOf DEF FilterDir
<1>8. CASE FilterNext
  <2>1. PICK d \in todo : /\ titleAndText[d] # Truncated
                          /\ data' = Update(data, FilterText(titleAndText[d]))
    BY <1>8 DEF FilterNext
  <2>2. d \in Dirs /\ titleAndText[d] \in Dict /\ Keyed(titleAndText[d])
    BY <1>8, <2>1 DEF FilterNext, FilterInv, Files, MailsTypeOK
  <2>3. FilterText(titleAndText[d]) \in Dict /\ data \in Dict /\ HasKeywords(data)
    BY <1>8, <2>2, FilterTextOf DEF FilterNext, MailsTypeOK
  <2>4. Keyed(data') /\ HasKeywords(data')
    BY <1>0, <2>1, <2>2, <2>3
  <2> QED
    BY <1>8, <2>4 DEF FilterNext
<1>9. CASE FilterRaises \/ FilterDone \/ OpenFiltered \/ WriteFiltered \/ Kill
  BY <1>9 DEF FilterRaises, FilterDone, OpenFiltered, WriteFiltered, Kill
<1>10. ASSUME NEW d \in Dirs, FilterFile(d)
       PROVE  KeyInv'
  BY <1>10, EmptyDictOf DEF FilterFile
<1>11. CASE UNCHANGED mailsVars
  BY <1>11 DEF mailsVars
<1> QED
  BY <1>1, <1>2, <1>3, <1>4, <1>5, <1>6, <1>7, <1>8, <1>9, <1>10, <1>11
  DEF MailsNext, Segmentation, Filter

-----------------------------------------------------------------------------
LEMMA ArchivedMail ==
  ASSUME NEW d \in Dirs, NEW mbox \in archive[d], NEW k \in 1..Len(mbox)
  PROVE  mbox[k] \in Archived
<1>1. mbox \in UNION {archive[e] : e \in Dirs}
  OBVIOUS
<1>2. mbox[k] \in {mbox[l] : l \in 1..Len(mbox)}
  OBVIOUS
<1> QED
  BY <1>1, <1>2 DEF Archived

LEMMA ArchiveKept ==
  ASSUME UNCHANGED archive
  PROVE  /\ Archived' = Archived
         /\ \A d : From(d)' <=> From(d)
BY DEF From, Archived

\* One more mbox file has been read.
LEMMA MboxRead ==
  ASSUME MailsTypeOK, SegmentInv, job \in Segmenting, NEW mbox \in mboxes
  PROVE  /\ Covers(Update(data, GetText(mbox)), archive[dir] \ (mboxes \ {mbox}))
         /\ From(Update(data, GetText(mbox)))
<1> DEFINE new == Update(data, GetText(mbox))
<1>1. dir \in Dirs /\ mbox \in archive[dir] /\ archive[dir] \subseteq Mbox
  BY MboxType DEF SegmentInv
<1>2. GetText(mbox) \in Dict /\ data \in Dict
  BY <1>1, GetTextOf DEF MailsTypeOK
<1>3. \A i \in Ids : /\ new[i] \in {data[i], GetText(mbox)[i]}
                     /\ new[i] = NoMail <=> data[i] = NoMail /\ GetText(mbox)[i] = NoMail
  BY <1>2, UpdateOf
<1> HIDE DEF new
<1>4. ASSUME NEW m \in archive[dir] \ (mboxes \ {mbox}), NEW k \in 1..Len(m), HasText(m[k])
      PROVE  new[m[k].id] # NoMail
  <2>1. m[k].id \in Ids /\ GetText(m)[m[k].id] # NoMail
    BY <1>1, <1>4, GetTextOf
  <2>2. CASE m = mbox
    BY <1>3, <2>1, <2>2
  <2>3. CASE m \in archive[dir] \ mboxes
    <3>1. data[m[k].id] # NoMail
      BY <1>4, <2>3 DEF SegmentInv, Covers
    <3> QED
      BY <1>3, <2>1, <3>1
  <2> QED
    BY <1>4, <2>2, <2>3
<1>5. ASSUME NEW i \in Ids, new[i] # NoMail
      PROVE  new[i] \in Archived
  <2>1. CASE new[i] = data[i]
    BY <1>5, <2>1 DEF SegmentInv, From
  <2>2. CASE new[i] = GetText(mbox)[i]
    <3>1. PICK k \in 1..Len(mbox) : GetText(mbox)[i] = mbox[k]
      BY <1>1, <1>5, <2>2, GetTextOf
    <3> QED
      BY <1>1, <2>2, <3>1, ArchivedMail
  <2> QED
    BY <1>3, <2>1, <2>2
<1>6. Covers(new, archive[dir] \ (mboxes \ {mbox})) /\ From(new)
  BY <1>4, <1>5 DEF Covers, From
<1> QED
  BY <1>6 DEF new

\* What is not segmented, and the fresh outputs, stay as they are.
LEMMA SegmentFrame ==
  ASSUME SegmentInv, UNCHANGED <<archive, titleAndText, fresh>>, job' \notin Segmenting
  PROVE  SegmentInv'
<1>1. \A d \in fresh : titleAndText'[d] = Truncated
                         \/ /\ titleAndText'[d] # Missing
                            /\ Covers(titleAndText[d], archive[d])
                            /\ From(titleAndText[d])'
  BY ArchiveKept DEF SegmentInv
<1> QED
  BY <1>1 DEF SegmentInv, Segmenting, Covers, From

LEMMA SegmentPreserved ==
  ASSUME MailsTypeOK, SegmentInv, [MailsNext]_mailsVars
  PROVE  SegmentInv'
<1>1. CASE Download
  BY <1>1 DEF Download, SegmentInv, Segmenting
<1>2. CASE Segement \/ SegmentRaises \/ SegmentationComplete
  BY <1>2, SegmentFrame
  DEF Segement, SegmentRaises, SegmentationComplete, Segmenting
<1>3. ASSUME NEW d \in Dirs, SegmentDir(d)
      PROVE  SegmentInv'
  <2>1. UNCHANGED <<archive, titleAndText, fresh>> /\ job' = "segmentation"
    BY <1>3 DEF SegmentDir
  <2>2. /\ dir' \in Dirs /\ mboxes' \subseteq archive'[dir']
        /\ archive'[dir'] \ mboxes' = {} /\ data' = EmptyDict
    BY <1>3 DEF SegmentDir
  <2>3. Covers(data', {}) /\ From(data')
    BY <2>2, EmptyDictOf DEF Covers
  <2>4. \A e \in fresh : titleAndText'[e] = Truncated
                         \/ /\ titleAndText'[e] # Missing
                            /\ Covers(titleAndText[e], archive[e])
                            /\ From(titleAndText[e])
    BY <2>1 DEF SegmentInv
  <2> QED
    BY <2>1, <2>2, <2>3, <2>4, ArchiveKept DEF SegmentInv, Covers
<1>4. CASE SegmentMbox
  <2>1. PICK mbox \in mboxes : /\ mboxes' = mboxes \ {mbox}
                               /\ data' = Update(data, GetText(mbox))
    BY <1>4 DEF SegmentMbox
  <2>2. /\ UNCHANGED <<archive, titleAndText, fresh, dir>>
        /\ job = "segmentation" /\ job' = "segmentation"
    BY <1>4 DEF SegmentMbox
  <2>3. dir' \in Dirs /\ mboxes' \subseteq archive'[dir']
    BY <2>1, <2>2 DEF SegmentInv, Segmenting
  <2>4. Covers(data', archive'[dir'] \ mboxes') /\ From(data')
    BY <2>1, <2>2, MboxRead DEF Segmenting
  <2>5. \A e \in fresh : titleAndText'[e] = Truncated
                         \/ /\ titleAndText'[e] # Missing
                            /\ Covers(titleAndText[e], archive[e])
                            /\ From(titleAndText[e])
    BY <2>2 DEF SegmentInv
  <2> QED
    BY <2>2, <2>3, <2>4, <2>5, ArchiveKept DEF SegmentInv, Covers
<1>5. CASE OpenDirFile
  <2>1. /\ UNCHANGED <<archive, fresh, dir, mboxes, data>>
        /\ job = "segmentation" /\ job' = "dump" /\ mboxes = {}
    BY <1>5 DEF OpenDirFile
  <2>2. \A e \in Dirs : titleAndText'[e] = Truncated \/ titleAndText'[e] = titleAndText[e]
    BY <1>5 DEF OpenDirFile, MailsTypeOK
  <2>3. /\ dir \in Dirs /\ mboxes \subseteq archive[dir]
        /\ Covers(data, archive[dir] \ mboxes) /\ From(data)
    BY <2>1 DEF SegmentInv, Segmenting
  <2>4. \A e \in fresh : titleAndText'[e] = Truncated
                         \/ /\ titleAndText'[e] # Missing
                            /\ Covers(titleAndText'[e], archive[e])
                            /\ From(titleAndText'[e])
    BY <2>2 DEF SegmentInv, MailsTypeOK
  <2> QED
    BY <2>1, <2>3, <2>4, ArchiveKept DEF SegmentInv, Covers
<1>6. CASE WriteDirFile
  <2>1. /\ UNCHANGED archive /\ fresh' = fresh \cup {dir}
        /\ job = "dump" /\ job' = "segement" /\ mboxes = {}
    BY <1>6 DEF WriteDirFile, SegmentInv
  <2>2. dir \in Dirs /\ Covers(data, archive[dir]) /\ From(data)
    BY <2>1 DEF SegmentInv, Segmenting
  <2>3. /\ titleAndText'[dir] = data
        /\ \A e \in Dirs \ {dir} : titleAndText'[e] = titleAndText[e]
    BY <1>6, <2>2 DEF WriteDirFile, MailsTypeOK
  <2>4. data # Missing
    BY MailsAssumption DEF MailsTypeOK
  <2>5. \A e \in fresh' : titleAndText'[e] = Truncated
                          \/ /\ titleAndText'[e] # Missing
                             /\ Covers(titleAndText'[e], archive[e])
                             /\ From(titleAndText'[e])
    BY <2>1, <2>2, <2>3, <2>4 DEF SegmentInv, MailsTypeOK
  <2> QED
    BY <2>1, <2>5, ArchiveKept DEF SegmentInv, Segmenting, Covers
<1>7. CASE Filter \/ Kill
  BY <1>7, SegmentFrame
  DEF Filter, FilterDir, FilterNext, FilterRaises, FilterDone, FilterFile,
      OpenFiltered, WriteFiltered, Kill, Segmenting
<1>8. CASE UNCHANGED mailsVars
  <2>1. CASE job \in Segmenting
    BY <1>8, <2>1, ArchiveKept DEF mailsVars, SegmentInv, Covers
  <2>2. CASE job \notin Segmenting
    BY <1>8, <2>2, SegmentFrame DEF mailsVars
  <2> QED
    BY <2>1, <2>2
<1> QED
  BY <1>1, <1>2, <1>3, <1>4, <1>5, <1>6, <1>7, <1>8 DEF MailsNext, Segmentation

-----------------------------------------------------------------------------
LEMMA CollectedKept ==
  ASSUME NEW d, UNCHANGED <<titleAndText, data>>, Collected(d)
  PROVE  Collected(d)'
BY DEF Collected, FilterText

LEMMA FilterPreserved ==
  ASSUME MailsTypeOK, SegmentInv, FilterInv, [MailsNext]_mailsVars
  PROVE  FilterInv'
<1>1. CASE Download \/ Segmentation \/ FilterRaises \/ Kill
  BY <1>1
  DEF Download, Segmentation, Segement, SegmentDir, SegmentMbox, SegmentRaises,
      OpenDirFile, WriteDirFile, SegmentationComplete, FilterRaises, Kill, FilterInv
<1>2. CASE FilterDir
  <2>1. job' = "filter" /\ dir' = Missing /\ todo' = Files'
    BY <1>2 DEF FilterDir, Files
  <2>2. \A d \in fresh : d \in Files
    BY <1>2, MailsAssumption DEF SegmentInv, Files, MailsTypeOK
  <2> QED
    BY <1>2, <2>1, <2>2 DEF FilterDir, FilterInv, Files
<1>3. CASE FilterNext
  <2>1. PICK d \in todo : /\ titleAndText[d] # Truncated
                          /\ data' = Update(data, FilterText(titleAndText[d]))
                          /\ todo' = todo \ {d}
    BY <1>3 DEF FilterNext
  <2>2. /\ job = "filter" /\ job' = "filter"
        /\ UNCHANGED <<titleAndText, dir, fresh>>
    BY <1>3 DEF FilterNext
  <2>3. titleAndText[d] \in Dict
    BY <2>1, <2>2 DEF FilterInv, Files, MailsTypeOK
  <2>4. FilterText(titleAndText[d]) \in Dict /\ data \in Dict
    BY <2>3, FilterTextOf DEF MailsTypeOK
  <2>5. \A i \in Ids : data'[i] = NoMail =>
          data[i] = NoMail /\ FilterText(titleAndText[d])[i] = NoMail
    BY <2>1, <2>4, UpdateOf
  <2>6. ASSUME NEW e \in fresh \ todo'
        PROVE  titleAndText'[e] # Truncated /\ Collected(e)'
    <3>1. CASE e = d
      BY <2>1, <2>2, <2>5, <3>1 DEF Collected, FilterText
    <3>2. CASE e \in fresh \ todo
      BY <2>2, <2>5, <3>2 DEF FilterInv, Collected, FilterText
    <3> QED
      BY <2>1, <2>2, <2>6, <3>1, <3>2
  <2> QED
    BY <2>1, <2>2, <2>6 DEF FilterInv, Files
<1>4. CASE FilterDone
  <2>1. /\ UNCHANGED <<titleAndText, dir, fresh, data>>
        /\ job = "filter" /\ job' = "save" /\ todo = {}
    BY <1>4 DEF FilterDone
  <2> QED
    BY <2>1, CollectedKept DEF FilterInv
<1>5. ASSUME NEW d \in Dirs, FilterFile(d)
      PROVE  FilterInv'
  BY <1>5, MailsAssumption DEF FilterFile, FilterInv
<1>6. CASE OpenFiltered
  <2>1. /\ UNCHANGED <<titleAndText, dir, fresh, data>>
        /\ job = "save" /\ job' = "saving"
    BY <1>6 DEF OpenFiltered
  <2> QED
    BY <2>1, CollectedKept DEF FilterInv
<1>7. CASE WriteFiltered
  BY <1>7 DEF WriteFiltered, FilterInv
<1>8. CASE UNCHANGED mailsVars
  BY <1>8, CollectedKept DEF mailsVars, FilterInv, Files
<1> QED
  BY <1>1, <1>2, <1>3, <1>4, <1>5, <1>6, <1>7, <1>8 DEF MailsNext, Filter

\* When filter.py -d saves what it has collected from all directories, that is
\* everything.
LEMMA NothingIsMissed ==
  ASSUME MailsTypeOK, KeyInv, SegmentInv, FilterInv,
         job = "saving", dir = Missing, fresh = Dirs,
         NEW mail \in Archived, mail.subject = "question", mail.text = "sql",
         \A other \in Archived : other.id = mail.id => other.text = "sql"
  PROVE  data[mail.id] # NoMail
<1>1. PICK d \in Dirs : \E mbox \in archive[d] : \E k \in 1..Len(mbox) : mail = mbox[k]
  BY DEF Archived
<1>2. PICK mbox \in archive[d] : \E k \in 1..Len(mbox) : mail = mbox[k]
  BY <1>1
<1>3. PICK k \in 1..Len(mbox) : mail = mbox[k]
  BY <1>2
<1>4. mbox \in Mbox /\ mail.id \in Ids
  BY <1>3, MboxType, GetTextOf
<1>5. titleAndText[d] # Truncated /\ Collected(d)
  BY DEF FilterInv
<1>6. /\ titleAndText[d] # Missing
      /\ Covers(titleAndText[d], archive[d]) /\ From(titleAndText[d])
  BY <1>5 DEF SegmentInv
<1>7. titleAndText[d] \in Dict /\ Keyed(titleAndText[d])
  BY <1>5, <1>6 DEF MailsTypeOK, KeyInv
<1>8. titleAndText[d][mail.id] # NoMail
  BY <1>3, <1>6 DEF Covers, HasText
<1>9. titleAndText[d][mail.id].text = "sql"
  BY <1>4, <1>6, <1>7, <1>8 DEF From, Keyed
<1>10. FilterText(titleAndText[d])[mail.id] # NoMail
  BY <1>4, <1>7, <1>8, <1>9, FilterTextOf
<1> QED
  BY <1>4, <1>5, <1>10 DEF Collected

LEMMA LossPreserved ==
  ASSUME MailsIInv, [MailsNext]_mailsVars
  PROVE  NoQuestionIsLost'
<1> USE DEF MailsIInv
<1>1. CASE Download \/ OpenFiltered
  BY <1>1 DEF Download, OpenFiltered, NoQuestionIsLost
<1>2. CASE WriteFiltered
  <2>1. CASE dir = Missing /\ fresh = Dirs
    BY <1>2, <2>1, NothingIsMissed, ArchiveKept DEF WriteFiltered, NoQuestionIsLost
  <2>2. CASE ~ (dir = Missing /\ fresh = Dirs)
    BY <1>2, <2>2 DEF WriteFiltered, NoQuestionIsLost
  <2> QED
    BY <2>1, <2>2
<1>3. ASSUME UNCHANGED <<archive, filtered, complete>>
      PROVE  NoQuestionIsLost'
  BY <1>3, ArchiveKept DEF NoQuestionIsLost
<1>4. CASE Segmentation
  BY <1>3, <1>4
  DEF Segmentation, Segement, SegmentDir, SegmentMbox, SegmentRaises,
      OpenDirFile, WriteDirFile, SegmentationComplete
<1>5. CASE FilterDir \/ FilterNext \/ FilterRaises \/ FilterDone
             \/ (\E d \in Dirs : FilterFile(d)) \/ Kill
  BY <1>3, <1>5
  DEF FilterDir, FilterNext, FilterRaises, FilterDone, FilterFile, Kill
<1>6. CASE UNCHANGED mailsVars
  BY <1>3, <1>6 DEF mailsVars
<1> QED
  BY <1>1, <1>2, <1>4, <1>5, <1>6 DEF MailsNext, Filter

LEMMA InitInv == MailsInit => MailsIInv
<1>1. MailsInit => MailsTypeOK
  BY EmptyDictOf DEF MailsInit, MailsTypeOK
<1>2. MailsInit => KeyInv
  BY EmptyDictOf DEF MailsInit, KeyInv, Filtering
<1>3. MailsInit => SegmentInv /\ FilterInv /\ NoQuestionIsLost
  BY DEF MailsInit, SegmentInv, Segmenting, FilterInv, NoQuestionIsLost
<1> QED
  BY <1>1, <1>2, <1>3 DEF MailsIInv

LEMMA Invariant == MailsSpec => []MailsIInv
<1>1. MailsIInv /\ [MailsNext]_mailsVars => MailsIInv'
  BY NextType, KeyPreserved, SegmentPreserved, FilterPreserved, LossPreserved DEF MailsIInv
<1> QED
  BY <1>1, InitInv, PTL DEF MailsSpec

\* Type correctness of Mails, for every set of directories, ids and archives.
THEOREM MailsTypeCorrect == MailsSpec => []MailsTypeOK
<1>1. MailsIInv => MailsTypeOK
  BY DEF MailsIInv
<1> QED
  BY <1>1, Invariant, PTL

\* After a complete pass no question with a keyword is missing, in whatever order
\* directories and files were read, unless its id is ambiguous.
THEOREM QuestionsAreKept == MailsSpec => []NoQuestionIsLost
<1>1. MailsIInv => NoQuestionIsLost
  BY DEF MailsIInv
<1> QED
  BY <1>1, Invariant, PTL

-----------------------------------------------------------------------------
\* p extends q: it has q's messages, under the same numbers.
Extends(p, q) == \A m \in Known(q) : p[m] = q[m]

\* A stopped process has no memory.
StoppedInv ==
  pc = "stopped" => cnt = 0 /\ pool = EmptyPool /\ section = NoAnswers

\* A running process extends the record, except while it is rewriting it.
ResumeInv ==
  /\ pc \in {"loop", "save", "saving", "saved"} =>
       record # Corrupt /\ Extends(pool, record)
  /\ pc = "recording" => record = Corrupt

\* A checkpoint adds at least one message to the record.
GrowthInv ==
  pc \in {"save", "saving", "saved"} => Size(pool) > Size(record)

\* The section holds the answers of the messages that are not recorded yet.
SectionInv ==
  pc \in {"loop", "save", "saving", "saved"} =>
    \A m \in Known(pool) \ Known(record) :
      answer[m] # NoSql => section[m] = answer[m]

\* The section is in its file before the record is opened.
WrittenInv ==
  /\ pc = "saved" => [upto |-> Size(pool), body |-> section] \in sections
  /\ pc = "recording" => Saved(pool)

IInv ==
  /\ TypeOK
  /\ StoppedInv
  /\ ResumeInv
  /\ GrowthInv
  /\ SectionInv
  /\ WrittenInv
  /\ ArrivalNumbers
  /\ NoLostAnswer

-----------------------------------------------------------------------------
\* The size of a pool is a natural number, and its messages a finite set.
LEMMA SizeType ==
  ASSUME NEW p \in Pools
  PROVE  /\ IsFiniteSet(Known(p))
         /\ Size(p) \in Nat
<1>1. Known(p) \in SUBSET MsgIds
  BY DEF Known
<1>2. IsFiniteSet(Known(p))
  BY <1>1, ExtractAssumption, FS_Subset
<1> QED
  BY <1>2, FS_CardinalityType DEF Size

\* Only the empty pool has no messages.
LEMMA SizeEmpty == EmptyPool \in Pools /\ Size(EmptyPool) = 0
<1>1. Known(EmptyPool) = {}
  BY DEF Known, EmptyPool
<1> QED
  BY <1>1, FS_EmptySet DEF Size, EmptyPool, Pools

\* A pool that extends another one is at least as large.
LEMMA SizeExtends ==
  ASSUME NEW p \in Pools, NEW q \in Pools, Extends(p, q)
  PROVE  /\ Known(q) \subseteq Known(p)
         /\ Size(q) <= Size(p)
<1>1. Known(q) \in SUBSET Known(p)
  BY DEF Known, Extends
<1> QED
  BY <1>1, SizeType, FS_Subset DEF Size

\* Giving a new message the next number keeps the numbering, adds one to the
\* size of the pool and extends whatever the pool extended.
LEMMA NextNumber ==
  ASSUME NEW p \in Pools, NEW k \in MsgIds, p[k] = 0, Numbered(p),
         NEW q \in Pools, q[k] = Size(p) + 1, \A m \in MsgIds \ {k} : q[m] = p[m]
  PROVE  /\ Known(q) = Known(p) \cup {k}
         /\ Size(q) = Size(p) + 1
         /\ Extends(q, p)
         /\ Numbered(q)
<1>1. Size(p) \in Nat /\ IsFiniteSet(Known(p))
  BY SizeType
<1>2. Known(q) = Known(p) \cup {k}
  BY <1>1 DEF Known
<1>3. k \notin Known(p)
  BY DEF Known
<1>4. Size(q) = Size(p) + 1
  BY <1>1, <1>2, <1>3, FS_AddElement DEF Size
<1>5. \A m \in Known(p) : q[m] = p[m]
  BY <1>3 DEF Known
<1>6. Numbered(q)
  <2>1. \A m \in Known(q) : q[m] \in 1..Size(q)
    BY <1>1, <1>2, <1>4, <1>5 DEF Numbered
  <2>2. ASSUME NEW m \in Known(q), NEW n \in Known(q), q[m] = q[n]
        PROVE  m = n
    BY <1>1, <1>2, <1>5, <2>2 DEF Numbered
  <2> QED
    BY <2>1, <2>2 DEF Numbered
<1> QED
  BY <1>2, <1>4, <1>5, <1>6 DEF Extends

-----------------------------------------------------------------------------
\* The initial states satisfy the invariant.
LEMMA InitIInv == Init => IInv
<1> SUFFICES ASSUME Init PROVE IInv
  OBVIOUS
<1> USE DEF Init
<1>1. TypeOK
  BY SizeEmpty DEF TypeOK, NoAnswers, Answers
<1>2. StoppedInv /\ ResumeInv /\ GrowthInv /\ SectionInv /\ WrittenInv
  BY DEF StoppedInv, ResumeInv, GrowthInv, SectionInv, WrittenInv
<1>3. Known(EmptyPool) = {}
  BY DEF Known, EmptyPool
<1>4. ArrivalNumbers /\ NoLostAnswer
  BY <1>3 DEF ArrivalNumbers, Numbered, NoLostAnswer, Saved
<1> QED
  BY <1>1, <1>2, <1>4 DEF IInv

\* A step that stops the process leaves files and answers as they are.
LEMMA StopStep ==
  ASSUME IInv, NEW how \in {"completed", "raised", "killed"}, Stop(how),
         UNCHANGED <<input, files, answer>>
  PROVE  IInv'
<1> USE DEF IInv, Stop, files
<1>1. TypeOK'
  BY SizeEmpty DEF TypeOK, NoAnswers, Answers
<1>2. (StoppedInv /\ ResumeInv /\ GrowthInv /\ SectionInv /\ WrittenInv)'
  BY DEF StoppedInv, ResumeInv, GrowthInv, SectionInv, WrittenInv
<1>3. Known(EmptyPool) = {}
  BY DEF Known, EmptyPool
<1>4. ArrivalNumbers'
  BY <1>3 DEF ArrivalNumbers, Numbered
<1>5. NoLostAnswer'
  BY DEF NoLostAnswer, Saved
<1> QED
  BY <1>1, <1>2, <1>4, <1>5

\* The loop is at a message that is not in the pool, and gives it a number.
LEMMA CallFacts ==
  ASSUME IInv, pc = "loop", cnt < Len(input), pool[Current] = 0,
         pool' = [pool EXCEPT ![Current] = idx]
  PROVE  /\ Current \in MsgIds
         /\ cnt + 1 \in 0..Len(input)
         /\ record # Corrupt /\ record \in Pools
         /\ pool' \in Pools
         /\ Known(pool') = Known(pool) \cup {Current}
         /\ Size(pool') = Size(pool) + 1
         /\ Size(pool') > Size(record)
         /\ Numbered(pool')
         /\ Extends(pool', record)
         /\ Current \notin Known(record)
<1>1. Current \in MsgIds /\ cnt + 1 \in 0..Len(input)
  <2>1. input \in Seq(Keys) /\ cnt \in 0..Len(input)
    BY ExtractAssumption DEF IInv, TypeOK
  <2>2. input[cnt + 1] \in Keys /\ cnt + 1 \in 0..Len(input)
    BY <2>1
  <2> QED
    BY <2>2, ExtractAssumption DEF Current
<1>2. pool \in Pools /\ Numbered(pool)
  BY DEF IInv, TypeOK, ArrivalNumbers
<1>3. record # Corrupt /\ record \in Pools /\ Extends(pool, record)
  BY DEF IInv, TypeOK, ResumeInv
<1>4. /\ pool' \in Pools
      /\ pool'[Current] = Size(pool) + 1
      /\ \A m \in MsgIds \ {Current} : pool'[m] = pool[m]
  BY <1>1, <1>2, SizeType DEF idx, Pools
<1>5. /\ Known(pool') = Known(pool) \cup {Current}
      /\ Size(pool') = Size(pool) + 1
      /\ Extends(pool', pool)
      /\ Numbered(pool')
  BY <1>1, <1>2, <1>4, NextNumber
<1>6. Current \notin Known(record)
  BY <1>3 DEF Known, Extends
<1>7. Extends(pool', record)
  BY <1>3, <1>4, <1>6 DEF Extends, Known
<1>8. Size(pool') > Size(record)
  BY <1>2, <1>3, <1>5, SizeExtends, SizeType
<1> QED
  BY <1>1, <1>3, <1>4, <1>5, <1>6, <1>7, <1>8

\* A call, whatever it answers: the section gets the answer if there is one.
LEMMA CallStep ==
  ASSUME IInv, pc = "loop", cnt < Len(input), pool[Current] = 0,
         cnt' = cnt + 1,
         pool' = [pool EXCEPT ![Current] = idx],
         NEW sql \in Sqls \cup {NoSql},
         answer' = [answer EXCEPT ![Current] = sql],
         section' = IF sql = NoSql THEN section
                                   ELSE [section EXCEPT ![Current] = sql],
         pc' \in {"loop", "save"},
         UNCHANGED <<input, files, exit>>
  PROVE  IInv'
<1> USE DEF files
<1>0. /\ Current \in MsgIds
      /\ cnt + 1 \in 0..Len(input)
      /\ record # Corrupt /\ record \in Pools
      /\ pool' \in Pools
      /\ Known(pool') = Known(pool) \cup {Current}
      /\ Size(pool') > Size(record)
      /\ Numbered(pool')
      /\ Extends(pool', record)
      /\ Current \notin Known(record)
  BY CallFacts
<1>1. TypeOK'
  BY <1>0 DEF IInv, TypeOK, Answers
<1>2. StoppedInv' /\ WrittenInv'
  BY DEF StoppedInv, WrittenInv
<1>3. ResumeInv'
  BY <1>0 DEF ResumeInv
<1>4. GrowthInv'
  BY <1>0 DEF GrowthInv
<1>5. SectionInv'
  <2> SUFFICES ASSUME NEW m \in Known(pool') \ Known(record'), answer'[m] # NoSql
               PROVE  section'[m] = answer'[m]
    BY DEF SectionInv
  <2>1. answer \in Answers /\ section \in Answers
    BY DEF IInv, TypeOK
  <2>2. CASE m = Current
    BY <1>0, <2>1, <2>2 DEF Answers
  <2>3. CASE m # Current
    <3>1. m \in Known(pool) \ Known(record)
      BY <1>0, <2>3
    <3>2. answer'[m] = answer[m] /\ section'[m] = section[m]
      BY <2>1, <2>3 DEF Answers
    <3> QED
      BY <3>1, <3>2 DEF IInv, SectionInv
  <2> QED
    BY <2>2, <2>3
<1>6. ArrivalNumbers'
  BY <1>0 DEF IInv, ArrivalNumbers
<1>7. NoLostAnswer'
  <2>1. \A m \in Known(record) : answer'[m] = answer[m]
    BY <1>0 DEF IInv, TypeOK, Answers, Known
  <2> QED
    BY <1>0, <2>1 DEF IInv, NoLostAnswer, Saved
<1> QED
  BY <1>1, <1>2, <1>3, <1>4, <1>5, <1>6, <1>7 DEF IInv

\* Replacing the file named after the pool leaves the record's files alone.
LEMMA WithSectionFacts ==
  ASSUME IInv, pc \in {"save", "saving"}, NEW body \in Answers \cup {Corrupt},
         sections' = WithSection(body)
  PROVE  /\ sections' \subseteq [upto : Nat \ {0}, body : Answers \cup {Corrupt}]
         /\ [upto |-> Size(pool), body |-> body] \in sections'
         /\ \A s \in sections : s.upto <= Size(record) => s \in sections'
<1>1. Size(pool) \in Nat /\ Size(record) \in Nat /\ Size(pool) > Size(record)
  BY SizeType DEF IInv, TypeOK, ResumeInv, GrowthInv
<1>2. sections \subseteq [upto : Nat \ {0}, body : Answers \cup {Corrupt}]
  BY DEF IInv, TypeOK
<1>3. \A s \in sections : s.upto \in Nat
  BY <1>2
<1> QED
  BY <1>1, <1>2, <1>3 DEF WithSection

\* Both steps that write the checkpoint file.
LEMMA SectionStep ==
  ASSUME IInv, OpenSection \/ WriteSection
  PROVE  IInv'
<1>1. PICK body \in {Corrupt, section} : sections' = WithSection(body)
  BY DEF OpenSection, WriteSection
<1>2. pc \in {"save", "saving"} /\ pc' \in {"saving", "saved"}
  BY DEF OpenSection, WriteSection
<1>3. UNCHANGED <<input, record, exit, cnt, pool, section, answer>>
  BY DEF OpenSection, WriteSection
<1>4. body \in Answers \cup {Corrupt}
  BY <1>1 DEF IInv, TypeOK
<1>5. /\ sections' \subseteq [upto : Nat \ {0}, body : Answers \cup {Corrupt}]
      /\ [upto |-> Size(pool), body |-> body] \in sections'
      /\ \A s \in sections : s.upto <= Size(record) => s \in sections'
  BY <1>1, <1>2, <1>4, WithSectionFacts
<1>6. TypeOK'
  BY <1>2, <1>3, <1>5 DEF IInv, TypeOK
<1>7. (StoppedInv /\ ResumeInv /\ GrowthInv /\ SectionInv /\ ArrivalNumbers)'
  BY <1>2, <1>3 DEF IInv, StoppedInv, ResumeInv, GrowthInv, SectionInv,
                    ArrivalNumbers
<1>8. WrittenInv'
  <2>1. ASSUME pc' = "saved" PROVE body = section
    <3>1. sections' = WithSection(section)
      BY <2>1 DEF OpenSection, WriteSection
    <3>2. section \in Answers
      BY DEF IInv, TypeOK
    <3>3. [upto |-> Size(pool), body |-> section] \in sections'
      BY <3>1 DEF WithSection
    <3>4. \A s \in sections' : s.upto = Size(pool) => s.body = section
      BY <3>1 DEF WithSection
    <3> QED
      BY <1>5, <3>4
  <2> QED
    BY <1>2, <1>3, <1>5, <2>1 DEF WrittenInv
<1>9. NoLostAnswer'
  BY <1>2, <1>3, <1>5 DEF IInv, NoLostAnswer, Saved
<1> QED
  BY <1>6, <1>7, <1>8, <1>9 DEF IInv

\* Opening the record: what it covered and the section are both on disk.
LEMMA OpenRecordStep ==
  ASSUME IInv, OpenRecord
  PROVE  IInv'
<1> USE DEF OpenRecord
<1>1. TypeOK'
  BY DEF IInv, TypeOK
<1>2. (StoppedInv /\ ResumeInv /\ GrowthInv /\ SectionInv /\ NoLostAnswer)'
  BY DEF StoppedInv, ResumeInv, GrowthInv, SectionInv, NoLostAnswer
<1>3. ArrivalNumbers'
  BY DEF IInv, ArrivalNumbers
<1>4. Saved(pool)
  <2>1. record \in Pools /\ pool \in Pools /\ Saved(record)
    BY DEF IInv, TypeOK, ResumeInv, NoLostAnswer
  <2>2. Size(record) \in Nat /\ Size(pool) \in Nat /\ Size(pool) > Size(record)
    BY <2>1, SizeType DEF IInv, GrowthInv
  <2>3. sections \subseteq [upto : Nat \ {0}, body : Answers \cup {Corrupt}]
    BY DEF IInv, TypeOK
  <2> SUFFICES ASSUME NEW m \in Known(pool), answer[m] # NoSql
               PROVE  \E s \in sections : /\ s.upto <= Size(pool)
                                          /\ s.body # Corrupt
                                          /\ s.body[m] = answer[m]
    BY DEF Saved
  <2>4. CASE m \in Known(record)
    <3>1. PICK s \in sections : /\ s.upto <= Size(record)
                                /\ s.body # Corrupt
                                /\ s.body[m] = answer[m]
      BY <2>1, <2>4 DEF Saved
    <3>2. s.upto <= Size(pool)
      BY <2>2, <2>3, <3>1
    <3> QED
      BY <3>1, <3>2
  <2>5. CASE m \notin Known(record)
    <3>1. section[m] = answer[m]
      BY <2>5 DEF IInv, SectionInv
    <3>2. [upto |-> Size(pool), body |-> section] \in sections
      BY DEF IInv, WrittenInv
    <3>3. section # Corrupt
      BY CorruptAssumption DEF IInv, TypeOK
    <3> QED
      BY <2>2, <3>1, <3>2, <3>3
  <2> QED
    BY <2>4, <2>5
<1>5. WrittenInv'
  BY <1>4 DEF WrittenInv, Saved
<1> QED
  BY <1>1, <1>2, <1>3, <1>5 DEF IInv

\* Writing the record: the pool becomes what later runs resume from.
LEMMA WriteRecordStep ==
  ASSUME IInv, WriteRecord
  PROVE  IInv'
<1> USE DEF WriteRecord
<1>1. TypeOK'
  BY DEF IInv, TypeOK, NoAnswers, Answers
<1>2. (StoppedInv /\ GrowthInv /\ WrittenInv)'
  BY DEF StoppedInv, GrowthInv, WrittenInv
<1>3. ResumeInv' /\ SectionInv'
  <2>1. pool # Corrupt
    BY CorruptAssumption DEF IInv, TypeOK
  <2> QED
    BY <2>1 DEF ResumeInv, SectionInv, Extends
<1>4. ArrivalNumbers' /\ NoLostAnswer'
  BY DEF IInv, ArrivalNumbers, NoLostAnswer, WrittenInv, Saved
<1> QED
  BY <1>1, <1>2, <1>3, <1>4 DEF IInv

\* Every step keeps the invariant.
LEMMA NextIInv == IInv /\ [Next]_vars => IInv'
<1> SUFFICES ASSUME IInv, [Next]_vars PROVE IInv'
  OBVIOUS
<1>1. CASE Start
  <2> USE <1>1 DEF Start, files
  <2>1. TypeOK' /\ ArrivalNumbers' /\ NoLostAnswer'
    BY DEF IInv, TypeOK, ArrivalNumbers, NoLostAnswer, Saved
  <2>2. (StoppedInv /\ ResumeInv /\ GrowthInv /\ SectionInv /\ WrittenInv)'
    BY DEF StoppedInv, ResumeInv, Extends, GrowthInv, SectionInv, WrittenInv
  <2> QED
    BY <2>1, <2>2 DEF IInv
<1>2. CASE StartFails
  BY <1>2, StopStep DEF StartFails
<1>3. CASE Skip
  <2> USE <1>3 DEF Skip, files
  <2>1. cnt + 1 \in 0..Len(input)
    BY ExtractAssumption DEF IInv, TypeOK
  <2>2. TypeOK' /\ ArrivalNumbers' /\ NoLostAnswer'
    BY <2>1 DEF IInv, TypeOK, ArrivalNumbers, NoLostAnswer, Saved
  <2>3. (StoppedInv /\ ResumeInv /\ GrowthInv /\ SectionInv /\ WrittenInv)'
    BY DEF IInv, StoppedInv, ResumeInv, GrowthInv, SectionInv, WrittenInv
  <2> QED
    BY <2>2, <2>3 DEF IInv
<1>4. CASE CallFails
  <2>1. pc' \in {"loop", "save"} /\ NoSql \in Sqls \cup {NoSql}
    BY <1>4 DEF CallFails, IInv, TypeOK
  <2> QED
    BY <1>4, <2>1, CallStep DEF CallFails
<1>5. ASSUME NEW sql \in Sqls \cup {NoSql}, CallReturns(sql)
      PROVE  IInv'
  <2>1. pc' \in {"loop", "save"}
    BY <1>5 DEF CallReturns
  <2> QED
    BY <1>5, <2>1, CallStep DEF CallReturns
<1>6. CASE OpenSection \/ WriteSection
  BY <1>6, SectionStep
<1>7. CASE OpenRecord
  BY <1>7, OpenRecordStep
<1>8. CASE WriteRecord
  BY <1>8, WriteRecordStep
<1>9. CASE Finish
  BY <1>9, StopStep DEF Finish
<1>10. CASE Crash
  BY <1>10, StopStep DEF Crash
<1>11. CASE Refilter
  <2> USE <1>11 DEF Refilter, files
  <2>1. TypeOK'
    <3>1. input' \in Inputs /\ cnt' = 0
      BY DEF IInv, StoppedInv
    <3>2. Len(input') \in Nat
      BY <3>1, ExtractAssumption
    <3> QED
      BY <3>1, <3>2 DEF IInv, TypeOK
  <2>2. ArrivalNumbers' /\ NoLostAnswer'
    BY DEF IInv, ArrivalNumbers, NoLostAnswer, Saved
  <2>3. (StoppedInv /\ ResumeInv /\ GrowthInv /\ SectionInv /\ WrittenInv)'
    BY DEF IInv, StoppedInv, ResumeInv, GrowthInv, SectionInv, WrittenInv
  <2> QED
    BY <2>1, <2>2, <2>3 DEF IInv
<1>12. CASE UNCHANGED vars
  BY <1>12 DEF vars, IInv, TypeOK, StoppedInv, ResumeInv, Extends, GrowthInv,
               SectionInv, WrittenInv, ArrivalNumbers, Numbered, NoLostAnswer,
               Saved, Known, Size
<1> QED
  BY <1>1, <1>2, <1>3, <1>4, <1>5, <1>6, <1>7, <1>8, <1>9, <1>10, <1>11, <1>12
     DEF Next, Run, Call, Checkpoint

\* The invariant holds in every reachable state.
LEMMA SpecIInv == Spec => []IInv
<1> QED
  BY InitIInv, NextIInv, PTL DEF Spec

-----------------------------------------------------------------------------
\* Type correctness: every variable keeps its type, and checkpoint files are
\* named after positive numbers.
THEOREM TypeCorrect == Spec => []TypeOK
<1>1. IInv => TypeOK
  BY DEF IInv
<1> QED
  BY <1>1, SpecIInv, PTL

\* Resuming continues the numbering, whatever crashed in between: no two
\* messages of the pool or of the record share a number.
THEOREM NumbersAreUnique == Spec => []ArrivalNumbers
<1>1. IInv => ArrivalNumbers
  BY DEF IInv
<1> QED
  BY <1>1, SpecIInv, PTL

\* An answer whose message is recorded is in a readable checkpoint file.
THEOREM NoAnswerIsLost == Spec => []NoLostAnswer
<1>1. IInv => NoLostAnswer
  BY DEF IInv
<1> QED
  BY <1>1, SpecIInv, PTL

\* No step overwrites or removes a checkpoint file the record covers.
THEOREM RecordedCheckpointsAreFinal == Spec => CheckpointsAreFinal
<1>1. IInv /\ [Next]_vars =>
        [record # Corrupt =>
           \A s \in sections : s.upto <= Size(record) => s \in sections']_vars
  <2> SUFFICES ASSUME IInv, Next, record # Corrupt,
                      NEW s \in sections, s.upto <= Size(record)
               PROVE  s \in sections'
    OBVIOUS
  <2>1. CASE OpenSection \/ WriteSection
    <3>1. PICK body \in {Corrupt, section} : sections' = WithSection(body)
      BY <2>1 DEF OpenSection, WriteSection
    <3>2. section \in Answers
      BY DEF IInv, TypeOK
    <3>3. pc \in {"save", "saving"} /\ body \in Answers \cup {Corrupt}
      BY <2>1, <3>1, <3>2 DEF OpenSection, WriteSection
    <3> QED
      BY <3>1, <3>3, WithSectionFacts
  <2>2. CASE UNCHANGED sections
    BY <2>2
  <2> QED
    BY <2>1, <2>2
       DEF Next, Run, Call, Checkpoint, files, Start, StartFails, Skip,
           CallFails, CallReturns, OpenRecord, WriteRecord, Finish, Crash,
           Refilter
<1> QED
  BY <1>1, SpecIInv, PTL DEF Spec, CheckpointsAreFinal

\* No step asks for the answer of a recorded message again.
THEOREM RecordedAnswersAreKept == Spec => RecordedAnswersAreFinal
<1>1. IInv /\ [Next]_vars =>
        [record # Corrupt =>
           \A m \in Known(record) : answer'[m] = answer[m]]_vars
  <2> SUFFICES ASSUME IInv, Next, record # Corrupt, NEW m \in Known(record)
               PROVE  answer'[m] = answer[m]
    OBVIOUS
  <2>1. ASSUME pc = "loop", pool[Current] = 0,
               NEW sql, answer' = [answer EXCEPT ![Current] = sql]
        PROVE  answer'[m] = answer[m]
    <3>1. m # Current /\ m \in MsgIds
      BY <2>1 DEF IInv, ResumeInv, Extends, Known
    <3>2. answer \in Answers
      BY DEF IInv, TypeOK
    <3> QED
      BY <3>1, <3>2, <2>1 DEF Answers
  <2>2. CASE Call
    BY <2>1, <2>2 DEF Call, CallFails, CallReturns
  <2>3. CASE UNCHANGED answer
    BY <2>3
  <2> QED
    BY <2>2, <2>3
       DEF Next, Run, Checkpoint, files, Start, StartFails, Skip,
           OpenSection, WriteSection, OpenRecord, WriteRecord, Finish, Crash,
           Refilter
<1> QED
  BY <1>1, SpecIInv, PTL DEF Spec, RecordedAnswersAreFinal
=============================================================================
