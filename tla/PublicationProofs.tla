------------------------- MODULE PublicationProofs --------------------------
(***************************************************************************)
(* Why what is published is what its author sent, for every number of      *)
(* pages, posts, files and failures: board posts behind their cache, and   *)
(* the submissions of notices and lost items.                              *)
(***************************************************************************)
EXTENDS BoardPosts, Submissions, FiniteSetTheorems, SequenceTheorems,
        WellFoundedInduction, TLAPS

\* Board posts. A draft is private, a post is published whole, and every
\* image in one is an upload of its own tab that was checked.

Docs == Documents \cup {NoDocument}

Files == (Tabs \cup Edits) \X ((UNION {ImagesOf[t] : t \in Tabs}) \cup Edits) \X Nat
PostRows ==
    [status : {"absent", "draft", "published", "gone"}, hidden : BOOLEAN, doc : Docs,
     images : SUBSET Files]
Sendings ==
    [doc : Docs, images : SUBSET Files, status : {"none", "draft", "published"}]

BoardShapes ==
    /\ post \in PostRows /\ uploads \subseteq Files /\ public \subseteq Files /\ votes \subseteq Voters
    /\ sent \in [Callers -> Sendings]
    /\ publishing \in [Tabs -> Docs \ {Blank}]
    /\ voting \in [Voters -> {"idle", "checked"}]

Pages ==
    [doc : Docs, knows : BOOLEAN, typed : Nat, want : Docs, attempt : Nat,
     step : {"editing", "saving", "uploading", "updating", "publishing", "done"}]

NothingBefore ==
    post.status = "absent" => uploads = {} /\ public = {} /\ \A c \in Callers : sent[c] = NoCall

ImagesAreUploads ==
    /\ post.images \subseteq uploads /\ public \subseteq uploads
    /\ Exists => \A c \in Callers : sent[c].images \subseteq uploads

\* Published is for good, and what was checked for a published post stays right.
CheckedForReaders ==
    \A c \in Callers : sent[c].status = "published" =>
        post.status = "published" /\ sent[c].doc # Blank /\ sent[c].images \subseteq public

VotesFit ==
    \A v \in Voters : v \in votes \/ voting[v] = "checked" =>
        post.status = "published" /\ (v \in revised \/ Choice[v] \in PollOf[post.doc])

BoardInv ==
    /\ BoardShapes /\ page \in [Tabs -> Pages] /\ NothingBefore /\ ImagesAreUploads /\ CheckedForReaders /\ VotesFit
    /\ WholePost /\ PrivateDraft /\ AttachedOnce

PostInv ==
    /\ BoardShapes /\ NothingBefore /\ ImagesAreUploads /\ CheckedForReaders /\ VotesFit
    /\ WholePost /\ PrivateDraft

LEMMA CheckingKeeps ==
    ASSUME BoardInv, NEW c \in Callers, NEW d \in Docs, NEW is, CheckUpdate(c, d, is),
           UNCHANGED <<post, uploads, public, votes, publishing, voting, loose, revised>>
    PROVE  PostInv'
<1>a. /\ sent'[c].doc = d /\ sent'[c].images = is /\ sent'[c].status = post.status
      /\ sent'[c] = [doc |-> d, images |-> is, status |-> post.status] /\ Exists /\ is \subseteq uploads
      /\ post.status = "published" => d # Blank /\ is \subseteq public
      /\ \A x \in Callers : x # c => sent'[x] = sent[x]
      /\ sent' = [x \in Callers |-> sent'[x]]
      /\ UNCHANGED <<post, uploads, public, votes, publishing, voting, loose, revised>>
  BY DEF CheckUpdate, BoardInv, BoardShapes
<1>1. BoardShapes'
  <2>1. [doc |-> d, images |-> is, status |-> post.status] \in Sendings
    BY <1>a DEF Sendings, BoardInv, BoardShapes, PostRows, Exists
  <2>2. sent' \in [Callers -> Sendings]
    BY <2>1, <1>a DEF BoardInv, BoardShapes
  <2> QED BY <2>2, <1>a DEF BoardInv, BoardShapes
<1>2. NothingBefore'
  BY <1>a DEF NothingBefore, Exists
<1>3. ImagesAreUploads'
  BY <1>a DEF BoardInv, ImagesAreUploads
<1>4. CheckedForReaders'
  BY <1>a DEF BoardInv, CheckedForReaders
<1>5. VotesFit'
  BY DEF BoardInv, VotesFit
<1>6. WholePost'
  BY DEF BoardInv, WholePost
<1>7. PrivateDraft'
  BY DEF BoardInv, PrivateDraft
<1> QED BY <1>1, <1>2, <1>3, <1>4, <1>5, <1>6, <1>7 DEF PostInv

LEMMA WritingKeeps ==
    ASSUME BoardInv, NEW c \in Callers, WriteUpdate(c),
           UNCHANGED <<uploads, public, votes, publishing, voting>>
    PROVE  PostInv'
<1>a. /\ sent'[c] = NoCall /\ \A x \in Callers : x # c => sent'[x] = sent[x]
      /\ sent' = [x \in Callers |-> sent'[x]] /\ sent[c] \in Sendings
      /\ Exists => /\ post'.doc = sent[c].doc /\ post'.images = sent[c].images
                   /\ post'.status = post.status /\ post' \in PostRows
                   /\ loose' = (sent[c].status # post.status) /\ revised' = RevisedBy(sent[c].doc)
      /\ ~Exists => UNCHANGED <<post, loose, revised>>
      /\ UNCHANGED <<uploads, public, votes, publishing, voting>>
  BY DEF WriteUpdate, Written, BoardInv, BoardShapes, PostRows, Sendings
<1>1. BoardShapes'
  <2>1. NoCall \in Sendings
    BY DEF Sendings, NoCall, Docs
  <2>2. sent' \in [Callers -> Sendings]
    BY <2>1, <1>a DEF BoardInv, BoardShapes
  <2> QED BY <2>2, <1>a DEF BoardInv, BoardShapes
<1>2. NothingBefore'
  BY <1>a DEF BoardInv, NothingBefore
<1>3. ImagesAreUploads'
  BY <1>a DEF BoardInv, ImagesAreUploads, Exists, NoCall
<1>4. CheckedForReaders'
  BY <1>a DEF BoardInv, CheckedForReaders, NoCall
<1>5. VotesFit'
  BY <1>a DEF RevisedBy, BoardInv, VotesFit
<1>6. WholePost'
  <2>1. CASE ~Exists
    BY <2>1, <1>a DEF BoardInv, WholePost
  <2>2. CASE Exists /\ sent[c].status # post.status
    BY <2>2, <1>a DEF WholePost
  <2>3. CASE post.status = "published" /\ sent[c].status = "published"
    BY <2>3, <1>a DEF Exists, BoardInv, CheckedForReaders, WholePost
  <2>4. CASE post.status = "draft"
    BY <2>4, <1>a DEF Exists, WholePost
  <2> QED BY <2>1, <2>2, <2>3, <2>4 DEF Exists
<1>7. PrivateDraft'
  BY <1>a DEF BoardInv, PrivateDraft
<1> QED BY <1>1, <1>2, <1>3, <1>4, <1>5, <1>6, <1>7 DEF PostInv

LEMMA TypeKeeps ==
    ASSUME BoardInv, NEW t \in Tabs, NEW d \in Documents, Type(t, d)
    PROVE  BoardInv'
<1>p. page' \in [Tabs -> Pages] /\ \A u \in Tabs : u # t => page'[u] = page[u]
  <2> DEFINE row == [doc |-> d, knows |-> page[t].knows, typed |-> page[t].typed + 1,
                   step |-> page[t].step, want |-> page[t].want, attempt |-> page[t].attempt]
  <2>1. page \in [Tabs -> Pages] /\ page[t] \in Pages
    BY DEF BoardInv
  <2>2. row \in Pages
    BY <2>1 DEF Pages, Docs, BoardInv, BoardShapes, PostRows, Sendings, Callers, Savers
  <2>3. /\ page' = [u \in Tabs |-> page'[u]] /\ page'[t] = row
        /\ \A u \in Tabs : u # t => page'[u] = page[u]
    BY <2>1 DEF Type, Pages
  <2> HIDE DEF row
  <2> QED BY <2>1, <2>2, <2>3
<1>q. page'[t].attempt = page[t].attempt /\ page[t].attempt \in Nat
  BY DEF Type, BoardInv, Pages
<1>1. BoardShapes'
  BY DEF Type, BoardInv, BoardShapes
<1>2. NothingBefore'
  BY DEF Type, BoardInv, NothingBefore
<1>3. ImagesAreUploads'
  BY DEF Type, BoardInv, ImagesAreUploads, Exists
<1>4. CheckedForReaders'
  BY DEF Type, BoardInv, CheckedForReaders
<1>5. VotesFit'
  BY DEF Type, BoardInv, VotesFit
<1>6. WholePost'
  BY DEF Type, BoardInv, WholePost
<1>7. PrivateDraft'
  BY DEF Type, BoardInv, PrivateDraft
<1>8. AttachedOnce'
  BY <1>p, <1>q DEF Type, BoardInv, AttachedOnce
<1> QED BY <1>p, <1>1, <1>2, <1>3, <1>4, <1>5, <1>6, <1>7, <1>8 DEF BoardInv

LEMMA ResumeDraftKeeps ==
    ASSUME BoardInv, NEW t \in Tabs, ResumeDraft(t)
    PROVE  BoardInv'
<1>p. page' \in [Tabs -> Pages] /\ \A u \in Tabs : u # t => page'[u] = page[u]
  <2> DEFINE row == [doc |-> post.doc, knows |-> TRUE, typed |-> page[t].typed,
                   step |-> page[t].step, want |-> page[t].want, attempt |-> page[t].attempt]
  <2>1. page \in [Tabs -> Pages] /\ page[t] \in Pages
    BY DEF BoardInv
  <2>2. row \in Pages
    BY <2>1 DEF Pages, Docs, BoardInv, BoardShapes, PostRows, Sendings, Callers, Savers
  <2>3. /\ page' = [u \in Tabs |-> page'[u]] /\ page'[t] = row
        /\ \A u \in Tabs : u # t => page'[u] = page[u]
    BY <2>1 DEF ResumeDraft, Pages
  <2> HIDE DEF row
  <2> QED BY <2>1, <2>2, <2>3
<1>q. page'[t].attempt = page[t].attempt /\ page[t].attempt \in Nat
  BY DEF ResumeDraft, BoardInv, Pages
<1>1. BoardShapes'
  BY DEF ResumeDraft, BoardInv, BoardShapes
<1>2. NothingBefore'
  BY DEF ResumeDraft, NothingBefore
<1>3. ImagesAreUploads'
  BY DEF ResumeDraft, BoardInv, ImagesAreUploads, Exists
<1>4. CheckedForReaders'
  BY DEF ResumeDraft, BoardInv, CheckedForReaders
<1>5. VotesFit'
  BY DEF ResumeDraft, BoardInv, VotesFit
<1>6. WholePost'
  BY DEF ResumeDraft, WholePost
<1>7. PrivateDraft'
  BY DEF ResumeDraft, BoardInv, PrivateDraft
<1>8. AttachedOnce'
  BY <1>p, <1>q DEF ResumeDraft, BoardInv, AttachedOnce
<1> QED BY <1>p, <1>1, <1>2, <1>3, <1>4, <1>5, <1>6, <1>7, <1>8 DEF BoardInv

LEMMA CreateDraftKeeps ==
    ASSUME BoardInv, NEW t \in Tabs, NEW step \in {"editing", "uploading"}, CreateDraft(t, step)
    PROVE  BoardInv'
<1>p. page' \in [Tabs -> Pages] /\ \A u \in Tabs : u # t => page'[u] = page[u]
  <2> DEFINE row == [doc |-> page[t].doc, knows |-> TRUE, typed |-> page[t].typed,
                   step |-> step, want |-> page[t].doc, attempt |-> page[t].attempt]
  <2>1. page \in [Tabs -> Pages] /\ page[t] \in Pages
    BY DEF BoardInv
  <2>2. row \in Pages
    BY <2>1 DEF Pages, Docs, BoardInv, BoardShapes, PostRows, Sendings, Callers, Savers
  <2>3. /\ page' = [u \in Tabs |-> page'[u]] /\ page'[t] = row
        /\ \A u \in Tabs : u # t => page'[u] = page[u]
    BY <2>1 DEF CreateDraft, Pages
  <2> HIDE DEF row
  <2> QED BY <2>1, <2>2, <2>3
<1>q. page'[t].attempt = page[t].attempt /\ page[t].attempt \in Nat
  BY DEF CreateDraft, BoardInv, Pages
<1>1. BoardShapes'
  <2>1. page[t].doc \in Docs /\ post \in PostRows
    BY <1>p DEF BoardInv, BoardShapes, Pages
  <2>2. post' = [post EXCEPT !.status = "draft", !.doc = page[t].doc]
    BY DEF CreateDraft
  <2>3. post' \in PostRows
    BY <2>1, <2>2 DEF PostRows
  <2> QED BY <2>3 DEF CreateDraft, BoardInv, BoardShapes
<1>2. NothingBefore'
  BY DEF CreateDraft, NothingBefore
<1>3. ImagesAreUploads'
  BY DEF CreateDraft, BoardInv, NothingBefore, ImagesAreUploads, NoCall
<1>4. CheckedForReaders'
  BY DEF CreateDraft, BoardInv, CheckedForReaders
<1>5. VotesFit'
  BY DEF CreateDraft, BoardInv, VotesFit
<1>6. WholePost'
  BY DEF CreateDraft, WholePost
<1>7. PrivateDraft'
  BY DEF CreateDraft, BoardInv, NothingBefore, PrivateDraft
<1>8. AttachedOnce'
  BY <1>p, <1>q DEF CreateDraft, BoardInv, AttachedOnce
<1> QED BY <1>p, <1>1, <1>2, <1>3, <1>4, <1>5, <1>6, <1>7, <1>8 DEF BoardInv

LEMMA SaveDraftKeeps ==
    ASSUME BoardInv, NEW t \in Tabs, SaveDraft(t)
    PROVE  BoardInv'
<1>p. page' = page /\ page \in [Tabs -> Pages]
  BY DEF SaveDraft, BoardInv
<1>1. PostInv'
  <2>1. <<"autosave", t>> \in Callers
    BY DEF Callers, Savers
  <2>2. page[t].doc \in Docs
    BY <1>p, BoardAssumption DEF Docs, BoardInv, Pages
  <2> QED BY <2>1, <2>2, CheckingKeeps DEF SaveDraft
<1>2. AttachedOnce'
  BY <1>p DEF SaveDraft, BoardInv, AttachedOnce
<1> QED BY <1>p, <1>1, <1>2 DEF BoardInv, PostInv

LEMMA SubmitKeeps ==
    ASSUME BoardInv, NEW t \in Tabs, Submit(t)
    PROVE  BoardInv'
<1>p. page' \in [Tabs -> Pages] /\ \A u \in Tabs : u # t => page'[u] = page[u]
  <2> DEFINE row == [doc |-> page[t].doc, knows |-> page[t].knows, typed |-> page[t].typed,
                   step |-> "saving", want |-> page[t].doc, attempt |-> page[t].attempt]
  <2>1. page \in [Tabs -> Pages] /\ page[t] \in Pages
    BY DEF BoardInv
  <2>2. row \in Pages
    BY <2>1 DEF Pages, Docs, BoardInv, BoardShapes, PostRows, Sendings, Callers, Savers
  <2>3. /\ page' = [u \in Tabs |-> page'[u]] /\ page'[t] = row
        /\ \A u \in Tabs : u # t => page'[u] = page[u]
    BY <2>1 DEF Submit, Pages
  <2> HIDE DEF row
  <2> QED BY <2>1, <2>2, <2>3
<1>q. page'[t].attempt = page[t].attempt /\ page[t].attempt \in Nat
  BY DEF Submit, BoardInv, Pages
<1>1. PostInv'
  <2>1. <<"autosave", t>> \in Callers
    BY DEF Callers, Savers
  <2>2. page[t].doc \in Docs
    BY <1>p, BoardAssumption DEF Docs, BoardInv, Pages
  <2>3. CASE sent[<<"autosave", t>>] = NoCall
    BY <2>1, <2>2, <2>3, CheckingKeeps DEF Submit
  <2>4. CASE sent[<<"autosave", t>>] # NoCall
    <3>1. UNCHANGED <<post, uploads, public, votes, sent, publishing, voting, loose, revised>>
      BY <2>4 DEF Submit
    <3> QED BY <3>1 DEF PostInv, BoardInv, BoardShapes, NothingBefore, ImagesAreUploads, CheckedForReaders,
                        VotesFit, WholePost, PrivateDraft, Exists
  <2> QED BY <2>3, <2>4
<1>2. AttachedOnce'
  BY <1>p, <1>q DEF Submit, BoardInv, AttachedOnce
<1> QED BY <1>p, <1>1, <1>2 DEF BoardInv, PostInv

LEMMA FinishSaveKeeps ==
    ASSUME BoardInv, NEW t \in Tabs, FinishSave(t)
    PROVE  BoardInv'
<1>p. page' \in [Tabs -> Pages] /\ \A u \in Tabs : u # t => page'[u] = page[u]
  <2> DEFINE row == [doc |-> page[t].doc, knows |-> page[t].knows, typed |-> page[t].typed,
                   step |-> IF page[t].step = "saving" THEN "uploading" ELSE page[t].step, want |-> page[t].want, attempt |-> page[t].attempt]
  <2>1. page \in [Tabs -> Pages] /\ page[t] \in Pages
    BY DEF BoardInv
  <2>2. row \in Pages
    BY <2>1 DEF Pages, Docs, BoardInv, BoardShapes, PostRows, Sendings, Callers, Savers
  <2>3. /\ page' = [u \in Tabs |-> page'[u]] /\ page'[t] = row
        /\ \A u \in Tabs : u # t => page'[u] = page[u]
    BY <2>1 DEF FinishSave, Pages
  <2> HIDE DEF row
  <2> QED BY <2>1, <2>2, <2>3
<1>q. page'[t].attempt = page[t].attempt /\ page[t].attempt \in Nat
  BY DEF FinishSave, BoardInv, Pages
<1>1. PostInv'
  <2>1. <<"autosave", t>> \in Callers
    BY DEF Callers, Savers
  <2> QED BY <2>1, WritingKeeps DEF FinishSave
<1>2. AttachedOnce'
  BY <1>p, <1>q DEF FinishSave, BoardInv, AttachedOnce
<1> QED BY <1>p, <1>1, <1>2 DEF BoardInv, PostInv

LEMMA UploadImageKeeps ==
    ASSUME BoardInv, NEW t \in Tabs, NEW i \in ImagesOf[t], UploadImage(t, i)
    PROVE  BoardInv'
<1>p. page' = page /\ page \in [Tabs -> Pages]
  BY DEF UploadImage, BoardInv
<1>1. BoardShapes'
  <2>1. <<t, i, page[t].attempt>> \in Files
    BY <1>p DEF Files, Pages
  <2> QED BY <2>1 DEF UploadImage, BoardInv, BoardShapes
<1>2. NothingBefore'
  BY DEF UploadImage, NothingBefore, Exists
<1>3. ImagesAreUploads'
  BY DEF UploadImage, BoardInv, ImagesAreUploads
<1>4. CheckedForReaders'
  BY DEF UploadImage, BoardInv, CheckedForReaders
<1>5. VotesFit'
  BY DEF UploadImage, BoardInv, VotesFit
<1>6. WholePost'
  BY DEF UploadImage, BoardInv, WholePost
<1>7. PrivateDraft'
  BY DEF UploadImage, BoardInv, PrivateDraft
<1>8. AttachedOnce'
  BY <1>p DEF UploadImage, Pages, BoardInv, AttachedOnce
<1> QED BY <1>p, <1>1, <1>2, <1>3, <1>4, <1>5, <1>6, <1>7, <1>8 DEF BoardInv

LEMMA SubmissionFailsKeeps ==
    ASSUME BoardInv, NEW t \in Tabs, SubmissionFails(t)
    PROVE  BoardInv'
<1>p. page' \in [Tabs -> Pages] /\ \A u \in Tabs : u # t => page'[u] = page[u]
  <2> DEFINE row == [doc |-> page[t].doc, knows |-> page[t].knows, typed |-> page[t].typed,
                   step |-> "editing", want |-> page[t].want, attempt |-> page[t].attempt + 1]
  <2>1. page \in [Tabs -> Pages] /\ page[t] \in Pages
    BY DEF BoardInv
  <2>2. row \in Pages
    BY <2>1 DEF Pages, Docs, BoardInv, BoardShapes, PostRows, Sendings, Callers, Savers
  <2>3. /\ page' = [u \in Tabs |-> page'[u]] /\ page'[t] = row
        /\ \A u \in Tabs : u # t => page'[u] = page[u]
    BY <2>1 DEF SubmissionFails, Pages
  <2> HIDE DEF row
  <2> QED BY <2>1, <2>2, <2>3
<1>q. page'[t].attempt = page[t].attempt + 1 /\ page[t].attempt \in Nat
  BY DEF SubmissionFails, BoardInv, Pages
<1>1. BoardShapes'
  BY DEF SubmissionFails, BoardInv, BoardShapes
<1>2. NothingBefore'
  BY DEF SubmissionFails, BoardInv, NothingBefore
<1>3. ImagesAreUploads'
  BY DEF SubmissionFails, BoardInv, ImagesAreUploads, Exists
<1>4. CheckedForReaders'
  BY DEF SubmissionFails, BoardInv, CheckedForReaders
<1>5. VotesFit'
  BY DEF SubmissionFails, BoardInv, VotesFit
<1>6. WholePost'
  BY DEF SubmissionFails, BoardInv, WholePost
<1>7. PrivateDraft'
  BY DEF SubmissionFails, BoardInv, PrivateDraft
<1>8. AttachedOnce'
  BY <1>p, <1>q DEF SubmissionFails, BoardInv, AttachedOnce
<1> QED BY <1>p, <1>1, <1>2, <1>3, <1>4, <1>5, <1>6, <1>7, <1>8 DEF BoardInv

LEMMA CheckFinalKeeps ==
    ASSUME BoardInv, NEW t \in Tabs, CheckFinal(t)
    PROVE  BoardInv'
<1>p. page' \in [Tabs -> Pages] /\ \A u \in Tabs : u # t => page'[u] = page[u]
  <2> DEFINE row == [doc |-> page[t].doc, knows |-> page[t].knows, typed |-> page[t].typed,
                   step |-> "updating", want |-> page[t].want, attempt |-> page[t].attempt]
  <2>1. page \in [Tabs -> Pages] /\ page[t] \in Pages
    BY DEF BoardInv
  <2>2. row \in Pages
    BY <2>1 DEF Pages, Docs, BoardInv, BoardShapes, PostRows, Sendings, Callers, Savers
  <2>3. /\ page' = [u \in Tabs |-> page'[u]] /\ page'[t] = row
        /\ \A u \in Tabs : u # t => page'[u] = page[u]
    BY <2>1 DEF CheckFinal, Pages
  <2> HIDE DEF row
  <2> QED BY <2>1, <2>2, <2>3
<1>q. page'[t].attempt = page[t].attempt /\ page[t].attempt \in Nat
  BY DEF CheckFinal, BoardInv, Pages
<1>1. PostInv'
  <2>1. <<"submit", t>> \in Callers
    BY DEF Callers, Savers
  <2>2. page[t].want \in Docs
    BY <1>p, BoardAssumption DEF Docs, BoardInv, Pages
  <2> QED BY <2>1, <2>2, CheckingKeeps DEF CheckFinal
<1>2. AttachedOnce'
  BY <1>p, <1>q DEF CheckFinal, BoardInv, AttachedOnce
<1> QED BY <1>p, <1>1, <1>2 DEF BoardInv, PostInv

LEMMA WriteFinalKeeps ==
    ASSUME BoardInv, NEW t \in Tabs, WriteFinal(t)
    PROVE  BoardInv'
<1>p. page' \in [Tabs -> Pages] /\ \A u \in Tabs : u # t => page'[u] = page[u]
  <2> DEFINE row == [doc |-> page[t].doc, knows |-> page[t].knows, typed |-> page[t].typed,
                   step |-> "publishing", want |-> page[t].want, attempt |-> page[t].attempt]
  <2>1. page \in [Tabs -> Pages] /\ page[t] \in Pages
    BY DEF BoardInv
  <2>2. row \in Pages
    BY <2>1 DEF Pages, Docs, BoardInv, BoardShapes, PostRows, Sendings, Callers, Savers
  <2>3. /\ page' = [u \in Tabs |-> page'[u]] /\ page'[t] = row
        /\ \A u \in Tabs : u # t => page'[u] = page[u]
    BY <2>1 DEF WriteFinal, Pages
  <2> HIDE DEF row
  <2> QED BY <2>1, <2>2, <2>3
<1>q. page'[t].attempt = page[t].attempt /\ page[t].attempt \in Nat
  BY DEF WriteFinal, BoardInv, Pages
<1>1. PostInv'
  <2>1. <<"submit", t>> \in Callers
    BY DEF Callers, Savers
  <2> QED BY <2>1, WritingKeeps DEF WriteFinal
<1>2. AttachedOnce'
  BY <1>p, <1>q DEF WriteFinal, BoardInv, AttachedOnce
<1> QED BY <1>p, <1>1, <1>2 DEF BoardInv, PostInv

LEMMA CheckPublicationKeeps ==
    ASSUME BoardInv, NEW t \in Tabs, CheckPublication(t)
    PROVE  BoardInv'
<1>p. page' = page /\ page \in [Tabs -> Pages]
  BY DEF CheckPublication, BoardInv
<1>1. BoardShapes'
  BY DEF CheckPublication, BoardInv, BoardShapes, PostRows
<1>2. NothingBefore'
  BY DEF CheckPublication, NothingBefore, Exists
<1>3. ImagesAreUploads'
  BY DEF CheckPublication, BoardInv, ImagesAreUploads
<1>4. CheckedForReaders'
  BY DEF CheckPublication, BoardInv, CheckedForReaders
<1>5. VotesFit'
  BY DEF CheckPublication, BoardInv, VotesFit
<1>6. WholePost'
  BY DEF CheckPublication, BoardInv, WholePost
<1>7. PrivateDraft'
  BY DEF CheckPublication, BoardInv, PrivateDraft
<1>8. AttachedOnce'
  BY <1>p DEF CheckPublication, BoardInv, AttachedOnce
<1> QED BY <1>p, <1>1, <1>2, <1>3, <1>4, <1>5, <1>6, <1>7, <1>8 DEF BoardInv

LEMMA PublishKeeps ==
    ASSUME BoardInv, NEW t \in Tabs, Publish(t)
    PROVE  BoardInv'
<1>p. page' \in [Tabs -> Pages] /\ \A u \in Tabs : u # t => page'[u] = page[u]
  <2> DEFINE row == [doc |-> page[t].doc, knows |-> page[t].knows, typed |-> page[t].typed,
                   step |-> "done", want |-> page[t].want, attempt |-> page[t].attempt]
  <2>1. page \in [Tabs -> Pages] /\ page[t] \in Pages
    BY DEF BoardInv
  <2>2. row \in Pages
    BY <2>1 DEF Pages, Docs, BoardInv, BoardShapes, PostRows, Sendings, Callers, Savers
  <2>3. /\ page' = [u \in Tabs |-> page'[u]] /\ page'[t] = row
        /\ \A u \in Tabs : u # t => page'[u] = page[u]
    BY <2>1 DEF Publish, Pages
  <2> HIDE DEF row
  <2> QED BY <2>1, <2>2, <2>3
<1>q. page'[t].attempt = page[t].attempt /\ page[t].attempt \in Nat
  BY DEF Publish, BoardInv, Pages
<1>1. BoardShapes'
  BY BoardAssumption DEF Publish, BoardInv, BoardShapes, PostRows, Docs
<1>2. NothingBefore'
  BY DEF Publish, BoardInv, BoardShapes, PostRows, NothingBefore
<1>3. ImagesAreUploads'
  BY DEF Publish, BoardInv, ImagesAreUploads, Exists
<1>4. CheckedForReaders'
  BY DEF Publish, BoardInv, CheckedForReaders
<1>5. VotesFit'
  BY DEF Publish, BoardInv, VotesFit
<1>6. WholePost'
  <2>1. CASE Exists /\ publishing[t] = post.doc
    <3>1. post'.doc = post.doc /\ post'.images = post.images /\ public' = public \cup uploads
      BY <2>1 DEF Publish, BoardInv, BoardShapes
    <3>2. post.doc # Blank /\ post.images \subseteq uploads
      BY <2>1 DEF BoardInv, BoardShapes, ImagesAreUploads
    <3> QED BY <3>1, <3>2 DEF WholePost
  <2>2. CASE ~Exists
    BY <2>2 DEF Publish, WholePost, Exists
  <2>3. CASE publishing[t] # post.doc
    BY <2>3 DEF Publish, WholePost
  <2> QED BY <2>1, <2>2, <2>3
<1>7. PrivateDraft'
  BY DEF Publish, PrivateDraft, Exists
<1>8. AttachedOnce'
  BY <1>p, <1>q DEF Publish, BoardInv, AttachedOnce
<1> QED BY <1>p, <1>1, <1>2, <1>3, <1>4, <1>5, <1>6, <1>7, <1>8 DEF BoardInv

LEMMA DeletePostKeeps ==
    ASSUME BoardInv, DeletePost
    PROVE  BoardInv'
<1>p. page' = page /\ page \in [Tabs -> Pages]
  BY DEF DeletePost, BoardInv
<1>1. CASE post.status = "draft"
  <2>1. /\ post' \in PostRows /\ post'.status = "gone" /\ post'.images = {}
        /\ uploads' = {} /\ public' = {} /\ votes' = {}
        /\ UNCHANGED <<page, sent, publishing, voting, loose, revised>>
    BY <1>1 DEF DeletePost, BoardInv, BoardShapes, PostRows, Docs
  <2>2. ~Exists' /\ \A v \in Voters : voting[v] # "checked"
    BY <2>1, <1>1 DEF Exists, BoardInv, VotesFit
  <2>3. BoardShapes'
    BY <2>1, <2>2, <1>1 DEF BoardInv, BoardShapes
  <2>4. NothingBefore'
    BY <2>1, <2>2, <1>1 DEF BoardInv, NothingBefore, BoardShapes
  <2>5. ImagesAreUploads'
    BY <2>1, <2>2, <1>1 DEF BoardInv, ImagesAreUploads, BoardShapes
  <2>6. CheckedForReaders'
    BY <2>1, <2>2, <1>1 DEF BoardInv, CheckedForReaders, BoardShapes
  <2>7. VotesFit'
    BY <2>1, <2>2, <1>1 DEF BoardInv, VotesFit, BoardShapes
  <2>8. WholePost'
    BY <2>1, <2>2, <1>1 DEF BoardInv, WholePost, BoardShapes
  <2>9. PrivateDraft'
    BY <2>1, <2>2, <1>1 DEF BoardInv, PrivateDraft, BoardShapes
  <2>10. AttachedOnce'
    BY <2>1, <2>2, <1>1 DEF BoardInv, AttachedOnce, BoardShapes
  <2> QED BY <1>p, <2>3, <2>4, <2>5, <2>6, <2>7, <2>8, <2>9, <2>10 DEF BoardInv
<1>2. CASE post.status = "published"
  <2>1. /\ post' \in PostRows /\ post'.status = post.status /\ post'.images = post.images
        /\ post'.doc = post.doc
        /\ UNCHANGED <<uploads, public, votes, page, sent, publishing, voting, loose, revised>>
    <3>1. post' = [post EXCEPT !.hidden = TRUE] /\ post \in PostRows
      BY <1>2 DEF DeletePost, BoardInv, BoardShapes
    <3>2. UNCHANGED <<uploads, public, votes, page, sent, publishing, voting, loose, revised>>
      BY <1>2 DEF DeletePost
    <3> QED BY <3>1, <3>2 DEF PostRows
  <2>2. BoardShapes'
    BY <2>1, <1>2 DEF BoardInv, BoardShapes, Exists
  <2>3. NothingBefore'
    BY <2>1, <1>2 DEF BoardInv, NothingBefore, Exists, BoardShapes
  <2>4. ImagesAreUploads'
    BY <2>1, <1>2 DEF BoardInv, ImagesAreUploads, Exists, BoardShapes
  <2>5. CheckedForReaders'
    BY <2>1, <1>2 DEF BoardInv, CheckedForReaders, Exists, BoardShapes
  <2>6. VotesFit'
    BY <2>1, <1>2 DEF BoardInv, VotesFit, Exists, BoardShapes
  <2>7. WholePost'
    BY <2>1, <1>2 DEF BoardInv, WholePost, Exists, BoardShapes
  <2>8. PrivateDraft'
    BY <2>1, <1>2 DEF BoardInv, PrivateDraft, Exists, BoardShapes
  <2>9. AttachedOnce'
    BY <2>1, <1>2 DEF BoardInv, AttachedOnce, Exists, BoardShapes
  <2> QED BY <1>p, <2>2, <2>3, <2>4, <2>5, <2>6, <2>7, <2>8, <2>9 DEF BoardInv
<1> QED BY <1>1, <1>2 DEF DeletePost, Exists

LEMMA ShowPostKeeps ==
    ASSUME BoardInv, ShowPost
    PROVE  BoardInv'
<1>p. page' = page /\ page \in [Tabs -> Pages]
  BY DEF ShowPost, BoardInv
<1>1. BoardShapes'
  BY DEF ShowPost, BoardInv, BoardShapes, PostRows
<1>2. NothingBefore'
  BY DEF ShowPost, BoardInv, BoardShapes, PostRows, NothingBefore
<1>3. ImagesAreUploads'
  BY DEF ShowPost, BoardInv, ImagesAreUploads, Exists
<1>4. CheckedForReaders'
  BY DEF ShowPost, BoardInv, CheckedForReaders
<1>5. VotesFit'
  BY DEF ShowPost, BoardInv, VotesFit
<1>6. WholePost'
  BY DEF ShowPost, BoardInv, WholePost
<1>7. PrivateDraft'
  BY DEF ShowPost, BoardInv, PrivateDraft
<1>8. AttachedOnce'
  BY <1>p DEF ShowPost, BoardInv, AttachedOnce
<1> QED BY <1>p, <1>1, <1>2, <1>3, <1>4, <1>5, <1>6, <1>7, <1>8 DEF BoardInv

LEMMA AttachPictureKeeps ==
    ASSUME BoardInv, NEW e \in Edits, AttachPicture(e)
    PROVE  BoardInv'
<1>p. page' = page /\ page \in [Tabs -> Pages]
  BY DEF AttachPicture, BoardInv
<1>1. BoardShapes'
  <2>1. <<e, e, 0>> \in Files
    BY DEF Files
  <2> QED BY <2>1 DEF AttachPicture, BoardInv, BoardShapes
<1>2. NothingBefore'
  BY DEF AttachPicture, NothingBefore
<1>3. ImagesAreUploads'
  BY DEF AttachPicture, BoardInv, ImagesAreUploads, Exists
<1>4. CheckedForReaders'
  BY DEF AttachPicture, BoardInv, CheckedForReaders
<1>5. VotesFit'
  BY DEF AttachPicture, BoardInv, VotesFit
<1>6. WholePost'
  BY DEF AttachPicture, BoardInv, WholePost
<1>7. PrivateDraft'
  BY DEF AttachPicture, PrivateDraft
<1>8. AttachedOnce'
  BY <1>p DEF AttachPicture, BoardInv, AttachedOnce
<1> QED BY <1>p, <1>1, <1>2, <1>3, <1>4, <1>5, <1>6, <1>7, <1>8 DEF BoardInv

LEMMA CheckEditKeeps ==
    ASSUME BoardInv, NEW e \in Edits, CheckEdit(e)
    PROVE  BoardInv'
<1>p. page' = page /\ page \in [Tabs -> Pages]
  BY DEF CheckEdit, BoardInv
<1>1. PostInv'
  <2>1. <<"edit", e>> \in Callers
    BY DEF Callers, Savers
  <2>2. EditedTo[e] \in Docs
    BY <1>p, BoardAssumption DEF Docs, BoardInv, Pages
  <2> QED BY <2>1, <2>2, CheckingKeeps DEF CheckEdit
<1>2. AttachedOnce'
  BY <1>p DEF CheckEdit, BoardInv, AttachedOnce
<1> QED BY <1>p, <1>1, <1>2 DEF BoardInv, PostInv

LEMMA WriteEditKeeps ==
    ASSUME BoardInv, NEW e \in Edits, WriteEdit(e)
    PROVE  BoardInv'
<1>p. page' = page /\ page \in [Tabs -> Pages]
  BY DEF WriteEdit, BoardInv
<1>1. PostInv'
  <2>1. <<"edit", e>> \in Callers
    BY DEF Callers, Savers
  <2> QED BY <2>1, WritingKeeps DEF WriteEdit
<1>2. AttachedOnce'
  BY <1>p DEF WriteEdit, BoardInv, AttachedOnce
<1> QED BY <1>p, <1>1, <1>2 DEF BoardInv, PostInv

LEMMA CheckVoteKeeps ==
    ASSUME BoardInv, NEW v \in Voters, CheckVote(v)
    PROVE  BoardInv'
<1>p. page' = page /\ page \in [Tabs -> Pages]
  BY DEF CheckVote, BoardInv
<1>1. BoardShapes'
  BY DEF CheckVote, BoardInv, BoardShapes
<1>2. NothingBefore'
  BY DEF CheckVote, NothingBefore
<1>3. ImagesAreUploads'
  BY DEF CheckVote, BoardInv, ImagesAreUploads, Exists
<1>4. CheckedForReaders'
  BY DEF CheckVote, BoardInv, CheckedForReaders
<1>5. VotesFit'
  BY DEF CheckVote, BoardInv, VotesFit
<1>6. WholePost'
  BY DEF CheckVote, BoardInv, WholePost
<1>7. PrivateDraft'
  BY DEF CheckVote, PrivateDraft
<1>8. AttachedOnce'
  BY <1>p DEF CheckVote, BoardInv, AttachedOnce
<1> QED BY <1>p, <1>1, <1>2, <1>3, <1>4, <1>5, <1>6, <1>7, <1>8 DEF BoardInv

LEMMA CastVoteKeeps ==
    ASSUME BoardInv, NEW v \in Voters, CastVote(v)
    PROVE  BoardInv'
<1>p. page' = page /\ page \in [Tabs -> Pages]
  BY DEF CastVote, BoardInv
<1>1. BoardShapes'
  BY DEF CastVote, BoardInv, BoardShapes
<1>2. NothingBefore'
  BY DEF CastVote, BoardInv, NothingBefore
<1>3. ImagesAreUploads'
  BY DEF CastVote, BoardInv, ImagesAreUploads, Exists
<1>4. CheckedForReaders'
  BY DEF CastVote, BoardInv, CheckedForReaders
<1>5. VotesFit'
  BY DEF CastVote, BoardInv, VotesFit
<1>6. WholePost'
  BY DEF CastVote, BoardInv, WholePost
<1>7. PrivateDraft'
  BY DEF CastVote, BoardInv, PrivateDraft
<1>8. AttachedOnce'
  BY <1>p DEF CastVote, BoardInv, AttachedOnce
<1> QED BY <1>p, <1>1, <1>2, <1>3, <1>4, <1>5, <1>6, <1>7, <1>8 DEF BoardInv

LEMMA BoardBegins == BoardInit => BoardInv
<1> SUFFICES ASSUME BoardInit PROVE BoardInv
  OBVIOUS
<1>1. /\ post \in PostRows /\ post.status = "absent" /\ post.images = {} /\ ~Exists
      /\ uploads = {} /\ public = {} /\ votes = {}
      /\ \A v \in Voters : voting[v] = "idle"
      /\ \A c \in Callers : sent[c] = NoCall
  BY DEF BoardInit, PostRows, Docs, Exists
<1>2. NoCall \in Sendings /\ NoCall.status = "none" /\ NoCall.images = {}
  BY DEF NoCall, Sendings, Docs
<1>3. BoardShapes
  BY <1>1, <1>2, BoardAssumption DEF BoardInit, BoardShapes, Docs
<1>4. page \in [Tabs -> Pages]
  BY BoardAssumption DEF BoardInit, Pages, Docs
<1> QED BY <1>1, <1>2, <1>3, <1>4
        DEF BoardInv, NothingBefore, ImagesAreUploads, CheckedForReaders, VotesFit, WholePost,
            PrivateDraft, AttachedOnce

LEMMA BoardInvHolds == BoardSpec => []BoardInv
<1>1. ASSUME BoardInv, [BoardNext]_boardVars
      PROVE  BoardInv'
  <2>1. ASSUME NEW t \in Tabs, \/ ResumeDraft(t) \/ SaveDraft(t) \/ FinishSave(t) \/ Submit(t)
                               \/ SubmissionFails(t) \/ CheckFinal(t) \/ WriteFinal(t)
                               \/ CheckPublication(t) \/ Publish(t)
        PROVE  BoardInv'
    BY <1>1, <2>1, ResumeDraftKeeps, SaveDraftKeeps, FinishSaveKeeps, SubmitKeeps,
       SubmissionFailsKeeps, CheckFinalKeeps, WriteFinalKeeps, CheckPublicationKeeps, PublishKeeps
  <2>2. ASSUME NEW t \in Tabs, \/ \E d \in Documents : Type(t, d)
                               \/ \E i \in ImagesOf[t] : UploadImage(t, i)
                               \/ \E step \in {"editing", "uploading"} : CreateDraft(t, step)
        PROVE  BoardInv'
    BY <1>1, <2>2, TypeKeeps, UploadImageKeeps, CreateDraftKeeps
  <2>3. CASE \/ DeletePost \/ ShowPost \/ \E e \in Edits : AttachPicture(e) \/ CheckEdit(e) \/ WriteEdit(e)
             \/ \E v \in Voters : CheckVote(v) \/ CastVote(v)
    BY <1>1, <2>3, DeletePostKeeps, ShowPostKeeps, AttachPictureKeeps, CheckEditKeeps, WriteEditKeeps,
       CheckVoteKeeps, CastVoteKeeps
  <2>4. CASE UNCHANGED boardVars
    BY <1>1, <2>4 DEF boardVars, BoardInv, BoardShapes, NothingBefore, ImagesAreUploads,
       CheckedForReaders, VotesFit, WholePost, PrivateDraft, AttachedOnce, Exists
  <2> QED BY <1>1, <2>1, <2>2, <2>3, <2>4 DEF BoardNext
<1> QED BY <1>1, BoardBegins, PTL DEF BoardSpec

\* What is published is whole, nothing of a draft is public, files are attached once
\* and votes count, however many pages and calls overtake each other (WholePost,
\* PrivateDraft, AttachedOnce, VotesCount).
THEOREM SoundPosts == BoardSpec => []PostsAreSound
<1>1. BoardInv => PostsAreSound
  BY DEF BoardInv, BoardShapes, VotesFit, PostsAreSound, VotesCount
<1> QED BY <1>1, BoardInvHolds, PTL

\* The post, its uploads, what is public and the votes are of their kind, for any tabs,
\* documents and voters (posts.service.ts).
THEOREM PostTypes == BoardSpec => []BoardTypeOK
<1>1. BoardInv => BoardTypeOK
  BY DEF BoardInv, BoardShapes, PostRows, Docs, ImagesAreUploads, BoardTypeOK
<1> QED BY <1>1, BoardInvHolds, PTL

-----------------------------------------------------------------------------
\* Submissions. A page knows the row it made until it gave it up; what it was
\* answered about is attached to that row; so a page that finishes has
\* completed it.

FormItems == UNION {Pictures[p] \cup Enclosures[p] : p \in FormPages}
RowsPosted == [by : Writers, no : Nat, there : BOOLEAN, shows : SUBSET Nat]
Received == [n : Nat, item : FormItems]
Steps == {"form", "creating", "uploading", "discarding", "finished", "closed"}

SubmissionShapes ==
    /\ posted \in Seq(RowsPosted)
    /\ attached \subseteq [n : Nat, row : Nat, item : FormItems, by : FormPages]
    /\ arrivals \in Nat
    /\ at \in [FormPages -> Steps] /\ target \in [FormPages -> Nat]
    /\ number \in [Writers -> Nat] /\ base \in [Correctors -> SUBSET Nat]
    /\ got \in [FormPages -> SUBSET Received]

NumbersAreBounded ==
    \E most \in Nat : /\ \A r \in DOMAIN posted : posted[r].no <= most
                      /\ \A w \in Writers : number[w] <= most

\* The files of row r: one for an item, and one of an item among the numbers ns.
Filed(r, item) == \E f \in attached : f.row = r /\ f.item = item
Shown(r, item, ns) == \E f \in attached : f.row = r /\ f.item = item /\ f.n \in ns
Complete(w, r) ==
    /\ \A item \in Pictures[w] \cup Enclosures[w] : Filed(r, item)
    /\ \A item \in Pictures[w] : Shown(r, item, posted[r].shows)

\* A page knows the row it made, until it gave it up.
RowsAreKnown ==
    \A r \in There \ abandoned :
        target[posted[r].by] = r /\ at[posted[r].by] \in {"uploading", "discarding", "finished"}

TargetsAreOwn ==
    /\ \A p \in FormPages : target[p] \in {0} \cup DOMAIN posted
    /\ \A w \in Writers : at[w] \in {"uploading", "discarding", "finished"} =>
           target[w] \in DOMAIN posted /\ posted[target[w]].by = w

\* What a page was answered about is attached to its row.
AnswersAreTrue ==
    \A p \in FormPages :
        /\ at[p] \in {"form", "creating", "discarding"} => got[p] = {}
        /\ target[p] \in There =>
               \A g \in got[p] : \E f \in attached : f.row = target[p] /\ f.n = g.n /\ f.item = g.item

GoneWasErased ==
    \A w \in Writers : at[w] \in {"uploading", "finished"} /\ target[w] \notin There => target[w] \in erased

FinishedIsComplete ==
    \A w \in Writers : at[w] = "finished" /\ target[w] \in There \ crossed => Complete(w, target[w])

\* A correction that may still be written keeps the images the writer put in.
CorrectionsKeepImages ==
    \A w \in Writers, c \in Correctors :
        at[w] = "finished" /\ target[w] \in There \ crossed /\ target[c] = target[w] =>
            \A item \in Pictures[w] : Shown(target[w], item, base[c])

NumbersAreFiles(r, ns) == \A n \in ns : \E f \in attached : f.row = r /\ f.n = n
ShownAreFiles ==
    /\ \A r \in There : NumbersAreFiles(r, posted[r].shows)
    /\ \A c \in Correctors : target[c] \in There => NumbersAreFiles(target[c], base[c])

SentOnce ==
    /\ \A f \in attached : f.by \in stumbled \/ \E g \in got[f.by] : g.n = f.n /\ g.item = f.item
    /\ \A p \in FormPages : \A g, h \in got[p] : g.item = h.item => g = h

SubmissionInv ==
    /\ SubmissionShapes /\ NumbersAreBounded /\ RowsAreKnown /\ TargetsAreOwn /\ AnswersAreTrue
    /\ GoneWasErased /\ FinishedIsComplete /\ CorrectionsKeepImages /\ ShownAreFiles /\ SentOnce

LEMMA RowsAre ==
    ASSUME SubmissionShapes
    PROVE  /\ posted \in Seq(RowsPosted) /\ There \subseteq DOMAIN posted /\ DOMAIN posted \subseteq Nat \ {0}
           /\ \A r \in DOMAIN posted : /\ posted[r] \in RowsPosted /\ posted[r].by \in Writers
                                       /\ posted[r].no \in Nat /\ posted[r].shows \in SUBSET Nat
                                       /\ posted[r].by \in FormPages
<1>1. posted \in Seq(RowsPosted) /\ DOMAIN posted = 1 .. Len(posted) /\ Len(posted) \in Nat
  BY LenProperties DEF SubmissionShapes
<1>2. \A r \in DOMAIN posted : posted[r] \in RowsPosted
  BY <1>1, ElementOfSeq
<1> QED BY <1>1, <1>2 DEF There, RowsPosted, FormPages

LEMMA MinIsSmallest ==
    ASSUME NEW S \in SUBSET Nat, S # {}
    PROVE  Min(S) \in S /\ \A y \in S : Min(S) <= y
<1> DEFINE Less == {p \in Nat \X Nat : p[1] < p[2]}
<1>0. IsWellFoundedOn(Less, Nat)
  <2>1. IsWellFoundedOn(OpToRel(<, Nat), Nat)
    BY NatLessThanWellFounded, Zenon
  <2> QED BY <2>1, Zenon DEF OpToRel
<1>1. \E x \in S : \A y \in S : ~(<<y, x>> \in Less)
  <2> HIDE DEF Less
  <2> QED BY <1>0, WFMin
<1>2. PICK x \in S : \A y \in S : ~(<<y, x>> \in Less)
  BY <1>1
<1>3. ASSUME NEW y \in S
      PROVE  x <= y
  <2>1. <<y, x>> \in Nat \X Nat /\ <<y, x>>[1] = y /\ <<y, x>>[2] = x
    OBVIOUS
  <2>2. ~(y < x)
    BY <1>2, <2>1
  <2>3. x \in Nat /\ y \in Nat
    OBVIOUS
  <2> QED BY <2>2, <2>3
<1> QED BY <1>3 DEF Min

LEMMA LastNumberIs ==
    ASSUME SubmissionShapes, NumbersAreBounded
    PROVE  LastNumber \in Nat
<1> DEFINE S == {0} \cup {posted[r].no : r \in There}
           Above == {m \in Nat : \A x \in S : x <= m}
<1>1. S \in SUBSET Nat /\ 0 \in S /\ Above \in SUBSET Nat
  BY RowsAre
<1>2. Above # {}
  <2>1. PICK most \in Nat : \A r \in DOMAIN posted : posted[r].no <= most
    BY DEF NumbersAreBounded
  <2>2. most \in Above
    BY <2>1 DEF There
  <2> QED BY <2>2
<1>3. LastNumber = Max(S)
  BY DEF LastNumber
<1>4. \E x \in S : \A y \in S : x >= y
  <2> DEFINE m == Min(Above)
  <2>1. m \in Above /\ \A y \in Above : m <= y
    <3> HIDE DEF Above
    <3> QED BY <1>1, <1>2, MinIsSmallest
  <2>2. CASE m \in S
    BY <2>1, <2>2, <1>1
  <2>3. CASE m \notin S
    <3>1. m # 0 /\ m \in Nat /\ \A x \in S : x \in Nat /\ x <= m /\ x # m
      BY <2>1, <2>3, <1>1
    <3>2. m - 1 \in Above
      <4> HIDE DEF m, S
      <4> QED BY <3>1
    <3>3. ~(m <= m - 1)
      <4> HIDE DEF m
      <4> QED BY <3>1
    <3> QED BY <2>1, <3>2, <3>3
  <2> QED BY <2>2, <2>3
<1> HIDE DEF S
<1>5. Max(S) \in S
  BY <1>4 DEF Max
<1> QED BY <1>1, <1>3, <1>5

\* Row Len(posted) + 1 comes to the others.
LEMMA InsertedRow ==
    ASSUME SubmissionShapes, NEW w \in Writers, Inserted(w)
    PROVE  /\ posted' \in Seq(RowsPosted) /\ DOMAIN posted' = DOMAIN posted \cup {Len(posted) + 1}
           /\ Len(posted) + 1 \in Nat \ {0} /\ Len(posted) + 1 \notin DOMAIN posted
           /\ Len(posted') = Len(posted) + 1
           /\ \A r \in DOMAIN posted : posted'[r] = posted[r]
           /\ posted'[Len(posted) + 1].by = w /\ posted'[Len(posted) + 1].no = number[w]
           /\ posted'[Len(posted) + 1].shows = {}
           /\ There' = There \cup {Len(posted) + 1}
<1> DEFINE row == [by |-> w, no |-> number[w], there |-> TRUE, shows |-> {}]
<1>1. posted \in Seq(RowsPosted) /\ row \in RowsPosted /\ posted' = Append(posted, row)
  BY DEF SubmissionShapes, RowsPosted, Inserted
<1>2. row.there /\ row.by = w /\ row.no = number[w] /\ row.shows = {}
  OBVIOUS
<1> HIDE DEF row
<1>3. /\ posted' \in Seq(RowsPosted) /\ Len(posted') = Len(posted) + 1 /\ Len(posted) \in Nat
      /\ DOMAIN posted = 1 .. Len(posted) /\ DOMAIN posted' = 1 .. Len(posted) + 1
      /\ \A r \in DOMAIN posted : posted'[r] = posted[r]
      /\ posted'[Len(posted) + 1] = row
  BY <1>1, AppendProperties
<1>4. /\ DOMAIN posted' = DOMAIN posted \cup {Len(posted) + 1} /\ Len(posted) + 1 \notin DOMAIN posted
      /\ Len(posted) + 1 \in Nat \ {0}
  BY <1>3
<1>5. There' = There \cup {Len(posted) + 1}
  BY <1>2, <1>3, <1>4 DEF There
<1> QED BY <1>2, <1>3, <1>4, <1>5

LEMMA RemovedRow ==
    ASSUME SubmissionShapes, NEW r \in There, Removed(r)
    PROVE  /\ posted' \in Seq(RowsPosted) /\ DOMAIN posted' = DOMAIN posted
           /\ \A s \in DOMAIN posted : /\ posted'[s].by = posted[s].by /\ posted'[s].no = posted[s].no
                                       /\ posted'[s].shows = posted[s].shows
           /\ There' = There \ {r}
           /\ attached' \subseteq attached /\ \A f \in attached : f.row # r => f \in attached'
<1>1. posted \in Seq(RowsPosted) /\ posted' = [posted EXCEPT ![r].there = FALSE] /\ r \in DOMAIN posted
  BY DEF SubmissionShapes, Removed, There
<1>2. [posted[r] EXCEPT !.there = FALSE] \in RowsPosted /\ posted[r] \in RowsPosted
  BY <1>1, RowsAre DEF RowsPosted
<1>3. posted' \in Seq(RowsPosted) /\ DOMAIN posted' = DOMAIN posted
  BY <1>1, <1>2, ExceptSeq
<1>4. /\ posted'[r] = [posted[r] EXCEPT !.there = FALSE]
      /\ \A s \in DOMAIN posted : s # r => posted'[s] = posted[s]
  BY <1>1
<1>5. /\ posted'[r].by = posted[r].by /\ posted'[r].no = posted[r].no
      /\ posted'[r].shows = posted[r].shows /\ posted'[r].there = FALSE
  BY <1>2, <1>4 DEF RowsPosted
<1>6. There' = There \ {r}
  BY <1>1, <1>3, <1>4, <1>5 DEF There
<1> QED BY <1>3, <1>4, <1>5, <1>6 DEF Removed

\* The images a row shows after page p has written its text.
Images(p) == ShownImages(p) \cup (IF p \in Correctors THEN base[p] ELSE {})

LEMMA RewrittenRow ==
    ASSUME SubmissionShapes, NEW p \in FormPages, Rewritten(p)
    PROVE  /\ posted' \in Seq(RowsPosted) /\ DOMAIN posted' = DOMAIN posted /\ There' = There
           /\ \A s \in DOMAIN posted : /\ posted'[s].by = posted[s].by /\ posted'[s].no = posted[s].no
                                       /\ s # target[p] => posted'[s].shows = posted[s].shows
           /\ target[p] \in There => posted'[target[p]].shows = Images(p)
           /\ crossed \subseteq crossed'
           /\ \A c \in Correctors : c # p /\ target[c] = target[p] => target[p] \in crossed'
<1>0. posted \in Seq(RowsPosted) /\ \A s \in DOMAIN posted : posted[s] \in RowsPosted
  BY ElementOfSeq, LenProperties DEF SubmissionShapes
<1>1. CASE target[p] \in There
  <2> DEFINE row == [posted[target[p]] EXCEPT !.shows = Images(p)]
  <2>1. posted' = [posted EXCEPT ![target[p]] = row] /\ target[p] \in DOMAIN posted
    BY <1>1 DEF Rewritten, There, Images
  <2>2. Images(p) \in SUBSET Nat
    BY DEF Images, ShownImages, SubmissionShapes, Received
  <2>3. /\ row \in RowsPosted /\ row.by = posted[target[p]].by /\ row.no = posted[target[p]].no
        /\ row.there = posted[target[p]].there /\ row.shows = Images(p)
    BY <1>0, <2>1, <2>2 DEF RowsPosted
  <2> HIDE DEF row
  <2>4. posted' \in Seq(RowsPosted) /\ DOMAIN posted' = DOMAIN posted
    BY <1>0, <2>1, <2>3, ExceptSeq
  <2>5. posted'[target[p]] = row /\ \A s \in DOMAIN posted : s # target[p] => posted'[s] = posted[s]
    BY <2>1
  <2>6. There' = There
    BY <2>1, <2>3, <2>4, <2>5 DEF There
  <2> QED BY <1>1, <2>1, <2>3, <2>4, <2>5, <2>6 DEF Rewritten
<1>2. CASE target[p] \notin There
  BY <1>0, <1>2 DEF Rewritten, There
<1> QED BY <1>1, <1>2

LEMMA NextItemsAre ==
    ASSUME NEW p \in FormPages, NEW item \in NextItems(p)
    PROVE  item \in FormItems /\ \A g \in got[p] : g.item # item
BY DEF NextItems, StillToSend, FormItems

LEMMA NothingToSend ==
    ASSUME NEW p \in FormPages, NextItems(p) = {}
    PROVE  \A item \in Pictures[p] \cup Enclosures[p] : \E g \in got[p] : g.item = item
BY DEF NextItems, StillToSend

\* A file comes to the others.
LEMMA StoredFile ==
    ASSUME SubmissionShapes, NEW p \in FormPages, NEW item \in NextItems(p), Stores(p, item)
    PROVE  /\ \E f \in [n : Nat, row : Nat, item : FormItems, by : FormPages] :
                 /\ attached' = attached \cup {f}
                 /\ f.n = arrivals' /\ f.row = target[p] /\ f.item = item /\ f.by = p
           /\ arrivals' \in Nat /\ target[p] \in There
<1> DEFINE f == [n |-> arrivals', row |-> target[p], item |-> item, by |-> p]
<1>1. arrivals' \in Nat /\ attached' = attached \cup {f} /\ target[p] \in There
  BY DEF Stores, SubmissionShapes
<1>2. f \in [n : Nat, row : Nat, item : FormItems, by : FormPages]
  BY <1>1, NextItemsAre DEF SubmissionShapes
<1>3. f.n = arrivals' /\ f.row = target[p] /\ f.item = item /\ f.by = p
  OBVIOUS
<1> HIDE DEF f
<1> QED BY <1>1, <1>2, <1>3

LEMMA ReadNumberKeeps ==
    ASSUME SubmissionInv, NEW w \in Writers, ReadNumber(w)
    PROVE  SubmissionInv'
<1>a. /\ w \in FormPages /\ at[w] = "form" /\ at'[w] = "creating" /\ \A q \in FormPages : q # w => at'[q] = at[q]
      /\ w \in Writers /\ w \notin Correctors
      /\ UNCHANGED posted /\ There' = There
      /\ UNCHANGED <<attached, arrivals, crossed, abandoned, erased, stumbled, target, base, got>>
  BY SubmissionAssumption
     DEF ReadNumber, Move, FormPages, rowVars, historyVars, There, SubmissionInv,
         SubmissionShapes
<1>b. SubmissionShapes /\ Writers \subseteq FormPages /\ Correctors \subseteq FormPages /\ Writers \cap Correctors = {}
  BY SubmissionAssumption DEF SubmissionInv, FormPages
<1>c. /\ There \subseteq DOMAIN posted /\ 0 \notin There
      /\ \A x \in DOMAIN posted : posted[x].by \in Writers /\ posted[x].by \in FormPages /\ posted[x].no \in Nat
  BY <1>b, RowsAre
<1>1. SubmissionShapes'
  BY <1>a, <1>c, LastNumberIs
     DEF ReadNumber, Move, FormPages, historyVars, SubmissionInv, SubmissionShapes, Steps
<1>2. NumbersAreBounded'
  <2>b. PICK most \in Nat : (\A x \in DOMAIN posted : posted[x].no <= most) /\ \A v \in Writers : number[v] <= most
    BY DEF SubmissionInv, NumbersAreBounded
  <2>1. LastNumber \in Nat
    BY <1>b, LastNumberIs DEF SubmissionInv
  <2>2. /\ number'[w] \in {0, LastNumber + 1} /\ \A v \in Writers : v # w => number'[v] = number[v]
        /\ \A v \in Writers : number[v] \in Nat
    BY <1>b DEF ReadNumber, SubmissionShapes
  <2>3. most + LastNumber + 1 \in Nat /\ \A m \in Nat : m <= most => m <= most + LastNumber + 1
    BY <2>1
  <2>4. \A x \in DOMAIN posted' : posted'[x].no <= most + LastNumber + 1
    BY <2>b, <2>3, <1>a, <1>c
  <2>5. \A v \in Writers : number'[v] <= most + LastNumber + 1
    BY <2>b, <2>1, <2>2, <2>3
  <2> QED BY <2>3, <2>4, <2>5 DEF NumbersAreBounded
<1>3. RowsAreKnown'
  BY <1>a, <1>b, <1>c DEF SubmissionInv, RowsAreKnown
<1>4. TargetsAreOwn'
  BY <1>a, <1>b, <1>c DEF SubmissionInv, TargetsAreOwn
<1>5. AnswersAreTrue'
  BY <1>a, <1>b, <1>c DEF SubmissionInv, AnswersAreTrue
<1>6. GoneWasErased'
  BY <1>a, <1>b, <1>c DEF SubmissionInv, GoneWasErased
<1>7. FinishedIsComplete'
  BY <1>a, <1>b, <1>c DEF SubmissionInv, FinishedIsComplete, Complete, Filed, Shown
<1>8. CorrectionsKeepImages'
  BY <1>a, <1>b, <1>c DEF SubmissionInv, CorrectionsKeepImages, FinishedIsComplete, Complete, Filed, Shown
<1>9. ShownAreFiles'
  BY <1>a, <1>b, <1>c DEF SubmissionInv, ShownAreFiles, NumbersAreFiles
<1>10. SentOnce'
  BY <1>a, <1>b, <1>c DEF SubmissionInv, SentOnce
<1> QED BY <1>1, <1>2, <1>3, <1>4, <1>5, <1>6, <1>7, <1>8, <1>9, <1>10 DEF SubmissionInv

LEMMA CreateNoticeKeeps ==
    ASSUME SubmissionInv, NEW w \in Writers, CreateNotice(w)
    PROVE  SubmissionInv'
<1> DEFINE n == Len(posted) + 1
<1>a. /\ w \in FormPages /\ at[w] = "creating" /\ at'[w] = "uploading" /\ \A q \in FormPages : q # w => at'[q] = at[q]
      /\ w \in Writers /\ w \notin Correctors
      /\ Inserted(w) /\ target'[w] = Len(posted) + 1
      /\ \A q \in FormPages : q # w => target'[q] = target[q]
      /\ UNCHANGED <<attached, arrivals, crossed, abandoned, erased, stumbled, number, base, got>>
  BY SubmissionAssumption
     DEF CreateNotice, Move, FormPages, historyVars, Inserted, SubmissionInv, SubmissionShapes
<1>b. SubmissionShapes /\ Writers \subseteq FormPages /\ Correctors \subseteq FormPages /\ Writers \cap Correctors = {}
  BY SubmissionAssumption DEF SubmissionInv, FormPages
<1>c. /\ There \subseteq DOMAIN posted /\ 0 \notin There
      /\ \A x \in DOMAIN posted : posted[x].by \in Writers /\ posted[x].by \in FormPages /\ posted[x].no \in Nat
  BY <1>b, RowsAre
<1>s. posted' \in Seq(RowsPosted)
  BY <1>a, <1>b, InsertedRow
<1>r. /\ DOMAIN posted' = DOMAIN posted \cup {n}
      /\ n \in Nat \ {0} /\ n \notin DOMAIN posted
      /\ \A r \in DOMAIN posted : posted'[r] = posted[r]
      /\ posted'[n].by = w /\ posted'[n].shows = {} /\ posted'[n].no = number[w]
      /\ There' = There \cup {n}
      /\ target'[w] = n
  BY <1>a, <1>b, InsertedRow
<1>t. \A q \in FormPages : target[q] # n
  BY <1>r, <1>a DEF SubmissionInv, TargetsAreOwn
<1> HIDE DEF n
<1>1. SubmissionShapes'
  BY <1>b, <1>s DEF CreateNotice, Move, SubmissionShapes, Steps
<1>2. NumbersAreBounded'
  <2>b. PICK most \in Nat : (\A x \in DOMAIN posted : posted[x].no <= most) /\ \A v \in Writers : number[v] <= most
    BY DEF SubmissionInv, NumbersAreBounded
  <2>1. (\A x \in DOMAIN posted' : posted'[x].no <= most) /\ \A v \in Writers : number'[v] <= most
    BY <2>b, <1>a, <1>b, <1>c, <1>r
  <2> QED BY <2>1 DEF NumbersAreBounded
<1>3. RowsAreKnown'
  <2> SUFFICES ASSUME NEW x \in There', x \notin abandoned'
             PROVE  target'[posted'[x].by] = x /\ at'[posted'[x].by] \in {"uploading", "discarding", "finished"}
    BY DEF RowsAreKnown
  <2>1. CASE x \in There
    <3>1. x \notin abandoned /\ posted'[x].by = posted[x].by /\ posted[x].by \in Writers /\ posted[x].by \in FormPages
      BY <1>a, <1>b, <1>c, <1>r, <2>1
    <3>2. target[posted[x].by] = x /\ at[posted[x].by] \in {"uploading", "discarding", "finished"}
      BY <2>1, <3>1 DEF SubmissionInv, RowsAreKnown
    <3> QED BY <3>1, <3>2, <1>a, <1>b, <1>c, <1>r
  <2>2. CASE x \notin There
    BY <2>2, <1>a, <1>b, <1>c, <1>r
  <2> QED BY <2>1, <2>2
<1>4. TargetsAreOwn'
  BY <1>a, <1>b, <1>c, <1>r DEF SubmissionInv, TargetsAreOwn
<1>5. AnswersAreTrue'
  <2>1. \A p \in FormPages : target'[p] \in There' /\ p # w => target[p] \in There
    BY <1>a, <1>b, <1>c, <1>r, <1>t
  <2> QED BY <2>1, <1>a, <1>b, <1>c, <1>r, <1>t DEF SubmissionInv, AnswersAreTrue
<1>6. GoneWasErased'
  BY <1>a, <1>b, <1>c, <1>r DEF SubmissionInv, GoneWasErased
<1>7. FinishedIsComplete'
  <2> SUFFICES ASSUME NEW v \in Writers, at'[v] = "finished", target'[v] \in There', target'[v] \notin crossed'
             PROVE  /\ \A item \in Pictures[v] \cup Enclosures[v] :
                           \E f \in attached' : f.row = target'[v] /\ f.item = item
                    /\ \A item \in Pictures[v] :
                           \E f \in attached' : f.row = target'[v] /\ f.item = item /\ f.n \in posted'[target'[v]].shows
    BY DEF FinishedIsComplete, Complete, Filed, Shown
  <2>1. CASE at[v] = "finished" /\ target'[v] = target[v] /\ target[v] \in There \ crossed
    <3>1. /\ \A item \in Pictures[v] \cup Enclosures[v] : \E f \in attached : f.row = target[v] /\ f.item = item
          /\ \A item \in Pictures[v] : \E f \in attached : f.row = target[v] /\ f.item = item /\ f.n \in posted[target[v]].shows
      BY <2>1 DEF SubmissionInv, FinishedIsComplete, Complete, Filed, Shown
    <3> QED BY <3>1, <2>1, <1>a, <1>b, <1>c, <1>r, <1>t
  <2> QED BY <2>1, <1>a, <1>b, <1>c, <1>r, <1>t
<1>8. CorrectionsKeepImages'
  <2> SUFFICES ASSUME NEW v \in Writers, NEW c \in Correctors, NEW item \in Pictures[v],
                    at'[v] = "finished", target'[v] \in There', target'[v] \notin crossed', target'[c] = target'[v]
             PROVE  \E f \in attached' : f.row = target'[v] /\ f.item = item /\ f.n \in base'[c]
    BY DEF CorrectionsKeepImages, Shown
  <2>1. CASE at[v] = "finished" /\ target'[v] = target[v] /\ target[v] \in There \ crossed /\ target[c] = target[v]
    <3>1. \E f \in attached : f.row = target[v] /\ f.item = item /\ f.n \in base[c]
      BY <2>1 DEF SubmissionInv, CorrectionsKeepImages, Shown
    <3> QED BY <3>1, <2>1, <1>a, <1>b, <1>c, <1>r, <1>t
  <2> QED BY <2>1, <1>a, <1>b, <1>c, <1>r, <1>t
<1>9. ShownAreFiles'
  <2>a. \A x \in There : \A m \in posted[x].shows : \E f \in attached : f.row = x /\ f.n = m
    BY DEF SubmissionInv, ShownAreFiles, NumbersAreFiles
  <2>b. \A c \in Correctors : target[c] \in There => \A m \in base[c] : \E f \in attached : f.row = target[c] /\ f.n = m
    BY DEF SubmissionInv, ShownAreFiles, NumbersAreFiles
  <2>1. \A x \in There' : \A m \in posted'[x].shows : \E f \in attached' : f.row = x /\ f.n = m
    BY <2>a, <1>a, <1>b, <1>c, <1>r, <1>t
  <2>2. ASSUME NEW d \in Correctors, target'[d] \in There', NEW m \in base'[d]
       PROVE  \E f \in attached' : f.row = target'[d] /\ f.n = m
    BY <2>b, <2>2, <1>a, <1>b, <1>c, <1>r, <1>t
  <2> QED BY <2>1, <2>2 DEF ShownAreFiles, NumbersAreFiles
<1>10. SentOnce'
  BY <1>a, <1>b, <1>c, <1>r DEF SubmissionInv, SentOnce
<1> QED BY <1>1, <1>2, <1>3, <1>4, <1>5, <1>6, <1>7, <1>8, <1>9, <1>10 DEF SubmissionInv

LEMMA NumberIsTakenKeeps ==
    ASSUME SubmissionInv, NEW w \in Writers, NumberIsTaken(w)
    PROVE  SubmissionInv'
<1>a. /\ w \in FormPages /\ at[w] = "creating" /\ at'[w] = "form" /\ \A q \in FormPages : q # w => at'[q] = at[q]
      /\ w \in Writers /\ w \notin Correctors
      /\ UNCHANGED posted /\ There' = There
      /\ UNCHANGED <<attached, arrivals, crossed, abandoned, erased, stumbled, number, target, base, got>>
  BY SubmissionAssumption
     DEF NumberIsTaken, Move, FormPages, rowVars, historyVars, There, SubmissionInv,
         SubmissionShapes
<1>b. SubmissionShapes /\ Writers \subseteq FormPages /\ Correctors \subseteq FormPages /\ Writers \cap Correctors = {}
  BY SubmissionAssumption DEF SubmissionInv, FormPages
<1>c. /\ There \subseteq DOMAIN posted /\ 0 \notin There
      /\ \A x \in DOMAIN posted : posted[x].by \in Writers /\ posted[x].by \in FormPages /\ posted[x].no \in Nat
  BY <1>b, RowsAre
<1>1. SubmissionShapes'
  BY <1>a, <1>b DEF NumberIsTaken, Move, SubmissionShapes, Steps
<1>2. NumbersAreBounded'
  BY <1>a, <1>b, <1>c DEF SubmissionInv, FormPages, NumbersAreBounded
<1>3. RowsAreKnown'
  BY <1>a, <1>b, <1>c DEF SubmissionInv, RowsAreKnown
<1>4. TargetsAreOwn'
  BY <1>a, <1>b, <1>c DEF SubmissionInv, TargetsAreOwn
<1>5. AnswersAreTrue'
  BY <1>a, <1>b, <1>c DEF SubmissionInv, AnswersAreTrue
<1>6. GoneWasErased'
  BY <1>a, <1>b, <1>c DEF SubmissionInv, GoneWasErased
<1>7. FinishedIsComplete'
  BY <1>a, <1>b, <1>c DEF SubmissionInv, FinishedIsComplete, Complete, Filed, Shown
<1>8. CorrectionsKeepImages'
  BY <1>a, <1>b, <1>c DEF SubmissionInv, CorrectionsKeepImages, FinishedIsComplete, Complete, Filed, Shown
<1>9. ShownAreFiles'
  BY <1>a, <1>b, <1>c DEF SubmissionInv, ShownAreFiles, NumbersAreFiles
<1>10. SentOnce'
  BY <1>a, <1>b, <1>c DEF SubmissionInv, SentOnce
<1> QED BY <1>1, <1>2, <1>3, <1>4, <1>5, <1>6, <1>7, <1>8, <1>9, <1>10 DEF SubmissionInv

LEMMA CreationFailsKeeps ==
    ASSUME SubmissionInv, NEW w \in Writers, CreationFails(w)
    PROVE  SubmissionInv'
<1> DEFINE n == Len(posted) + 1
<1>a. /\ w \in FormPages /\ at[w] = "creating" /\ at'[w] = "form" /\ \A q \in FormPages : q # w => at'[q] = at[q]
      /\ w \in Writers /\ w \notin Correctors
      /\ stumbled \subseteq stumbled'
      /\ UNCHANGED <<attached, arrivals, crossed, erased, number, target, base, got>>
  BY SubmissionAssumption
     DEF CreationFails, Move, Mishap, FormPages, SubmissionInv, SubmissionShapes
<1>e. (UNCHANGED <<posted, abandoned>>) \/ (Inserted(w) /\ abandoned' = abandoned \cup {Len(posted) + 1})
  BY DEF CreationFails, Inserted
<1>b. SubmissionShapes /\ Writers \subseteq FormPages /\ Correctors \subseteq FormPages /\ Writers \cap Correctors = {}
  BY SubmissionAssumption DEF SubmissionInv, FormPages
<1>c. /\ There \subseteq DOMAIN posted /\ 0 \notin There
      /\ \A x \in DOMAIN posted : posted[x].by \in Writers /\ posted[x].by \in FormPages /\ posted[x].no \in Nat
  BY <1>b, RowsAre
<1>1. CASE UNCHANGED <<posted, abandoned>>
  <2>r. /\ UNCHANGED posted /\ There' = There
    BY <1>a, <1>1, <1>e DEF There
  <2>1. SubmissionShapes'
  BY <1>b, <2>r DEF CreationFails, Move, SubmissionShapes, Steps
  <2>2. NumbersAreBounded'
  BY <1>a, <1>b, <1>c, <2>r DEF SubmissionInv, FormPages, NumbersAreBounded
  <2>3. RowsAreKnown'
    <3> SUFFICES ASSUME NEW x \in There', x \notin abandoned'
               PROVE  target'[posted'[x].by] = x /\ at'[posted'[x].by] \in {"uploading", "discarding", "finished"}
      BY DEF RowsAreKnown
    <3>1. CASE x \in There
      <4>1. x \notin abandoned /\ posted'[x].by = posted[x].by /\ posted[x].by \in Writers /\ posted[x].by \in FormPages
        BY <1>a, <1>b, <1>c, <2>r, <1>1, <3>1
      <4>2. target[posted[x].by] = x /\ at[posted[x].by] \in {"uploading", "discarding", "finished"}
        BY <3>1, <4>1 DEF SubmissionInv, RowsAreKnown
      <4> QED BY <4>1, <4>2, <1>a, <1>b, <1>c, <2>r, <1>1
    <3>2. CASE x \notin There
      BY <3>2, <1>a, <1>b, <1>c, <2>r, <1>1
    <3> QED BY <3>1, <3>2
  <2>4. TargetsAreOwn'
  BY <1>a, <1>b, <1>c, <2>r DEF SubmissionInv, TargetsAreOwn
  <2>5. AnswersAreTrue'
  BY <1>a, <1>b, <1>c, <2>r DEF SubmissionInv, AnswersAreTrue
  <2>6. GoneWasErased'
  BY <1>a, <1>b, <1>c, <2>r DEF SubmissionInv, GoneWasErased
  <2>7. FinishedIsComplete'
  BY <1>a, <1>b, <1>c, <2>r DEF SubmissionInv, FinishedIsComplete, Complete, Filed, Shown
  <2>8. CorrectionsKeepImages'
  BY <1>a, <1>b, <1>c, <2>r DEF SubmissionInv, CorrectionsKeepImages, FinishedIsComplete, Complete, Filed, Shown
  <2>9. ShownAreFiles'
  BY <1>a, <1>b, <1>c, <2>r DEF SubmissionInv, ShownAreFiles, NumbersAreFiles
  <2>10. SentOnce'
  BY <1>a, <1>b, <1>c, <2>r DEF SubmissionInv, SentOnce
  <2> QED BY <2>1, <2>2, <2>3, <2>4, <2>5, <2>6, <2>7, <2>8, <2>9, <2>10 DEF SubmissionInv
<1>2. CASE Inserted(w) /\ abandoned' = abandoned \cup {Len(posted) + 1}
  <2>s. posted' \in Seq(RowsPosted)
    BY <1>a, <1>b, <1>2, <1>e, InsertedRow
  <2>r. /\ DOMAIN posted' = DOMAIN posted \cup {n}
        /\ n \in Nat \ {0} /\ n \notin DOMAIN posted
        /\ \A r \in DOMAIN posted : posted'[r] = posted[r]
        /\ posted'[n].by = w /\ posted'[n].shows = {} /\ posted'[n].no = number[w]
        /\ There' = There \cup {n}
        /\ abandoned' = abandoned \cup {n}
    BY <1>a, <1>b, <1>2, <1>e, InsertedRow
  <2>t. \A q \in FormPages : target[q] # n
    BY <2>r, <1>a DEF SubmissionInv, TargetsAreOwn
  <2> HIDE DEF n
  <2>1. SubmissionShapes'
  BY <1>b, <2>s DEF CreationFails, Move, Catch, SubmissionShapes, Steps
  <2>2. NumbersAreBounded'
    <3>b. PICK most \in Nat : (\A x \in DOMAIN posted : posted[x].no <= most) /\ \A v \in Writers : number[v] <= most
      BY DEF SubmissionInv, NumbersAreBounded
    <3>1. (\A x \in DOMAIN posted' : posted'[x].no <= most) /\ \A v \in Writers : number'[v] <= most
      BY <3>b, <1>a, <1>b, <1>c, <2>r
    <3> QED BY <3>1 DEF NumbersAreBounded
  <2>3. RowsAreKnown'
    <3> SUFFICES ASSUME NEW x \in There', x \notin abandoned'
               PROVE  target'[posted'[x].by] = x /\ at'[posted'[x].by] \in {"uploading", "discarding", "finished"}
      BY DEF RowsAreKnown
    <3>1. CASE x \in There
      <4>1. x \notin abandoned /\ posted'[x].by = posted[x].by /\ posted[x].by \in Writers /\ posted[x].by \in FormPages
        BY <1>a, <1>b, <1>c, <2>r, <3>1
      <4>2. target[posted[x].by] = x /\ at[posted[x].by] \in {"uploading", "discarding", "finished"}
        BY <3>1, <4>1 DEF SubmissionInv, RowsAreKnown
      <4> QED BY <4>1, <4>2, <1>a, <1>b, <1>c, <2>r
    <3>2. CASE x \notin There
      BY <3>2, <1>a, <1>b, <1>c, <2>r
    <3> QED BY <3>1, <3>2
  <2>4. TargetsAreOwn'
  BY <1>a, <1>b, <1>c, <2>r DEF SubmissionInv, TargetsAreOwn
  <2>5. AnswersAreTrue'
    <3>1. \A p \in FormPages : target'[p] \in There' /\ p # w => target[p] \in There
      BY <1>a, <1>b, <1>c, <2>r, <2>t
    <3> QED BY <3>1, <1>a, <1>b, <1>c, <2>r, <2>t DEF SubmissionInv, AnswersAreTrue
  <2>6. GoneWasErased'
  BY <1>a, <1>b, <1>c, <2>r DEF SubmissionInv, GoneWasErased
  <2>7. FinishedIsComplete'
    <3> SUFFICES ASSUME NEW v \in Writers, at'[v] = "finished", target'[v] \in There', target'[v] \notin crossed'
               PROVE  /\ \A item \in Pictures[v] \cup Enclosures[v] :
                             \E f \in attached' : f.row = target'[v] /\ f.item = item
                      /\ \A item \in Pictures[v] :
                             \E f \in attached' : f.row = target'[v] /\ f.item = item /\ f.n \in posted'[target'[v]].shows
      BY DEF FinishedIsComplete, Complete, Filed, Shown
    <3>1. CASE at[v] = "finished" /\ target'[v] = target[v] /\ target[v] \in There \ crossed
      <4>1. /\ \A item \in Pictures[v] \cup Enclosures[v] : \E f \in attached : f.row = target[v] /\ f.item = item
            /\ \A item \in Pictures[v] : \E f \in attached : f.row = target[v] /\ f.item = item /\ f.n \in posted[target[v]].shows
        BY <3>1 DEF SubmissionInv, FinishedIsComplete, Complete, Filed, Shown
      <4> QED BY <4>1, <3>1, <1>a, <1>b, <1>c, <2>r, <2>t
    <3> QED BY <3>1, <1>a, <1>b, <1>c, <2>r, <2>t
  <2>8. CorrectionsKeepImages'
    <3> SUFFICES ASSUME NEW v \in Writers, NEW c \in Correctors, NEW item \in Pictures[v],
                      at'[v] = "finished", target'[v] \in There', target'[v] \notin crossed', target'[c] = target'[v]
               PROVE  \E f \in attached' : f.row = target'[v] /\ f.item = item /\ f.n \in base'[c]
      BY DEF CorrectionsKeepImages, Shown
    <3>1. CASE at[v] = "finished" /\ target'[v] = target[v] /\ target[v] \in There \ crossed /\ target[c] = target[v]
      <4>1. \E f \in attached : f.row = target[v] /\ f.item = item /\ f.n \in base[c]
        BY <3>1 DEF SubmissionInv, CorrectionsKeepImages, Shown
      <4> QED BY <4>1, <3>1, <1>a, <1>b, <1>c, <2>r, <2>t
    <3> QED BY <3>1, <1>a, <1>b, <1>c, <2>r, <2>t
  <2>9. ShownAreFiles'
    <3>a. \A x \in There : \A m \in posted[x].shows : \E f \in attached : f.row = x /\ f.n = m
      BY DEF SubmissionInv, ShownAreFiles, NumbersAreFiles
    <3>b. \A c \in Correctors : target[c] \in There => \A m \in base[c] : \E f \in attached : f.row = target[c] /\ f.n = m
      BY DEF SubmissionInv, ShownAreFiles, NumbersAreFiles
    <3>1. \A x \in There' : \A m \in posted'[x].shows : \E f \in attached' : f.row = x /\ f.n = m
      BY <3>a, <1>a, <1>b, <1>c, <2>r, <2>t
    <3>2. ASSUME NEW d \in Correctors, target'[d] \in There', NEW m \in base'[d]
         PROVE  \E f \in attached' : f.row = target'[d] /\ f.n = m
      BY <3>b, <3>2, <1>a, <1>b, <1>c, <2>r, <2>t
    <3> QED BY <3>1, <3>2 DEF ShownAreFiles, NumbersAreFiles
  <2>10. SentOnce'
  BY <1>a, <1>b, <1>c, <2>r DEF SubmissionInv, SentOnce
  <2> QED BY <2>1, <2>2, <2>3, <2>4, <2>5, <2>6, <2>7, <2>8, <2>9, <2>10 DEF SubmissionInv
<1> QED BY <1>e, <1>1, <1>2

LEMMA DiscardOwnKeeps ==
    ASSUME SubmissionInv, NEW w \in Writers, DiscardOwn(w)
    PROVE  SubmissionInv'
<1>a. /\ w \in FormPages /\ at[w] = "discarding" /\ at'[w] = "form" /\ \A q \in FormPages : q # w => at'[q] = at[q]
      /\ w \in Writers /\ w \notin Correctors
      /\ target'[w] = 0
      /\ \A q \in FormPages : q # w => target'[q] = target[q]
      /\ UNCHANGED <<arrivals, crossed, abandoned, erased, stumbled, number, base, got>>
  BY SubmissionAssumption
     DEF DiscardOwn, Move, FormPages, historyVars, SubmissionInv, SubmissionShapes
<1>e. IF target[w] \in There THEN Removed(target[w]) ELSE UNCHANGED <<posted, attached>>
  BY DEF DiscardOwn, Inserted
<1>b. SubmissionShapes /\ Writers \subseteq FormPages /\ Correctors \subseteq FormPages /\ Writers \cap Correctors = {}
  BY SubmissionAssumption DEF SubmissionInv, FormPages
<1>c. /\ There \subseteq DOMAIN posted /\ 0 \notin There
      /\ \A x \in DOMAIN posted : posted[x].by \in Writers /\ posted[x].by \in FormPages /\ posted[x].no \in Nat
  BY <1>b, RowsAre
<1>1. CASE target[w] \in There
  <2>s. posted' \in Seq(RowsPosted)
    BY <1>a, <1>b, <1>1, <1>e, RemovedRow
  <2>r. /\ DOMAIN posted' = DOMAIN posted
        /\ \A s \in DOMAIN posted : /\ posted'[s].by = posted[s].by /\ posted'[s].no = posted[s].no
                                    /\ posted'[s].shows = posted[s].shows
        /\ There' = There \ {target[w]} /\ target[w] \in There
        /\ attached' \subseteq attached /\ \A f \in attached : f.row # target[w] => f \in attached' 
    BY <1>a, <1>b, <1>1, <1>e, RemovedRow
  <2>t. \A v \in Writers : v # w /\ at[v] \in {"uploading", "finished"} => target[v] # target[w]
    BY <1>a DEF SubmissionInv, TargetsAreOwn
  <2>1. SubmissionShapes'
  BY <1>b, <2>r, <2>s DEF DiscardOwn, Move, SubmissionShapes, Steps
  <2>2. NumbersAreBounded'
  BY <1>a, <1>b, <1>c, <2>r DEF SubmissionInv, FormPages, NumbersAreBounded
  <2>3. RowsAreKnown'
    <3> SUFFICES ASSUME NEW x \in There', x \notin abandoned'
               PROVE  target'[posted'[x].by] = x /\ at'[posted'[x].by] \in {"uploading", "discarding", "finished"}
      BY DEF RowsAreKnown
    <3>1. CASE x \in There
      <4>1. x \notin abandoned /\ posted'[x].by = posted[x].by /\ posted[x].by \in Writers /\ posted[x].by \in FormPages
        BY <1>a, <1>b, <1>c, <2>r, <2>t, <3>1
      <4>2. target[posted[x].by] = x /\ at[posted[x].by] \in {"uploading", "discarding", "finished"}
        BY <3>1, <4>1 DEF SubmissionInv, RowsAreKnown
      <4> QED BY <4>1, <4>2, <1>a, <1>b, <1>c, <2>r, <2>t
    <3>2. CASE x \notin There
      BY <3>2, <1>a, <1>b, <1>c, <2>r, <2>t
    <3> QED BY <3>1, <3>2
  <2>4. TargetsAreOwn'
  BY <1>a, <1>b, <1>c, <2>r DEF SubmissionInv, TargetsAreOwn
  <2>5. AnswersAreTrue'
    <3> SUFFICES ASSUME NEW q \in FormPages
               PROVE  /\ at'[q] \in {"form", "creating", "discarding"} => got'[q] = {}
                      /\ target'[q] \in There' =>
                             \A h \in got'[q] : \E f \in attached' : f.row = target'[q] /\ f.n = h.n /\ f.item = h.item
      BY DEF AnswersAreTrue
    <3>1. /\ at[q] \in {"form", "creating", "discarding"} => got[q] = {}
          /\ target[q] \in There => \A h \in got[q] : \E f \in attached : f.row = target[q] /\ f.n = h.n /\ f.item = h.item
      BY DEF SubmissionInv, AnswersAreTrue
    <3> QED BY <3>1, <1>a, <1>b, <1>c, <2>r, <2>t
  <2>6. GoneWasErased'
    <3> SUFFICES ASSUME NEW v \in Writers, at'[v] \in {"uploading", "finished"}, target'[v] \notin There'
               PROVE  target'[v] \in erased'
      BY DEF GoneWasErased
    <3>1. v # w /\ at'[v] = at[v] /\ target'[v] = target[v] /\ target[v] # target[w]
      BY <1>a, <1>b, <1>c, <2>r, <2>t
    <3> QED BY <3>1, <1>a, <1>b, <1>c, <2>r, <2>t DEF SubmissionInv, GoneWasErased
  <2>7. FinishedIsComplete'
    <3> SUFFICES ASSUME NEW v \in Writers, at'[v] = "finished", target'[v] \in There', target'[v] \notin crossed'
               PROVE  /\ \A item \in Pictures[v] \cup Enclosures[v] :
                             \E f \in attached' : f.row = target'[v] /\ f.item = item
                      /\ \A item \in Pictures[v] :
                             \E f \in attached' : f.row = target'[v] /\ f.item = item /\ f.n \in posted'[target'[v]].shows
      BY DEF FinishedIsComplete, Complete, Filed, Shown
    <3>1. CASE at[v] = "finished" /\ target'[v] = target[v] /\ target[v] \in There \ crossed
      <4>1. /\ \A item \in Pictures[v] \cup Enclosures[v] : \E f \in attached : f.row = target[v] /\ f.item = item
            /\ \A item \in Pictures[v] : \E f \in attached : f.row = target[v] /\ f.item = item /\ f.n \in posted[target[v]].shows
        BY <3>1 DEF SubmissionInv, FinishedIsComplete, Complete, Filed, Shown
      <4> QED BY <4>1, <3>1, <1>a, <1>b, <1>c, <2>r, <2>t
    <3> QED BY <3>1, <1>a, <1>b, <1>c, <2>r, <2>t
  <2>8. CorrectionsKeepImages'
    <3> SUFFICES ASSUME NEW v \in Writers, NEW c \in Correctors, NEW item \in Pictures[v],
                      at'[v] = "finished", target'[v] \in There', target'[v] \notin crossed', target'[c] = target'[v]
               PROVE  \E f \in attached' : f.row = target'[v] /\ f.item = item /\ f.n \in base'[c]
      BY DEF CorrectionsKeepImages, Shown
    <3>1. CASE at[v] = "finished" /\ target'[v] = target[v] /\ target[v] \in There \ crossed /\ target[c] = target[v]
      <4>1. \E f \in attached : f.row = target[v] /\ f.item = item /\ f.n \in base[c]
        BY <3>1 DEF SubmissionInv, CorrectionsKeepImages, Shown
      <4> QED BY <4>1, <3>1, <1>a, <1>b, <1>c, <2>r, <2>t
    <3> QED BY <3>1, <1>a, <1>b, <1>c, <2>r, <2>t
  <2>9. ShownAreFiles'
    <3>a. \A x \in There : \A m \in posted[x].shows : \E f \in attached : f.row = x /\ f.n = m
      BY DEF SubmissionInv, ShownAreFiles, NumbersAreFiles
    <3>b. \A c \in Correctors : target[c] \in There => \A m \in base[c] : \E f \in attached : f.row = target[c] /\ f.n = m
      BY DEF SubmissionInv, ShownAreFiles, NumbersAreFiles
    <3>1. \A x \in There' : \A m \in posted'[x].shows : \E f \in attached' : f.row = x /\ f.n = m
      BY <3>a, <1>a, <1>b, <1>c, <2>r, <2>t
    <3>2. ASSUME NEW d \in Correctors, target'[d] \in There', NEW m \in base'[d]
         PROVE  \E f \in attached' : f.row = target'[d] /\ f.n = m
      BY <3>b, <3>2, <1>a, <1>b, <1>c, <2>r, <2>t
    <3> QED BY <3>1, <3>2 DEF ShownAreFiles, NumbersAreFiles
  <2>10. SentOnce'
  BY <1>a, <1>b, <1>c, <2>r DEF SubmissionInv, SentOnce
  <2> QED BY <2>1, <2>2, <2>3, <2>4, <2>5, <2>6, <2>7, <2>8, <2>9, <2>10 DEF SubmissionInv
<1>2. CASE target[w] \notin There
  <2>r. /\ UNCHANGED posted /\ There' = There /\ UNCHANGED attached
    BY <1>a, <1>2, <1>e DEF There
  <2>1. SubmissionShapes'
  BY <1>b, <2>r DEF DiscardOwn, Move, SubmissionShapes, Steps
  <2>2. NumbersAreBounded'
  BY <1>a, <1>b, <1>c, <2>r DEF SubmissionInv, FormPages, NumbersAreBounded
  <2>3. RowsAreKnown'
    <3> SUFFICES ASSUME NEW x \in There', x \notin abandoned'
               PROVE  target'[posted'[x].by] = x /\ at'[posted'[x].by] \in {"uploading", "discarding", "finished"}
      BY DEF RowsAreKnown
    <3>1. CASE x \in There
      <4>1. x \notin abandoned /\ posted'[x].by = posted[x].by /\ posted[x].by \in Writers /\ posted[x].by \in FormPages
        BY <1>a, <1>b, <1>c, <2>r, <1>2, <3>1
      <4>2. target[posted[x].by] = x /\ at[posted[x].by] \in {"uploading", "discarding", "finished"}
        BY <3>1, <4>1 DEF SubmissionInv, RowsAreKnown
      <4> QED BY <4>1, <4>2, <1>a, <1>b, <1>c, <2>r, <1>2
    <3>2. CASE x \notin There
      BY <3>2, <1>a, <1>b, <1>c, <2>r, <1>2
    <3> QED BY <3>1, <3>2
  <2>4. TargetsAreOwn'
  BY <1>a, <1>b, <1>c, <2>r DEF SubmissionInv, TargetsAreOwn
  <2>5. AnswersAreTrue'
  BY <1>a, <1>b, <1>c, <2>r DEF SubmissionInv, AnswersAreTrue
  <2>6. GoneWasErased'
  BY <1>a, <1>b, <1>c, <2>r DEF SubmissionInv, GoneWasErased
  <2>7. FinishedIsComplete'
  BY <1>a, <1>b, <1>c, <2>r DEF SubmissionInv, FinishedIsComplete, Complete, Filed, Shown
  <2>8. CorrectionsKeepImages'
  BY <1>a, <1>b, <1>c, <2>r DEF SubmissionInv, CorrectionsKeepImages, FinishedIsComplete, Complete, Filed, Shown
  <2>9. ShownAreFiles'
  BY <1>a, <1>b, <1>c, <2>r DEF SubmissionInv, ShownAreFiles, NumbersAreFiles
  <2>10. SentOnce'
  BY <1>a, <1>b, <1>c, <2>r DEF SubmissionInv, SentOnce
  <2> QED BY <2>1, <2>2, <2>3, <2>4, <2>5, <2>6, <2>7, <2>8, <2>9, <2>10 DEF SubmissionInv
<1> QED BY <1>e, <1>1, <1>2

LEMMA DiscardFailsKeeps ==
    ASSUME SubmissionInv, NEW w \in Writers, DiscardFails(w)
    PROVE  SubmissionInv'
<1>a. /\ w \in FormPages /\ at[w] = "discarding" /\ at'[w] = "form" /\ \A q \in FormPages : q # w => at'[q] = at[q]
      /\ w \in Writers /\ w \notin Correctors
      /\ UNCHANGED posted /\ There' = There
      /\ target'[w] = 0
      /\ \A q \in FormPages : q # w => target'[q] = target[q]
      /\ stumbled \subseteq stumbled' /\ abandoned' = abandoned \cup {target[w]}
      /\ UNCHANGED <<attached, arrivals, crossed, erased, number, base, got>>
  BY SubmissionAssumption
     DEF DiscardFails, Move, Mishap, FormPages, rowVars, There, SubmissionInv, SubmissionShapes
<1>b. SubmissionShapes /\ Writers \subseteq FormPages /\ Correctors \subseteq FormPages /\ Writers \cap Correctors = {}
  BY SubmissionAssumption DEF SubmissionInv, FormPages
<1>c. /\ There \subseteq DOMAIN posted /\ 0 \notin There
      /\ \A x \in DOMAIN posted : posted[x].by \in Writers /\ posted[x].by \in FormPages /\ posted[x].no \in Nat
  BY <1>b, RowsAre
<1>1. SubmissionShapes'
  BY <1>a, <1>b DEF DiscardFails, Move, SubmissionShapes, Steps
<1>2. NumbersAreBounded'
  BY <1>a, <1>b, <1>c DEF SubmissionInv, FormPages, NumbersAreBounded
<1>3. RowsAreKnown'
  BY <1>a, <1>b, <1>c DEF SubmissionInv, RowsAreKnown
<1>4. TargetsAreOwn'
  BY <1>a, <1>b, <1>c DEF SubmissionInv, TargetsAreOwn
<1>5. AnswersAreTrue'
  BY <1>a, <1>b, <1>c DEF SubmissionInv, AnswersAreTrue
<1>6. GoneWasErased'
  BY <1>a, <1>b, <1>c DEF SubmissionInv, GoneWasErased
<1>7. FinishedIsComplete'
  BY <1>a, <1>b, <1>c DEF SubmissionInv, FinishedIsComplete, Complete, Filed, Shown
<1>8. CorrectionsKeepImages'
  BY <1>a, <1>b, <1>c DEF SubmissionInv, CorrectionsKeepImages, FinishedIsComplete, Complete, Filed, Shown
<1>9. ShownAreFiles'
  BY <1>a, <1>b, <1>c DEF SubmissionInv, ShownAreFiles, NumbersAreFiles
<1>10. SentOnce'
  BY <1>a, <1>b, <1>c DEF SubmissionInv, SentOnce
<1> QED BY <1>1, <1>2, <1>3, <1>4, <1>5, <1>6, <1>7, <1>8, <1>9, <1>10 DEF SubmissionInv

LEMMA OpenCorrectionKeeps ==
    ASSUME SubmissionInv, NEW c \in Correctors, NEW r \in There, OpenCorrection(c, r)
    PROVE  SubmissionInv'
<1>a. /\ c \in FormPages /\ at[c] = "form" /\ at'[c] = "uploading" /\ \A q \in FormPages : q # c => at'[q] = at[q]
      /\ c \in Correctors /\ c \notin Writers
      /\ UNCHANGED posted /\ There' = There
      /\ target[c] \in {0, r} /\ target'[c] = r
      /\ \A q \in FormPages : q # c => target'[q] = target[q]
      /\ base'[c] = (IF target[c] = 0 THEN posted[r].shows ELSE base[c])
      /\ \A d \in Correctors : d # c => base'[d] = base[d]
      /\ UNCHANGED <<attached, arrivals, crossed, abandoned, erased, stumbled, number, got>>
  BY SubmissionAssumption
     DEF OpenCorrection, Move, FormPages, rowVars, historyVars, There, SubmissionInv,
         SubmissionShapes
<1>b. SubmissionShapes /\ Writers \subseteq FormPages /\ Correctors \subseteq FormPages /\ Writers \cap Correctors = {}
  BY SubmissionAssumption DEF SubmissionInv, FormPages
<1>c. /\ There \subseteq DOMAIN posted /\ 0 \notin There
      /\ \A x \in DOMAIN posted : posted[x].by \in Writers /\ posted[x].by \in FormPages /\ posted[x].no \in Nat
  BY <1>b, RowsAre
<1>1. SubmissionShapes'
  <2>1. /\ \A q \in FormPages : at'[q] \in Steps /\ target'[q] \in Nat
        /\ \A d \in Correctors : base'[d] \in SUBSET Nat
    BY <1>a, <1>b, <1>c, RowsAre DEF SubmissionShapes, Steps
  <2>2. /\ at' \in [FormPages -> Steps] /\ target' \in [FormPages -> Nat]
        /\ base' \in [Correctors -> SUBSET Nat]
    BY <2>1, <1>b DEF OpenCorrection, Move, SubmissionShapes
  <2> QED BY <2>2, <1>a, <1>b DEF SubmissionShapes
<1>2. NumbersAreBounded'
  BY <1>a, <1>b, <1>c DEF SubmissionInv, FormPages, NumbersAreBounded
<1>3. RowsAreKnown'
  BY <1>a, <1>b, <1>c DEF SubmissionInv, RowsAreKnown
<1>4. TargetsAreOwn'
  BY <1>a, <1>b, <1>c DEF SubmissionInv, TargetsAreOwn
<1>5. AnswersAreTrue'
  BY <1>a, <1>b, <1>c DEF SubmissionInv, AnswersAreTrue
<1>6. GoneWasErased'
  BY <1>a, <1>b, <1>c DEF SubmissionInv, GoneWasErased
<1>7. FinishedIsComplete'
  BY <1>a, <1>b, <1>c DEF SubmissionInv, FinishedIsComplete, Complete, Filed, Shown
<1>8. CorrectionsKeepImages'
  BY <1>a, <1>b, <1>c DEF SubmissionInv, CorrectionsKeepImages, FinishedIsComplete, Complete, Filed, Shown
<1>9. ShownAreFiles'
  BY <1>a, <1>b, <1>c DEF SubmissionInv, ShownAreFiles, NumbersAreFiles
<1>10. SentOnce'
  BY <1>a, <1>b, <1>c DEF SubmissionInv, SentOnce
<1> QED BY <1>1, <1>2, <1>3, <1>4, <1>5, <1>6, <1>7, <1>8, <1>9, <1>10 DEF SubmissionInv

LEMMA UploadItemKeeps ==
    ASSUME SubmissionInv, NEW p \in FormPages, UploadItem(p)
    PROVE  SubmissionInv'
<1>a. /\ p \in FormPages /\ at[p] = "uploading"
      /\ UNCHANGED posted /\ There' = There
      /\ \E item \in NextItems(p) :
             /\ Stores(p, item)
             /\ got'[p] = got[p] \cup {[n |-> arrivals', item |-> item]}
      /\ \A q \in FormPages : q # p => got'[q] = got[q]
      /\ UNCHANGED <<abandoned, erased, stumbled, crossed, at, target, number, base>>
  BY DEF UploadItem, historyVars, There, SubmissionInv, SubmissionShapes
<1>b. SubmissionShapes /\ Writers \subseteq FormPages /\ Correctors \subseteq FormPages /\ Writers \cap Correctors = {}
  BY SubmissionAssumption DEF SubmissionInv, FormPages
<1>c. /\ There \subseteq DOMAIN posted /\ 0 \notin There
      /\ \A x \in DOMAIN posted : posted[x].by \in Writers /\ posted[x].by \in FormPages /\ posted[x].no \in Nat
  BY <1>b, RowsAre
<1>i. PICK item \in NextItems(p) : Stores(p, item) /\ got'[p] = got[p] \cup {[n |-> arrivals', item |-> item]}
  BY <1>a
<1>f. PICK f \in [n : Nat, row : Nat, item : FormItems, by : FormPages] :
           /\ attached' = attached \cup {f}
           /\ f.n = arrivals' /\ f.row = target[p] /\ f.item = item /\ f.by = p
  BY <1>i, <1>b, <1>a, StoredFile
<1>g. PICK g \in Received : g.n = f.n /\ g.item = f.item /\ got'[p] = got[p] \cup {g}
  <2> DEFINE g == [n |-> arrivals', item |-> item]
  <2>1. g \in Received /\ g.n = arrivals' /\ g.item = item /\ got'[p] = got[p] \cup {g}
    BY <1>f, <1>i DEF Received
  <2> HIDE DEF g
  <2> QED BY <2>1, <1>f
<1>h. arrivals' \in Nat /\ target[p] \in There /\ \A h \in got[p] : h.item # f.item
  BY <1>f, <1>i, <1>b, <1>a, StoredFile, NextItemsAre
<1>1. SubmissionShapes'
  BY <1>b, <1>f, <1>g DEF UploadItem, SubmissionShapes
<1>2. NumbersAreBounded'
  BY <1>a, <1>b, <1>c, <1>f, <1>g, <1>h DEF SubmissionInv, FormPages, NumbersAreBounded
<1>3. RowsAreKnown'
  BY <1>a, <1>b, <1>c, <1>f, <1>g, <1>h DEF SubmissionInv, RowsAreKnown
<1>4. TargetsAreOwn'
  BY <1>a, <1>b, <1>c, <1>f, <1>g, <1>h DEF SubmissionInv, TargetsAreOwn
<1>5. AnswersAreTrue'
  BY <1>a, <1>b, <1>c, <1>f, <1>g, <1>h DEF SubmissionInv, AnswersAreTrue
<1>6. GoneWasErased'
  BY <1>a, <1>b, <1>c, <1>f, <1>g, <1>h DEF SubmissionInv, GoneWasErased
<1>7. FinishedIsComplete'
  BY <1>a, <1>b, <1>c, <1>f, <1>g, <1>h DEF SubmissionInv, FinishedIsComplete, Complete, Filed, Shown
<1>8. CorrectionsKeepImages'
  BY <1>a, <1>f DEF SubmissionInv, CorrectionsKeepImages, Shown
<1>9. ShownAreFiles'
  BY <1>a, <1>b, <1>c, <1>f, <1>g, <1>h DEF SubmissionInv, ShownAreFiles, NumbersAreFiles
<1>10. SentOnce'
  <2>1. ASSUME NEW e \in attached'
       PROVE  e.by \in stumbled' \/ \E h \in got'[e.by] : h.n = e.n /\ h.item = e.item
    <3>1. CASE e \in attached
      BY <3>1, <1>a, <1>b, <1>g DEF SubmissionInv, SubmissionShapes, SentOnce
    <3>2. CASE e = f
      BY <3>2, <1>f, <1>g
    <3> QED BY <3>1, <3>2, <1>f
  <2>2. ASSUME NEW q \in FormPages, NEW h \in got'[q], NEW k \in got'[q], h.item = k.item
       PROVE  h = k
    BY <2>2, <1>a, <1>b, <1>f, <1>g, <1>h DEF SubmissionInv, SentOnce
  <2> QED BY <2>1, <2>2 DEF SentOnce
<1> QED BY <1>1, <1>2, <1>3, <1>4, <1>5, <1>6, <1>7, <1>8, <1>9, <1>10 DEF SubmissionInv

LEMMA UploadFailsKeeps ==
    ASSUME SubmissionInv, NEW p \in FormPages, UploadFails(p)
    PROVE  SubmissionInv'
<1>a. /\ p \in FormPages /\ at[p] = "uploading" /\ at'[p] = (IF p \in Writers THEN "discarding" ELSE "form") /\ \A q \in FormPages : q # p => at'[q] = at[q]
      /\ UNCHANGED posted /\ There' = There
      /\ (UNCHANGED <<attached, arrivals>>) \/ \E item \in NextItems(p) : Stores(p, item)
      /\ p \in stumbled' /\ stumbled \subseteq stumbled' /\ got'[p] = {}
      /\ \A q \in FormPages : q # p => got'[q] = got[q]
      /\ UNCHANGED <<crossed, target, number, base, abandoned, erased>>
  BY DEF UploadFails, Move, Catch, Mishap, There, SubmissionInv, SubmissionShapes
<1>b. SubmissionShapes /\ Writers \subseteq FormPages /\ Correctors \subseteq FormPages /\ Writers \cap Correctors = {}
  BY SubmissionAssumption DEF SubmissionInv, FormPages
<1>c. /\ There \subseteq DOMAIN posted /\ 0 \notin There
      /\ \A x \in DOMAIN posted : posted[x].by \in Writers /\ posted[x].by \in FormPages /\ posted[x].no \in Nat
  BY <1>b, RowsAre
<1>1. CASE UNCHANGED <<attached, arrivals>>
  <2>r. /\ UNCHANGED posted /\ There' = There /\ UNCHANGED <<attached, arrivals>>
    BY <1>a, <1>1 DEF There
  <2>1. SubmissionShapes'
  BY <1>b, <2>r DEF UploadFails, Move, Catch, SubmissionShapes, Steps
  <2>2. NumbersAreBounded'
  BY <1>a, <1>b, <1>c, <2>r DEF SubmissionInv, FormPages, NumbersAreBounded
  <2>3. RowsAreKnown'
  BY <1>a, <1>b, <1>c, <2>r DEF SubmissionInv, RowsAreKnown
  <2>4. TargetsAreOwn'
  BY <1>a, <1>b, <1>c, <2>r DEF SubmissionInv, TargetsAreOwn
  <2>5. AnswersAreTrue'
  BY <1>a, <1>b, <1>c, <2>r DEF SubmissionInv, AnswersAreTrue
  <2>6. GoneWasErased'
  BY <1>a, <1>b, <1>c, <2>r DEF SubmissionInv, GoneWasErased
  <2>7. FinishedIsComplete'
  BY <1>a, <1>b, <1>c, <2>r DEF SubmissionInv, FinishedIsComplete, Complete, Filed, Shown
  <2>8. CorrectionsKeepImages'
  BY <1>a, <1>b, <1>c, <2>r DEF SubmissionInv, CorrectionsKeepImages, FinishedIsComplete, Complete, Filed, Shown
  <2>9. ShownAreFiles'
  BY <1>a, <1>b, <1>c, <2>r DEF SubmissionInv, ShownAreFiles, NumbersAreFiles
  <2>10. SentOnce'
    <3>1. ASSUME NEW e \in attached'
         PROVE  e.by \in stumbled' \/ \E h \in got'[e.by] : h.n = e.n /\ h.item = e.item
      <4>1. CASE e.by = p
        BY <4>1, <1>a
      <4>2. CASE e.by # p
        <5>1. e \in attached /\ e.by \in FormPages
          BY <4>2, <1>b, <2>r DEF SubmissionShapes
        <5> QED BY <4>2, <5>1, <1>a DEF SubmissionInv, SentOnce
      <4> QED BY <4>1, <4>2
    <3>2. ASSUME NEW q \in FormPages, NEW h \in got'[q], NEW k \in got'[q], h.item = k.item
         PROVE  h = k
      BY <3>2, <1>a DEF SubmissionInv, SentOnce
    <3> QED BY <3>1, <3>2 DEF SentOnce
  <2> QED BY <2>1, <2>2, <2>3, <2>4, <2>5, <2>6, <2>7, <2>8, <2>9, <2>10 DEF SubmissionInv
<1>2. CASE \E item \in NextItems(p) : Stores(p, item)
  <2>i. PICK item \in NextItems(p) : Stores(p, item)
    BY <1>2
  <2>f. PICK f \in [n : Nat, row : Nat, item : FormItems, by : FormPages] :
           /\ attached' = attached \cup {f}
           /\ f.n = arrivals' /\ f.row = target[p] /\ f.item = item /\ f.by = p
  BY <2>i, <1>b, <1>a, StoredFile
  <2>r. arrivals' \in Nat /\ target[p] \in There
  BY <2>i, <1>b, <1>a, StoredFile
  <2>1. SubmissionShapes'
  BY <1>b, <2>f DEF UploadFails, Move, Catch, SubmissionShapes, Steps
  <2>2. NumbersAreBounded'
  BY <1>a, <1>b, <1>c, <2>r, <2>f DEF SubmissionInv, FormPages, NumbersAreBounded
  <2>3. RowsAreKnown'
  BY <1>a, <1>b, <1>c, <2>r, <2>f DEF SubmissionInv, RowsAreKnown
  <2>4. TargetsAreOwn'
  BY <1>a, <1>b, <1>c, <2>r, <2>f DEF SubmissionInv, TargetsAreOwn
  <2>5. AnswersAreTrue'
  BY <1>a, <1>b, <1>c, <2>r, <2>f DEF SubmissionInv, AnswersAreTrue
  <2>6. GoneWasErased'
  BY <1>a, <1>b, <1>c, <2>r, <2>f DEF SubmissionInv, GoneWasErased
  <2>7. FinishedIsComplete'
  BY <1>a, <1>b, <1>c, <2>r, <2>f DEF SubmissionInv, FinishedIsComplete, Complete, Filed, Shown
  <2>8. CorrectionsKeepImages'
  BY <1>a, <1>b, <2>f DEF SubmissionInv, CorrectionsKeepImages, Shown
  <2>9. ShownAreFiles'
  BY <1>a, <1>b, <1>c, <2>r, <2>f DEF SubmissionInv, ShownAreFiles, NumbersAreFiles
  <2>10. SentOnce'
    <3>1. ASSUME NEW e \in attached'
         PROVE  e.by \in stumbled' \/ \E h \in got'[e.by] : h.n = e.n /\ h.item = e.item
      <4>1. CASE e.by = p
        BY <4>1, <1>a
      <4>2. CASE e.by # p
        <5>1. e \in attached /\ e.by \in FormPages
          BY <4>2, <1>b, <2>f DEF SubmissionShapes
        <5> QED BY <4>2, <5>1, <1>a DEF SubmissionInv, SentOnce
      <4> QED BY <4>1, <4>2
    <3>2. ASSUME NEW q \in FormPages, NEW h \in got'[q], NEW k \in got'[q], h.item = k.item
         PROVE  h = k
      BY <3>2, <1>a DEF SubmissionInv, SentOnce
    <3> QED BY <3>1, <3>2 DEF SentOnce
  <2> QED BY <2>1, <2>2, <2>3, <2>4, <2>5, <2>6, <2>7, <2>8, <2>9, <2>10 DEF SubmissionInv
<1> QED BY <1>a, <1>1, <1>2

LEMMA WriteTextKeeps ==
    ASSUME SubmissionInv, NEW p \in FormPages, WriteText(p)
    PROVE  SubmissionInv'
<1>a. /\ p \in FormPages /\ at[p] = "uploading" /\ at'[p] = "finished" /\ \A q \in FormPages : q # p => at'[q] = at[q]
      /\ NextItems(p) = {}
      /\ UNCHANGED <<abandoned, erased, stumbled, attached, arrivals, target, number, base, got>>
  BY DEF WriteText, Move, historyVars, SubmissionInv, SubmissionShapes
<1>e. IF WritesText(p) THEN Rewritten(p) ELSE UNCHANGED <<posted, crossed>>
  BY DEF WriteText, Inserted
<1>b. SubmissionShapes /\ Writers \subseteq FormPages /\ Correctors \subseteq FormPages /\ Writers \cap Correctors = {}
  BY SubmissionAssumption DEF SubmissionInv, FormPages
<1>c. /\ There \subseteq DOMAIN posted /\ 0 \notin There
      /\ \A x \in DOMAIN posted : posted[x].by \in Writers /\ posted[x].by \in FormPages /\ posted[x].no \in Nat
  BY <1>b, RowsAre
<1>1. CASE WritesText(p)
  <2>s. posted' \in Seq(RowsPosted)
    BY <1>a, <1>b, <1>1, <1>e, RewrittenRow
  <2>r. /\ DOMAIN posted' = DOMAIN posted /\ There' = There
        /\ \A s \in DOMAIN posted : /\ posted'[s].by = posted[s].by /\ posted'[s].no = posted[s].no
                                    /\ s # target[p] => posted'[s].shows = posted[s].shows
        /\ target[p] \in There => posted'[target[p]].shows = Images(p)
        /\ crossed \subseteq crossed'
        /\ \A c \in Correctors : c # p /\ target[c] = target[p] => target[p] \in crossed' 
    BY <1>a, <1>b, <1>1, <1>e, RewrittenRow
  <2>u. UNCHANGED number
    BY DEF WriteText
  <2>1. SubmissionShapes'
  BY <1>b, <2>s DEF WriteText, Move, SubmissionShapes, Steps
  <2>2. NumbersAreBounded'
    <3>b. PICK most \in Nat : (\A x \in DOMAIN posted : posted[x].no <= most) /\ \A v \in Writers : number[v] <= most
      BY DEF SubmissionInv, NumbersAreBounded
    <3>1. (\A x \in DOMAIN posted' : posted'[x].no <= most) /\ \A v \in Writers : number'[v] <= most
      BY <3>b, <1>a, <1>b, <1>c, <2>r, <2>u
    <3> QED BY <3>1 DEF NumbersAreBounded
  <2>3. RowsAreKnown'
    <3> SUFFICES ASSUME NEW x \in There', x \notin abandoned'
               PROVE  target'[posted'[x].by] = x /\ at'[posted'[x].by] \in {"uploading", "discarding", "finished"}
      BY DEF RowsAreKnown
    <3>1. CASE x \in There
      <4>1. x \notin abandoned /\ posted'[x].by = posted[x].by /\ posted[x].by \in Writers /\ posted[x].by \in FormPages
        BY <1>a, <1>b, <1>c, <2>r, <3>1
      <4>2. target[posted[x].by] = x /\ at[posted[x].by] \in {"uploading", "discarding", "finished"}
        BY <3>1, <4>1 DEF SubmissionInv, RowsAreKnown
      <4> QED BY <4>1, <4>2, <1>a, <1>b, <1>c, <2>r
    <3>2. CASE x \notin There
      BY <3>2, <1>a, <1>b, <1>c, <2>r
    <3> QED BY <3>1, <3>2
  <2>4. TargetsAreOwn'
    <3> QED BY <1>a, <1>b, <1>c, <2>r DEF SubmissionInv, TargetsAreOwn
  <2>5. AnswersAreTrue'
  BY <1>a, <1>b, <1>c, <2>r DEF SubmissionInv, AnswersAreTrue
  <2>6. GoneWasErased'
  BY <1>a, <1>b, <1>c, <2>r DEF SubmissionInv, GoneWasErased
  <2>7. FinishedIsComplete'
    <3> SUFFICES ASSUME NEW v \in Writers, at'[v] = "finished", target'[v] \in There', target'[v] \notin crossed'
               PROVE  /\ \A item \in Pictures[v] \cup Enclosures[v] :
                             \E f \in attached' : f.row = target'[v] /\ f.item = item
                      /\ \A item \in Pictures[v] :
                             \E f \in attached' : f.row = target'[v] /\ f.item = item /\ f.n \in posted'[target'[v]].shows
      BY DEF FinishedIsComplete, Complete, Filed, Shown
    <3>1. CASE at[v] = "finished" /\ target'[v] = target[v] /\ target[v] \in There \ crossed
      <4>1. /\ \A item \in Pictures[v] \cup Enclosures[v] : \E f \in attached : f.row = target[v] /\ f.item = item
            /\ \A item \in Pictures[v] : \E f \in attached : f.row = target[v] /\ f.item = item /\ f.n \in posted[target[v]].shows
        BY <3>1 DEF SubmissionInv, FinishedIsComplete, Complete, Filed, Shown
      <4>2. CASE target[p] # target[v]
        BY <4>1, <4>2, <3>1, <1>a, <1>b, <1>c, <2>r
      <4>3. CASE target[p] = target[v] /\ p \in Correctors
        <5>1. /\ \A item \in Pictures[v] : \E f \in attached : f.row = target[v] /\ f.item = item /\ f.n \in base[p]
              /\ posted'[target[v]].shows = Images(p) /\ base[p] \subseteq Images(p)
          BY <3>1, <4>3, <1>a, <1>b, <1>c, <2>r DEF SubmissionInv, CorrectionsKeepImages, Shown, Images
        <5> QED BY <4>1, <5>1, <3>1, <1>a, <1>b, <1>c, <2>r
      <4>4. CASE target[p] = target[v] /\ p \in Writers
        BY <4>4, <3>1, <1>a, <1>b, <1>c, <2>r DEF SubmissionInv, TargetsAreOwn
      <4> QED BY <4>2, <4>3, <4>4 DEF FormPages
    <3>2. CASE v = p
      <4>1. \A item \in Pictures[p] \cup Enclosures[p] : \E g \in got[p] : g.item = item
        BY <1>a, NothingToSend
      <4>2. /\ target[p] \in There /\ posted'[target[p]].shows = Images(p) /\ attached' = attached /\ target'[p] = target[p]
        BY <3>2, <1>a, <1>b, <1>c, <2>r
      <4>3. \A g \in got[p] : \E f \in attached : f.row = target[p] /\ f.n = g.n /\ f.item = g.item
        BY <4>2, <1>a DEF SubmissionInv, AnswersAreTrue
      <4>4. \A g \in got[p] : g.item \in Pictures[p] => g.n \in Images(p)
        BY DEF Images, ShownImages
      <4>5. ASSUME NEW item \in Pictures[p]
           PROVE  \E f \in attached : f.row = target[p] /\ f.item = item /\ f.n \in Images(p)
        <5>1. PICK g \in got[p] : g.item = item
          BY <4>1
        <5> QED BY <4>3, <4>4, <5>1
      <4> QED BY <3>2, <4>1, <4>2, <4>3, <4>5
    <3> QED BY <3>1, <3>2, <1>a, <1>b, <1>c, <2>r
  <2>8. CorrectionsKeepImages'
    <3> SUFFICES ASSUME NEW v \in Writers, NEW c \in Correctors, NEW item \in Pictures[v],
                      at'[v] = "finished", target'[v] \in There', target'[v] \notin crossed', target'[c] = target'[v]
               PROVE  \E f \in attached' : f.row = target'[v] /\ f.item = item /\ f.n \in base'[c]
      BY DEF CorrectionsKeepImages, Shown
    <3>1. CASE at[v] = "finished" /\ target'[v] = target[v] /\ target[v] \in There \ crossed /\ target[c] = target[v]
      <4>1. \E f \in attached : f.row = target[v] /\ f.item = item /\ f.n \in base[c]
        BY <3>1 DEF SubmissionInv, CorrectionsKeepImages, Shown
      <4> QED BY <4>1, <3>1, <1>a, <1>b, <1>c, <2>r
    <3> QED BY <3>1, <1>a, <1>b, <1>c, <2>r
  <2>9. ShownAreFiles'
    <3>a. \A x \in There : \A m \in posted[x].shows : \E f \in attached : f.row = x /\ f.n = m
      BY DEF SubmissionInv, ShownAreFiles, NumbersAreFiles
    <3>b. \A c \in Correctors : target[c] \in There => \A m \in base[c] : \E f \in attached : f.row = target[c] /\ f.n = m
      BY DEF SubmissionInv, ShownAreFiles, NumbersAreFiles
    <3>1. \A x \in There' : \A m \in posted'[x].shows : \E f \in attached' : f.row = x /\ f.n = m
      <4>1. ASSUME NEW x \in There', NEW m \in posted'[x].shows
           PROVE  \E f \in attached' : f.row = x /\ f.n = m
        <5>1. CASE x # target[p]
          BY <5>1, <4>1, <3>a, <1>a, <1>b, <1>c, <2>r
        <5>2. CASE x = target[p] /\ m \in ShownImages(p)
          BY <5>2, <1>a, <1>b, <1>c, <2>r DEF SubmissionInv, AnswersAreTrue, ShownImages
        <5>3. CASE x = target[p] /\ p \in Correctors /\ m \in base[p]
          BY <5>3, <3>b, <1>a, <1>b, <1>c, <2>r
        <5> QED BY <4>1, <5>1, <5>2, <5>3, <1>a, <1>b, <1>c, <2>r DEF Images
      <4> QED BY <4>1
    <3>2. ASSUME NEW d \in Correctors, target'[d] \in There', NEW m \in base'[d]
         PROVE  \E f \in attached' : f.row = target'[d] /\ f.n = m
      BY <3>b, <3>2, <1>a, <1>b, <1>c, <2>r
    <3> QED BY <3>1, <3>2 DEF ShownAreFiles, NumbersAreFiles
  <2>10. SentOnce'
  BY <1>a, <1>b, <1>c, <2>r DEF SubmissionInv, SentOnce
  <2> QED BY <2>1, <2>2, <2>3, <2>4, <2>5, <2>6, <2>7, <2>8, <2>9, <2>10 DEF SubmissionInv
<1>2. CASE ~WritesText(p)
  <2>r. /\ UNCHANGED posted /\ There' = There /\ UNCHANGED crossed
    BY <1>a, <1>2, <1>e DEF There
  <2>1. SubmissionShapes'
  BY <1>b, <2>r DEF WriteText, Move, SubmissionShapes, Steps
  <2>2. NumbersAreBounded'
  BY <1>a, <1>b, <1>c, <2>r DEF SubmissionInv, FormPages, NumbersAreBounded
  <2>3. RowsAreKnown'
  BY <1>a, <1>b, <1>c, <2>r DEF SubmissionInv, RowsAreKnown
  <2>4. TargetsAreOwn'
  BY <1>a, <1>b, <1>c, <2>r DEF SubmissionInv, TargetsAreOwn
  <2>5. AnswersAreTrue'
  BY <1>a, <1>b, <1>c, <2>r DEF SubmissionInv, AnswersAreTrue
  <2>6. GoneWasErased'
  BY <1>a, <1>b, <1>c, <2>r DEF SubmissionInv, GoneWasErased
  <2>7. FinishedIsComplete'
    <3> SUFFICES ASSUME NEW v \in Writers, at'[v] = "finished", target'[v] \in There', target'[v] \notin crossed'
               PROVE  /\ \A item \in Pictures[v] \cup Enclosures[v] :
                             \E f \in attached' : f.row = target'[v] /\ f.item = item
                      /\ \A item \in Pictures[v] :
                             \E f \in attached' : f.row = target'[v] /\ f.item = item /\ f.n \in posted'[target'[v]].shows
      BY DEF FinishedIsComplete, Complete, Filed, Shown
    <3>1. CASE at[v] = "finished" /\ target'[v] = target[v] /\ target[v] \in There \ crossed
      <4>1. /\ \A item \in Pictures[v] \cup Enclosures[v] : \E f \in attached : f.row = target[v] /\ f.item = item
            /\ \A item \in Pictures[v] : \E f \in attached : f.row = target[v] /\ f.item = item /\ f.n \in posted[target[v]].shows
        BY <3>1 DEF SubmissionInv, FinishedIsComplete, Complete, Filed, Shown
      <4> QED BY <4>1, <3>1, <1>a, <1>b, <1>c, <2>r
    <3>2. CASE v = p
      <4>1. \A item \in Pictures[p] \cup Enclosures[p] : \E g \in got[p] : g.item = item
        BY <1>a, NothingToSend
      <4>2. target[p] \in There /\ attached' = attached /\ target'[p] = target[p] /\ Pictures[p] = {}
        BY <3>2, <1>a, <1>b, <1>c, <2>r, <1>2 DEF WritesText
      <4>3. \A g \in got[p] : \E f \in attached : f.row = target[p] /\ f.n = g.n /\ f.item = g.item
        BY <4>2, <1>a DEF SubmissionInv, AnswersAreTrue
      <4> QED BY <3>2, <4>1, <4>2, <4>3
    <3> QED BY <3>1, <3>2, <1>a, <1>b, <1>c, <2>r
  <2>8. CorrectionsKeepImages'
    <3> SUFFICES ASSUME NEW v \in Writers, NEW c \in Correctors, NEW item \in Pictures[v],
                      at'[v] = "finished", target'[v] \in There', target'[v] \notin crossed', target'[c] = target'[v]
               PROVE  \E f \in attached' : f.row = target'[v] /\ f.item = item /\ f.n \in base'[c]
      BY DEF CorrectionsKeepImages, Shown
    <3>1. CASE at[v] = "finished" /\ target'[v] = target[v] /\ target[v] \in There \ crossed /\ target[c] = target[v]
      <4>1. \E f \in attached : f.row = target[v] /\ f.item = item /\ f.n \in base[c]
        BY <3>1 DEF SubmissionInv, CorrectionsKeepImages, Shown
      <4> QED BY <4>1, <3>1, <1>a, <1>b, <1>c, <2>r
    <3>2. CASE v = p
      BY <3>2, <1>2 DEF WritesText
    <3> QED BY <3>1, <3>2, <1>a, <1>b, <1>c, <2>r
  <2>9. ShownAreFiles'
  BY <1>a, <1>b, <1>c, <2>r DEF SubmissionInv, ShownAreFiles, NumbersAreFiles
  <2>10. SentOnce'
  BY <1>a, <1>b, <1>c, <2>r DEF SubmissionInv, SentOnce
  <2> QED BY <2>1, <2>2, <2>3, <2>4, <2>5, <2>6, <2>7, <2>8, <2>9, <2>10 DEF SubmissionInv
<1> QED BY <1>e, <1>1, <1>2 DEF WriteText

LEMMA TextFailsKeeps ==
    ASSUME SubmissionInv, NEW p \in FormPages, TextFails(p)
    PROVE  SubmissionInv'
<1>a. /\ p \in FormPages /\ at[p] = "uploading" /\ at'[p] = (IF p \in Writers THEN "discarding" ELSE "form") /\ \A q \in FormPages : q # p => at'[q] = at[q]
      /\ p \in stumbled' /\ stumbled \subseteq stumbled' /\ got'[p] = {}
      /\ \A q \in FormPages : q # p => got'[q] = got[q]
      /\ UNCHANGED <<attached, arrivals, target, number, base, abandoned, erased>>
  BY DEF TextFails, Move, Catch, Mishap, SubmissionInv, SubmissionShapes
<1>e. (UNCHANGED <<posted, crossed>>) \/ Rewritten(p)
  BY DEF TextFails, Inserted
<1>b. SubmissionShapes /\ Writers \subseteq FormPages /\ Correctors \subseteq FormPages /\ Writers \cap Correctors = {}
  BY SubmissionAssumption DEF SubmissionInv, FormPages
<1>c. /\ There \subseteq DOMAIN posted /\ 0 \notin There
      /\ \A x \in DOMAIN posted : posted[x].by \in Writers /\ posted[x].by \in FormPages /\ posted[x].no \in Nat
  BY <1>b, RowsAre
<1>1. CASE Rewritten(p)
  <2>s. posted' \in Seq(RowsPosted)
    BY <1>a, <1>b, <1>1, <1>e, RewrittenRow
  <2>r. /\ DOMAIN posted' = DOMAIN posted /\ There' = There
        /\ \A s \in DOMAIN posted : /\ posted'[s].by = posted[s].by /\ posted'[s].no = posted[s].no
                                    /\ s # target[p] => posted'[s].shows = posted[s].shows
        /\ target[p] \in There => posted'[target[p]].shows = Images(p)
        /\ crossed \subseteq crossed'
        /\ \A c \in Correctors : c # p /\ target[c] = target[p] => target[p] \in crossed' 
    BY <1>a, <1>b, <1>1, <1>e, RewrittenRow
  <2>u. UNCHANGED number
    BY DEF TextFails
  <2>1. SubmissionShapes'
  BY <1>b, <2>s DEF TextFails, Move, Catch, SubmissionShapes, Steps
  <2>2. NumbersAreBounded'
    <3>b. PICK most \in Nat : (\A x \in DOMAIN posted : posted[x].no <= most) /\ \A v \in Writers : number[v] <= most
      BY DEF SubmissionInv, NumbersAreBounded
    <3>1. (\A x \in DOMAIN posted' : posted'[x].no <= most) /\ \A v \in Writers : number'[v] <= most
      BY <3>b, <1>a, <1>b, <1>c, <2>r, <2>u
    <3> QED BY <3>1 DEF NumbersAreBounded
  <2>3. RowsAreKnown'
    <3> SUFFICES ASSUME NEW x \in There', x \notin abandoned'
               PROVE  target'[posted'[x].by] = x /\ at'[posted'[x].by] \in {"uploading", "discarding", "finished"}
      BY DEF RowsAreKnown
    <3>1. CASE x \in There
      <4>1. x \notin abandoned /\ posted'[x].by = posted[x].by /\ posted[x].by \in Writers /\ posted[x].by \in FormPages
        BY <1>a, <1>b, <1>c, <2>r, <3>1
      <4>2. target[posted[x].by] = x /\ at[posted[x].by] \in {"uploading", "discarding", "finished"}
        BY <3>1, <4>1 DEF SubmissionInv, RowsAreKnown
      <4> QED BY <4>1, <4>2, <1>a, <1>b, <1>c, <2>r
    <3>2. CASE x \notin There
      BY <3>2, <1>a, <1>b, <1>c, <2>r
    <3> QED BY <3>1, <3>2
  <2>4. TargetsAreOwn'
    <3> QED BY <1>a, <1>b, <1>c, <2>r DEF SubmissionInv, TargetsAreOwn
  <2>5. AnswersAreTrue'
  BY <1>a, <1>b, <1>c, <2>r DEF SubmissionInv, AnswersAreTrue
  <2>6. GoneWasErased'
  BY <1>a, <1>b, <1>c, <2>r DEF SubmissionInv, GoneWasErased
  <2>7. FinishedIsComplete'
    <3> SUFFICES ASSUME NEW v \in Writers, at'[v] = "finished", target'[v] \in There', target'[v] \notin crossed'
               PROVE  /\ \A item \in Pictures[v] \cup Enclosures[v] :
                             \E f \in attached' : f.row = target'[v] /\ f.item = item
                      /\ \A item \in Pictures[v] :
                             \E f \in attached' : f.row = target'[v] /\ f.item = item /\ f.n \in posted'[target'[v]].shows
      BY DEF FinishedIsComplete, Complete, Filed, Shown
    <3>1. CASE at[v] = "finished" /\ target'[v] = target[v] /\ target[v] \in There \ crossed
      <4>1. /\ \A item \in Pictures[v] \cup Enclosures[v] : \E f \in attached : f.row = target[v] /\ f.item = item
            /\ \A item \in Pictures[v] : \E f \in attached : f.row = target[v] /\ f.item = item /\ f.n \in posted[target[v]].shows
        BY <3>1 DEF SubmissionInv, FinishedIsComplete, Complete, Filed, Shown
      <4>2. CASE target[p] # target[v]
        BY <4>1, <4>2, <3>1, <1>a, <1>b, <1>c, <2>r
      <4>3. CASE target[p] = target[v] /\ p \in Correctors
        <5>1. /\ \A item \in Pictures[v] : \E f \in attached : f.row = target[v] /\ f.item = item /\ f.n \in base[p]
              /\ posted'[target[v]].shows = Images(p) /\ base[p] \subseteq Images(p)
          BY <3>1, <4>3, <1>a, <1>b, <1>c, <2>r DEF SubmissionInv, CorrectionsKeepImages, Shown, Images
        <5> QED BY <4>1, <5>1, <3>1, <1>a, <1>b, <1>c, <2>r
      <4>4. CASE target[p] = target[v] /\ p \in Writers
        BY <4>4, <3>1, <1>a, <1>b, <1>c, <2>r DEF SubmissionInv, TargetsAreOwn
      <4> QED BY <4>2, <4>3, <4>4 DEF FormPages
    <3> QED BY <3>1, <1>a, <1>b, <1>c, <2>r
  <2>8. CorrectionsKeepImages'
    <3> SUFFICES ASSUME NEW v \in Writers, NEW c \in Correctors, NEW item \in Pictures[v],
                      at'[v] = "finished", target'[v] \in There', target'[v] \notin crossed', target'[c] = target'[v]
               PROVE  \E f \in attached' : f.row = target'[v] /\ f.item = item /\ f.n \in base'[c]
      BY DEF CorrectionsKeepImages, Shown
    <3>1. CASE at[v] = "finished" /\ target'[v] = target[v] /\ target[v] \in There \ crossed /\ target[c] = target[v]
      <4>1. \E f \in attached : f.row = target[v] /\ f.item = item /\ f.n \in base[c]
        BY <3>1 DEF SubmissionInv, CorrectionsKeepImages, Shown
      <4> QED BY <4>1, <3>1, <1>a, <1>b, <1>c, <2>r
    <3> QED BY <3>1, <1>a, <1>b, <1>c, <2>r
  <2>9. ShownAreFiles'
    <3>a. \A x \in There : \A m \in posted[x].shows : \E f \in attached : f.row = x /\ f.n = m
      BY DEF SubmissionInv, ShownAreFiles, NumbersAreFiles
    <3>b. \A c \in Correctors : target[c] \in There => \A m \in base[c] : \E f \in attached : f.row = target[c] /\ f.n = m
      BY DEF SubmissionInv, ShownAreFiles, NumbersAreFiles
    <3>1. \A x \in There' : \A m \in posted'[x].shows : \E f \in attached' : f.row = x /\ f.n = m
      <4>1. ASSUME NEW x \in There', NEW m \in posted'[x].shows
           PROVE  \E f \in attached' : f.row = x /\ f.n = m
        <5>1. CASE x # target[p]
          BY <5>1, <4>1, <3>a, <1>a, <1>b, <1>c, <2>r
        <5>2. CASE x = target[p] /\ m \in ShownImages(p)
          BY <5>2, <1>a, <1>b, <1>c, <2>r DEF SubmissionInv, AnswersAreTrue, ShownImages
        <5>3. CASE x = target[p] /\ p \in Correctors /\ m \in base[p]
          BY <5>3, <3>b, <1>a, <1>b, <1>c, <2>r
        <5> QED BY <4>1, <5>1, <5>2, <5>3, <1>a, <1>b, <1>c, <2>r DEF Images
      <4> QED BY <4>1
    <3>2. ASSUME NEW d \in Correctors, target'[d] \in There', NEW m \in base'[d]
         PROVE  \E f \in attached' : f.row = target'[d] /\ f.n = m
      BY <3>b, <3>2, <1>a, <1>b, <1>c, <2>r
    <3> QED BY <3>1, <3>2 DEF ShownAreFiles, NumbersAreFiles
  <2>10. SentOnce'
    <3>1. ASSUME NEW e \in attached'
         PROVE  e.by \in stumbled' \/ \E h \in got'[e.by] : h.n = e.n /\ h.item = e.item
      <4>1. CASE e.by = p
        BY <4>1, <1>a
      <4>2. CASE e.by # p
        <5>1. e \in attached /\ e.by \in FormPages
          BY <4>2, <1>b, <1>a DEF SubmissionShapes
        <5> QED BY <4>2, <5>1, <1>a DEF SubmissionInv, SentOnce
      <4> QED BY <4>1, <4>2
    <3>2. ASSUME NEW q \in FormPages, NEW h \in got'[q], NEW k \in got'[q], h.item = k.item
         PROVE  h = k
      BY <3>2, <1>a DEF SubmissionInv, SentOnce
    <3> QED BY <3>1, <3>2 DEF SentOnce
  <2> QED BY <2>1, <2>2, <2>3, <2>4, <2>5, <2>6, <2>7, <2>8, <2>9, <2>10 DEF SubmissionInv
<1>2. CASE UNCHANGED <<posted, crossed>>
  <2>r. /\ UNCHANGED posted /\ There' = There /\ UNCHANGED crossed
    BY <1>a, <1>2, <1>e DEF There
  <2>1. SubmissionShapes'
  BY <1>b, <2>r DEF TextFails, Move, Catch, SubmissionShapes, Steps
  <2>2. NumbersAreBounded'
  BY <1>a, <1>b, <1>c, <2>r DEF SubmissionInv, FormPages, NumbersAreBounded
  <2>3. RowsAreKnown'
  BY <1>a, <1>b, <1>c, <2>r DEF SubmissionInv, RowsAreKnown
  <2>4. TargetsAreOwn'
  BY <1>a, <1>b, <1>c, <2>r DEF SubmissionInv, TargetsAreOwn
  <2>5. AnswersAreTrue'
  BY <1>a, <1>b, <1>c, <2>r DEF SubmissionInv, AnswersAreTrue
  <2>6. GoneWasErased'
  BY <1>a, <1>b, <1>c, <2>r DEF SubmissionInv, GoneWasErased
  <2>7. FinishedIsComplete'
  BY <1>a, <1>b, <1>c, <2>r DEF SubmissionInv, FinishedIsComplete, Complete, Filed, Shown
  <2>8. CorrectionsKeepImages'
  BY <1>a, <1>b, <1>c, <2>r DEF SubmissionInv, CorrectionsKeepImages, FinishedIsComplete, Complete, Filed, Shown
  <2>9. ShownAreFiles'
  BY <1>a, <1>b, <1>c, <2>r DEF SubmissionInv, ShownAreFiles, NumbersAreFiles
  <2>10. SentOnce'
    <3>1. ASSUME NEW e \in attached'
         PROVE  e.by \in stumbled' \/ \E h \in got'[e.by] : h.n = e.n /\ h.item = e.item
      <4>1. CASE e.by = p
        BY <4>1, <1>a
      <4>2. CASE e.by # p
        <5>1. e \in attached /\ e.by \in FormPages
          BY <4>2, <1>b, <1>a DEF SubmissionShapes
        <5> QED BY <4>2, <5>1, <1>a DEF SubmissionInv, SentOnce
      <4> QED BY <4>1, <4>2
    <3>2. ASSUME NEW q \in FormPages, NEW h \in got'[q], NEW k \in got'[q], h.item = k.item
         PROVE  h = k
      BY <3>2, <1>a DEF SubmissionInv, SentOnce
    <3> QED BY <3>1, <3>2 DEF SentOnce
  <2> QED BY <2>1, <2>2, <2>3, <2>4, <2>5, <2>6, <2>7, <2>8, <2>9, <2>10 DEF SubmissionInv
<1> QED BY <1>e, <1>1, <1>2

LEMMA ClosePageKeeps ==
    ASSUME SubmissionInv, NEW p \in FormPages, ClosePage(p)
    PROVE  SubmissionInv'
<1>a. /\ p \in FormPages /\ at[p] \in {"form", "uploading", "discarding"} /\ at'[p] = "closed" /\ \A q \in FormPages : q # p => at'[q] = at[q]
      /\ UNCHANGED posted /\ There' = There
      /\ abandoned' = abandoned \cup (IF p \in Writers THEN {target[p]} \ {0} ELSE {})
      /\ UNCHANGED <<attached, arrivals, crossed, erased, stumbled, target, number, base, got>>
  BY DEF ClosePage, Move, rowVars, There, SubmissionInv, SubmissionShapes
<1>b. SubmissionShapes /\ Writers \subseteq FormPages /\ Correctors \subseteq FormPages /\ Writers \cap Correctors = {}
  BY SubmissionAssumption DEF SubmissionInv, FormPages
<1>c. /\ There \subseteq DOMAIN posted /\ 0 \notin There
      /\ \A x \in DOMAIN posted : posted[x].by \in Writers /\ posted[x].by \in FormPages /\ posted[x].no \in Nat
  BY <1>b, RowsAre
<1>1. SubmissionShapes'
  BY <1>a, <1>b DEF ClosePage, Move, SubmissionShapes, Steps
<1>2. NumbersAreBounded'
  BY <1>a, <1>b, <1>c DEF SubmissionInv, FormPages, NumbersAreBounded
<1>3. RowsAreKnown'
  BY <1>a, <1>b, <1>c DEF SubmissionInv, RowsAreKnown
<1>4. TargetsAreOwn'
  BY <1>a, <1>b, <1>c DEF SubmissionInv, TargetsAreOwn
<1>5. AnswersAreTrue'
  BY <1>a, <1>b, <1>c DEF SubmissionInv, AnswersAreTrue
<1>6. GoneWasErased'
  BY <1>a, <1>b, <1>c DEF SubmissionInv, GoneWasErased
<1>7. FinishedIsComplete'
  BY <1>a, <1>b, <1>c DEF SubmissionInv, FinishedIsComplete, Complete, Filed, Shown
<1>8. CorrectionsKeepImages'
  BY <1>a, <1>b, <1>c DEF SubmissionInv, CorrectionsKeepImages, FinishedIsComplete, Complete, Filed, Shown
<1>9. ShownAreFiles'
  BY <1>a, <1>b, <1>c DEF SubmissionInv, ShownAreFiles, NumbersAreFiles
<1>10. SentOnce'
  BY <1>a, <1>b, <1>c DEF SubmissionInv, SentOnce
<1> QED BY <1>1, <1>2, <1>3, <1>4, <1>5, <1>6, <1>7, <1>8, <1>9, <1>10 DEF SubmissionInv

LEMMA DeleteNoticeKeeps ==
    ASSUME SubmissionInv, NEW r \in There, DeleteNotice(r)
    PROVE  SubmissionInv'
<1>a. /\ Removed(r) /\ erased' = erased \cup {r}
      /\ UNCHANGED <<arrivals, crossed, abandoned, stumbled, at, target, number, base, got>>
  BY DEF DeleteNotice, pageVars
<1>b. SubmissionShapes /\ Writers \subseteq FormPages /\ Correctors \subseteq FormPages /\ Writers \cap Correctors = {}
  BY SubmissionAssumption DEF SubmissionInv, FormPages
<1>c. /\ There \subseteq DOMAIN posted /\ 0 \notin There
      /\ \A x \in DOMAIN posted : posted[x].by \in Writers /\ posted[x].by \in FormPages /\ posted[x].no \in Nat
  BY <1>b, RowsAre
<1>s. posted' \in Seq(RowsPosted)
  BY <1>a, <1>b, RemovedRow DEF DeleteNotice
<1>r. /\ DOMAIN posted' = DOMAIN posted
      /\ \A s \in DOMAIN posted : /\ posted'[s].by = posted[s].by /\ posted'[s].no = posted[s].no
                                  /\ posted'[s].shows = posted[s].shows
      /\ There' = There \ {r} /\ r \in There
      /\ attached' \subseteq attached /\ \A f \in attached : f.row # r => f \in attached' 
  BY <1>a, <1>b, RemovedRow DEF DeleteNotice
<1>1. SubmissionShapes'
  BY <1>a, <1>b, <1>r, <1>s DEF SubmissionShapes
<1>2. NumbersAreBounded'
  BY <1>a, <1>b, <1>c, <1>r DEF SubmissionInv, FormPages, NumbersAreBounded
<1>3. RowsAreKnown'
  BY <1>a, <1>b, <1>c, <1>r DEF SubmissionInv, RowsAreKnown
<1>4. TargetsAreOwn'
  BY <1>a, <1>b, <1>c, <1>r DEF SubmissionInv, TargetsAreOwn
<1>5. AnswersAreTrue'
  BY <1>a, <1>b, <1>c, <1>r DEF SubmissionInv, AnswersAreTrue
<1>6. GoneWasErased'
  BY <1>a, <1>b, <1>c, <1>r DEF SubmissionInv, GoneWasErased
<1>7. FinishedIsComplete'
  BY <1>a, <1>b, <1>c, <1>r DEF SubmissionInv, FinishedIsComplete, Complete, Filed, Shown
<1>8. CorrectionsKeepImages'
  BY <1>a, <1>b, <1>c, <1>r DEF SubmissionInv, CorrectionsKeepImages, FinishedIsComplete, Complete, Filed, Shown
<1>9. ShownAreFiles'
  <2>a. \A x \in There : \A m \in posted[x].shows : \E f \in attached : f.row = x /\ f.n = m
    BY DEF SubmissionInv, ShownAreFiles, NumbersAreFiles
  <2>b. \A c \in Correctors : target[c] \in There => \A m \in base[c] : \E f \in attached : f.row = target[c] /\ f.n = m
    BY DEF SubmissionInv, ShownAreFiles, NumbersAreFiles
  <2>1. \A x \in There' : \A m \in posted'[x].shows : \E f \in attached' : f.row = x /\ f.n = m
    BY <2>a, <1>a, <1>b, <1>c, <1>r
  <2>2. ASSUME NEW d \in Correctors, target'[d] \in There', NEW m \in base'[d]
       PROVE  \E f \in attached' : f.row = target'[d] /\ f.n = m
    BY <2>b, <2>2, <1>a, <1>b, <1>c, <1>r
  <2> QED BY <2>1, <2>2 DEF ShownAreFiles, NumbersAreFiles
<1>10. SentOnce'
  BY <1>a, <1>b, <1>c, <1>r DEF SubmissionInv, SentOnce
<1> QED BY <1>1, <1>2, <1>3, <1>4, <1>5, <1>6, <1>7, <1>8, <1>9, <1>10 DEF SubmissionInv

LEMMA SubmissionInitInv == SubmissionInit => SubmissionInv
<1> SUFFICES ASSUME SubmissionInit
             PROVE  SubmissionInv
  OBVIOUS
<1>a. /\ posted = <<>> /\ attached = {} /\ arrivals = 0 /\ crossed = {} /\ DOMAIN posted = {} /\ There = {}
      /\ \A p \in FormPages : at[p] = "form" /\ target[p] = 0 /\ got[p] = {}
      /\ \A w \in Writers : number[w] = 0
      /\ Writers \subseteq FormPages /\ Correctors \subseteq FormPages
  BY DEF SubmissionInit, There, FormPages
<1>1. SubmissionShapes
  <2>1. posted \in Seq(RowsPosted)
    BY <1>a
  <2>2. /\ at \in [FormPages -> Steps] /\ target \in [FormPages -> Nat]
        /\ number \in [Writers -> Nat] /\ base \in [Correctors -> SUBSET Nat]
        /\ got \in [FormPages -> SUBSET Received]
    BY DEF SubmissionInit, Steps
  <2> QED BY <2>1, <2>2, <1>a DEF SubmissionShapes
<1>2. NumbersAreBounded
  <2>1. 0 \in Nat /\ (\A r \in DOMAIN posted : posted[r].no <= 0) /\ \A w \in Writers : number[w] <= 0
    BY <1>a
  <2> QED BY <2>1 DEF NumbersAreBounded
<1>3. RowsAreKnown /\ TargetsAreOwn
  BY <1>a DEF RowsAreKnown, TargetsAreOwn
<1>4. AnswersAreTrue /\ GoneWasErased /\ FinishedIsComplete
  BY <1>a DEF AnswersAreTrue, GoneWasErased, FinishedIsComplete
<1>5. CorrectionsKeepImages /\ ShownAreFiles /\ SentOnce
  BY <1>a DEF CorrectionsKeepImages, ShownAreFiles, SentOnce
<1> QED BY <1>1, <1>2, <1>3, <1>4, <1>5 DEF SubmissionInv

LEMMA SubmissionsUntouched ==
    ASSUME SubmissionInv, UNCHANGED submissionVars
    PROVE  SubmissionInv'
<1>a. /\ UNCHANGED <<posted, attached, arrivals, at, target, number, base, got>>
      /\ UNCHANGED <<abandoned, erased, stumbled, crossed>>
  BY DEF submissionVars, rowVars, pageVars, historyVars
<1>b. There' = There
  BY <1>a DEF There
<1>1. SubmissionShapes' /\ NumbersAreBounded' /\ RowsAreKnown' /\ TargetsAreOwn'
  BY <1>a, <1>b DEF SubmissionInv, SubmissionShapes, NumbersAreBounded, RowsAreKnown, TargetsAreOwn
<1>2. AnswersAreTrue' /\ GoneWasErased'
  BY <1>a, <1>b DEF SubmissionInv, AnswersAreTrue, GoneWasErased
<1>3. FinishedIsComplete' /\ CorrectionsKeepImages'
  BY <1>a, <1>b DEF SubmissionInv, FinishedIsComplete, CorrectionsKeepImages, Complete, Filed, Shown
<1>4. ShownAreFiles' /\ SentOnce'
  BY <1>a, <1>b DEF SubmissionInv, ShownAreFiles, NumbersAreFiles, SentOnce
<1> QED BY <1>1, <1>2, <1>3, <1>4 DEF SubmissionInv

LEMMA SubmissionStep == SubmissionInv /\ [SubmissionNext]_submissionVars => SubmissionInv'
<1> SUFFICES ASSUME SubmissionInv, SubmissionNext
             PROVE  SubmissionInv'
  BY SubmissionsUntouched
<1>1. CASE \E w \in Writers :
             \/ ReadNumber(w) \/ CreateNotice(w) \/ NumberIsTaken(w) \/ CreationFails(w)
             \/ DiscardOwn(w) \/ DiscardFails(w)
  BY <1>1, ReadNumberKeeps, CreateNoticeKeeps, NumberIsTakenKeeps, CreationFailsKeeps,
     DiscardOwnKeeps, DiscardFailsKeeps
<1>2. CASE \E c \in Correctors, r \in There : OpenCorrection(c, r)
  BY <1>2, OpenCorrectionKeeps
<1>3. CASE \E p \in FormPages :
             UploadItem(p) \/ UploadFails(p) \/ WriteText(p) \/ TextFails(p) \/ ClosePage(p)
  BY <1>3, UploadItemKeeps, UploadFailsKeeps, WriteTextKeeps, TextFailsKeeps, ClosePageKeeps
<1>4. CASE \E r \in There : DeleteNotice(r)
  BY <1>4, DeleteNoticeKeeps
<1> QED BY <1>1, <1>2, <1>3, <1>4 DEF SubmissionNext

LEMMA CompleteIsAsGiven ==
    ASSUME SubmissionShapes, NEW r \in There
    PROVE  AsGiven(r) <=> Complete(posted[r].by, r)
BY DEF AsGiven, FilesOf, Complete, Filed, Shown

LEMMA SubmissionsFollow == SubmissionInv => SubmissionsAreSound
<1> SUFFICES ASSUME SubmissionInv
             PROVE  SubmissionsAreSound
  OBVIOUS
<1>a. /\ SubmissionShapes /\ RowsAreKnown /\ TargetsAreOwn /\ GoneWasErased /\ FinishedIsComplete
      /\ ShownAreFiles /\ SentOnce
  BY DEF SubmissionInv
<1>b. \A r \in There : posted[r].by \in Writers
  BY <1>a, RowsAre
<1>1. IncompleteIsExplained
  <2> SUFFICES ASSUME NEW r \in There, r \notin abandoned, r \notin crossed,
                      at[posted[r].by] \notin {"uploading", "discarding"}
               PROVE  AsGiven(r)
    BY <1>a DEF IncompleteIsExplained, RowsAreKnown
  <2>1. target[posted[r].by] = r /\ at[posted[r].by] = "finished"
    BY <1>a DEF RowsAreKnown
  <2>2. Complete(posted[r].by, r)
    BY <1>a, <1>b, <2>1 DEF FinishedIsComplete
  <2> QED BY <1>a, <2>2, CompleteIsAsGiven
<1>2. OneRowPerPage
  BY <1>a DEF OneRowPerPage, RowsAreKnown
<1>3. SuccessIsComplete
  <2> SUFFICES ASSUME NEW w \in Writers, at[w] = "finished"
               PROVE  IF target[w] \in There THEN AsGiven(target[w]) \/ target[w] \in crossed
                      ELSE target[w] \in erased
    BY DEF SuccessIsComplete
  <2>1. posted[target[w]].by = w
    BY <1>a DEF TargetsAreOwn
  <2>2. CASE target[w] \in There
    BY <1>a, <2>1, <2>2, CompleteIsAsGiven DEF FinishedIsComplete
  <2>3. CASE target[w] \notin There
    BY <1>a, <2>3 DEF GoneWasErased
  <2> QED BY <2>2, <2>3
<1>4. ShownIsAttached
  BY <1>a DEF ShownIsAttached, ShownAreFiles, NumbersAreFiles, FilesOf
<1>5. TwiceOnlyAfterAFailure
  <2> SUFFICES ASSUME NEW f \in attached, NEW g \in attached, f.n # g.n, f.by = g.by,
                      f.item = g.item, f.by \notin stumbled
               PROVE  FALSE
    BY DEF TwiceOnlyAfterAFailure
  <2>1. PICK h \in got[f.by] : h.n = f.n /\ h.item = f.item
    BY <1>a DEF SentOnce
  <2>2. PICK k \in got[f.by] : k.n = g.n /\ k.item = g.item
    BY <1>a DEF SentOnce
  <2>3. f.by \in FormPages
    BY <1>a DEF SubmissionShapes
  <2> QED BY <1>a, <2>1, <2>2, <2>3 DEF SentOnce
<1> QED BY <1>1, <1>2, <1>3, <1>4, <1>5 DEF SubmissionsAreSound

\* A notice or lost item the public sees incomplete is being worked on or was given up,
\* a page's failed and repeated submissions leave one row, a page that reports success
\* has a complete row unless somebody else deleted or rewrote it, the images in a text
\* are its own, and nothing is attached twice without a failure before: however calls
\* fail, pages close and corrections meet, for every number of pages and files
\* (NewNoticePage.tsx, EditNoticePage.tsx, NewLostItemPage.tsx).
THEOREM SoundSubmissions == SubmissionSpec => []SubmissionsAreSound
<1>1. SubmissionSpec => []SubmissionInv
  BY SubmissionInitInv, SubmissionStep, PTL DEF SubmissionSpec
<1> QED BY <1>1, SubmissionsFollow, PTL

\* A file belongs to a row that was made, whoever deletes the row meanwhile.
FilesHaveRows == \A f \in attached : f.row \in DOMAIN posted

\* What was posted, its files and the pages that post are of their kind, and every file
\* is of a row that was made, for every number of pages and files (notices.service.ts,
\* lost-items.service.ts).
THEOREM SubmissionTypes == SubmissionSpec => []SubmissionTypeOK
<1>1. ASSUME SubmissionInv, FilesHaveRows, [SubmissionNext]_submissionVars
      PROVE  FilesHaveRows'
  <2>1. posted \in Seq(RowsPosted)
    BY <1>1 DEF SubmissionInv, SubmissionShapes
  <2>2. ASSUME NEW w \in Writers, Inserted(w)
        PROVE  DOMAIN posted \subseteq DOMAIN posted'
    BY <2>1, <2>2 DEF Inserted
  <2>3. ASSUME NEW p \in FormPages, Rewritten(p)
        PROVE  DOMAIN posted' = DOMAIN posted
    BY <2>3 DEF Rewritten
  <2>4. ASSUME NEW p \in FormPages, NEW item, Stores(p, item)
        PROVE  \A f \in attached' : f \in attached \/ f.row \in DOMAIN posted
    BY <2>4 DEF Stores, There
  <2>5. ASSUME NEW r, Removed(r)
        PROVE  DOMAIN posted' = DOMAIN posted /\ attached' \subseteq attached
    BY <2>5 DEF Removed
  <2>6. CASE UNCHANGED submissionVars
    BY <1>1, <2>6 DEF FilesHaveRows, submissionVars, rowVars
  <2>7. ASSUME NEW w \in Writers,
               \/ ReadNumber(w) \/ CreateNotice(w) \/ NumberIsTaken(w) \/ CreationFails(w)
               \/ DiscardOwn(w) \/ DiscardFails(w)
        PROVE  FilesHaveRows'
    <3>1. \/ UNCHANGED <<posted, attached>> \/ (Inserted(w) /\ attached' = attached)
          \/ \E r : Removed(r)
      BY <2>7 DEF ReadNumber, CreateNotice, NumberIsTaken, CreationFails, DiscardOwn, DiscardFails, rowVars
    <3> QED BY <1>1, <2>2, <2>5, <3>1 DEF FilesHaveRows
  <2>8. ASSUME NEW p \in FormPages,
               UploadItem(p) \/ UploadFails(p) \/ WriteText(p) \/ TextFails(p) \/ ClosePage(p)
        PROVE  FilesHaveRows'
    <3>1. \/ UNCHANGED <<posted, attached>> \/ (Rewritten(p) /\ attached' = attached)
          \/ (\E item : Stores(p, item)) /\ posted' = posted
      BY <2>8 DEF UploadItem, UploadFails, WriteText, TextFails, ClosePage, rowVars
    <3> QED BY <1>1, <2>3, <2>4, <3>1 DEF FilesHaveRows
  <2>9. ASSUME NEW c \in Correctors, NEW r \in There, OpenCorrection(c, r)
        PROVE  FilesHaveRows'
    BY <1>1, <2>9 DEF OpenCorrection, rowVars, FilesHaveRows
  <2>10. ASSUME NEW r \in There, DeleteNotice(r)
         PROVE  FilesHaveRows'
    BY <1>1, <2>5, <2>10 DEF DeleteNotice, FilesHaveRows
  <2> QED BY <1>1, <2>6, <2>7, <2>8, <2>9, <2>10 DEF SubmissionNext
<1>2. SubmissionInit => FilesHaveRows
  BY DEF SubmissionInit, FilesHaveRows
<1>3. ASSUME SubmissionInv, FilesHaveRows
      PROVE  SubmissionTypeOK
  <2>1. /\ \A r \in DOMAIN posted : posted[r].by \in Writers /\ posted[r].shows \subseteq Nat
        /\ \A p \in FormPages : target[p] \in {0} \cup DOMAIN posted
        /\ at \in [FormPages -> Steps]
    BY <1>3, RowsAre DEF SubmissionInv, SubmissionShapes, TargetsAreOwn
  <2>2. \A p \in FormPages : target[p] \in 0 .. Len(posted)
    <3>1. Len(posted) \in Nat /\ DOMAIN posted = 1 .. Len(posted)
      BY <1>3 DEF SubmissionInv, SubmissionShapes
    <3> QED BY <2>1, <3>1
  <2>3. \A f \in attached : f.by \in FormPages
    BY <1>3 DEF SubmissionInv, SubmissionShapes
  <2>4. target \in [FormPages -> 0 .. Len(posted)]
    <3>1. target \in [FormPages -> Nat]
      BY <1>3 DEF SubmissionInv, SubmissionShapes
    <3> HIDE <1>3
    <3> QED BY <2>2, <3>1
  <2> QED BY <1>3, <2>1, <2>3, <2>4 DEF FilesHaveRows, SubmissionTypeOK, Steps
<1> QED BY <1>1, <1>2, <1>3, SubmissionInitInv, SubmissionStep, PTL DEF SubmissionSpec
=============================================================================
