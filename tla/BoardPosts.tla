----------------------------- MODULE BoardPosts -----------------------------
(***************************************************************************)
(* A post of a board from its draft to its deletion (boards.service.ts)    *)
(* and the page that writes it (NewBoardPostPage.tsx, EditBoardPostPage).  *)
(*                                                                         *)
(* The page saves the draft by itself while its author types, and submits  *)
(* in several calls: save, upload each file, save the final document,      *)
(* publish.  The server checks a document against the status it reads and  *)
(* writes it in a statement of its own, so calls of one page, or of two    *)
(* tabs with one draft, overtake each other.                               *)
(* One post is modelled; posts share nothing but the next public number.   *)
(***************************************************************************)
EXTENDS Naturals, FiniteSets

CONSTANTS
    Tabs,           \* open pages of the author
    ImagesOf,       \* the images in the editor of each of them
    Documents,      \* what can be in the editor
    Blank,          \* the document without text (there may be a title)
    PollOf,         \* the options of the poll in a document
    Edits,          \* calls of updatePost of the page that edits a published post
    EditedTo,       \* the document each of them sends
    Voters, Choice, \* who votes, and for which option
    MaxTyped,       \* bound: changes of each editor
    MaxFailedCalls,    \* bound: failing calls of submissions
    NoDocument

ASSUME BoardAssumption ==
    /\ Blank \in Documents /\ NoDocument \notin Documents
    /\ EditedTo \in [Edits -> Documents] /\ Edits \cap Tabs = {}

VARIABLES
    post,       \* the row of posts: status, hidden, document, embedded images
    uploads,    \* rows of files of the post, named <<page, image, attempt>>
    public,     \* those of them with visibility public
    votes,      \* the voters with a row in post_poll_votes
    page,       \* the state of each page
    sent,       \* the updates under way: what was checked against which status
    publishing, \* the document each publication has checked
    voting,     \* where each voter is
    loose,      \* history: the document was not checked against its present status
    revised     \* history: voters whose poll changed after their option was checked

boardVars == <<post, uploads, public, votes, page, sent, publishing, voting, loose, revised>>

Savers == {"autosave", "submit"} \X Tabs
Callers == Savers \cup ({"edit"} \X Edits)
NoCall == [doc |-> NoDocument, images |-> {}, status |-> "none"]

BoardInit ==
    /\ post = [status |-> "absent", hidden |-> FALSE, doc |-> NoDocument, images |-> {}]
    /\ uploads = {} /\ public = {}
    /\ votes = {}
    /\ page = [t \in Tabs |-> [doc |-> Blank, knows |-> FALSE, typed |-> 0,
                               step |-> "editing", want |-> NoDocument, attempt |-> 0]]
    /\ sent = [c \in Callers |-> NoCall]
    /\ publishing = [t \in Tabs |-> NoDocument]
    /\ voting = [v \in Voters |-> "idle"]
    /\ loose = FALSE /\ revised = {}

\* The images a submission has attached so far.
Own(t) == {f \in uploads : f[1] = t /\ f[3] = page[t].attempt}

Failures == {f \in Tabs \X (1 .. MaxFailedCalls) : page[f[1]].attempt >= f[2]}

\* What the server found under the post's id is still of use to a caller.
Exists == post.status \in {"draft", "published"}

-----------------------------------------------------------------------------
\* updatePost: read the post, refuse blank documents and private images of a
\* published one.
CheckUpdate(c, d, is) ==
    /\ sent[c] = NoCall /\ Exists
    /\ is \subseteq uploads
    /\ post.status = "published" => d # Blank /\ is \subseteq public
    /\ sent' = [sent EXCEPT ![c] = [doc |-> d, images |-> is, status |-> post.status]]

Written(c) == [post EXCEPT !.doc = sent[c].doc, !.images = sent[c].images]

\* The voters who had their option checked against another poll.
RevisedBy(d) ==
    revised \cup {v \in Voters : /\ v \in votes \/ voting[v] = "checked"
                                 /\ PollOf[d] # PollOf[post.doc]}

\* ... and write what was sent, whatever the post has become.
WriteUpdate(c) ==
    /\ sent[c] # NoCall
    /\ post' = IF Exists THEN Written(c) ELSE post
    /\ loose' = IF Exists THEN sent[c].status # post.status ELSE loose
    /\ revised' = IF Exists THEN RevisedBy(sent[c].doc) ELSE revised
    /\ sent' = [sent EXCEPT ![c] = NoCall]

-----------------------------------------------------------------------------
\* The author types.
Type(t, d) ==
    /\ page[t].step # "done" /\ page[t].typed < MaxTyped[t] /\ d # page[t].doc
    /\ page' = [page EXCEPT ![t].doc = d, ![t].typed = @ + 1]
    /\ UNCHANGED <<post, uploads, public, votes, sent, publishing, voting, loose, revised>>

\* A second tab takes up the draft that getLatestOwnedDraft finds.
ResumeDraft(t) ==
    /\ page[t].step = "editing" /\ ~page[t].knows /\ page[t].typed = 0
    /\ post.status = "draft"
    /\ page' = [page EXCEPT ![t].doc = post.doc, ![t].knows = TRUE]
    /\ UNCHANGED <<post, uploads, public, votes, sent, publishing, voting, loose, revised>>

\* persistDraft for the first time, by itself or for a submission.
CreateDraft(t, step) ==
    /\ page[t].step = "editing" /\ ~page[t].knows
    /\ post.status = "absent" /\ page[t].typed > 0
    /\ step = "uploading" => page[t].doc # Blank
    /\ post' = [post EXCEPT !.status = "draft", !.doc = page[t].doc]
    /\ page' = [page EXCEPT ![t].knows = TRUE, ![t].step = step, ![t].want = page[t].doc]
    /\ UNCHANGED <<uploads, public, votes, sent, publishing, voting, loose, revised>>

\* The page saves 1.5 s after the last change unless there are files in the
\* editor, and whenever its author asks for it, in the middle of a submission as
\* well; one save of a page at a time (saveInFlightRef), without the files.
SaveDraft(t) ==
    /\ page[t].step # "done" /\ page[t].knows
    /\ CheckUpdate(<<"autosave", t>>, page[t].doc, {})
    /\ UNCHANGED <<post, uploads, public, votes, page, publishing, voting, loose, revised>>

\* A submission works on the document of this moment; it saves it, or waits for
\* the save under way, which may be of an older one.
Submit(t) ==
    /\ page[t].step = "editing" /\ page[t].doc # Blank /\ page[t].knows
    /\ page' = [page EXCEPT ![t].step = "saving", ![t].want = page[t].doc]
    /\ IF sent[<<"autosave", t>>] = NoCall
       THEN CheckUpdate(<<"autosave", t>>, page[t].doc, {})
       ELSE UNCHANGED sent
    /\ UNCHANGED <<post, uploads, public, votes, publishing, voting, loose, revised>>

\* A save is written; the answer is the same when there was nothing to write to.
FinishSave(t) ==
    LET c == <<"autosave", t>> IN
    /\ WriteUpdate(c)
    /\ page' = [page EXCEPT ![t].step = IF @ = "saving" THEN "uploading" ELSE @]
    /\ UNCHANGED <<uploads, public, votes, publishing, voting>>

\* Files of a draft are uploaded as private ones (the upload itself is FileOutbox).
UploadImage(t, i) ==
    /\ page[t].step = "uploading" /\ Exists /\ i \in ImagesOf[t]
    /\ <<t, i, page[t].attempt>> \notin uploads
    /\ uploads' = uploads \cup {<<t, i, page[t].attempt>>}
    /\ UNCHANGED <<post, public, votes, page, sent, publishing, voting, loose, revised>>

\* A failing call ends the submission; the next one starts from the beginning.
SubmissionFails(t) ==
    /\ page[t].step \in {"uploading", "publishing"} /\ publishing[t] = NoDocument
    /\ Cardinality(Failures) < MaxFailedCalls
    /\ page' = [page EXCEPT ![t].step = "editing", ![t].attempt = @ + 1]
    /\ UNCHANGED <<post, uploads, public, votes, sent, publishing, voting, loose, revised>>

\* The final document embeds the images uploaded for it.
CheckFinal(t) ==
    /\ page[t].step = "uploading" /\ Cardinality(Own(t)) = Cardinality(ImagesOf[t])
    /\ CheckUpdate(<<"submit", t>>, page[t].want, Own(t))
    /\ page' = [page EXCEPT ![t].step = "updating"]
    /\ UNCHANGED <<post, uploads, public, votes, publishing, voting, loose, revised>>

WriteFinal(t) ==
    /\ WriteUpdate(<<"submit", t>>)
    /\ page' = [page EXCEPT ![t].step = "publishing"]
    /\ UNCHANGED <<uploads, public, votes, publishing, voting>>

\* publishPost: the document is looked at ...
CheckPublication(t) ==
    /\ page[t].step = "publishing" /\ publishing[t] = NoDocument /\ Exists
    /\ post.doc # Blank
    /\ publishing' = [publishing EXCEPT ![t] = post.doc]
    /\ UNCHANGED <<post, uploads, public, votes, page, sent, voting, loose, revised>>

\* Slip: the files of the draft stay private.
MutantPublish(t) ==
    /\ publishing[t] # NoDocument
    /\ post' = IF Exists THEN [post EXCEPT !.status = "published"] ELSE post
    /\ loose' = (publishing[t] # post.doc)
    /\ publishing' = [publishing EXCEPT ![t] = NoDocument]
    /\ page' = [page EXCEPT ![t].step = "done"]
    /\ UNCHANGED <<uploads, public, votes, sent, voting, revised>>

\* ... and then published with all files, whatever has been written since.
Publish(t) ==
    /\ publishing[t] # NoDocument
    /\ public' = IF Exists THEN public \cup uploads ELSE public
    /\ post' = IF Exists THEN [post EXCEPT !.status = "published"] ELSE post
    /\ loose' = (publishing[t] # post.doc)
    /\ publishing' = [publishing EXCEPT ![t] = NoDocument]
    /\ page' = [page EXCEPT ![t].step = "done"]
    /\ UNCHANGED <<uploads, votes, sent, voting, revised>>

-----------------------------------------------------------------------------
\* deleteDraft: a draft goes with its files (enqueued in the same transaction),
\* a published post is hidden.
DeletePost ==
    /\ Exists
    /\ IF post.status = "draft"
       THEN /\ post' = [post EXCEPT !.status = "gone", !.doc = NoDocument, !.images = {}]
            /\ uploads' = {} /\ public' = {} /\ votes' = {}
       ELSE post' = [post EXCEPT !.hidden = TRUE] /\ UNCHANGED <<uploads, public, votes>>
    /\ UNCHANGED <<page, sent, publishing, voting, loose, revised>>

\* updatePostHidden of the moderators.
ShowPost ==
    /\ post.hidden /\ post' = [post EXCEPT !.hidden = FALSE]
    /\ UNCHANGED <<uploads, public, votes, page, sent, publishing, voting, loose, revised>>

\* The page that edits a published post uploads its new image as a public file ...
AttachPicture(e) ==
    /\ post.status = "published" /\ sent[<<"edit", e>>] = NoCall
    /\ <<e, e, 0>> \notin uploads
    /\ uploads' = uploads \cup {<<e, e, 0>>} /\ public' = public \cup {<<e, e, 0>>}
    /\ UNCHANGED <<post, votes, page, sent, publishing, voting, loose, revised>>

\* ... and sends the document with the images it has had and the new one.
CheckEdit(e) ==
    /\ post.status = "published"
    /\ CheckUpdate(<<"edit", e>>, EditedTo[e], post.images \cup {f \in uploads : f[1] = e})
    /\ UNCHANGED <<post, uploads, public, votes, page, publishing, voting, loose, revised>>

WriteEdit(e) ==
    /\ WriteUpdate(<<"edit", e>>)
    /\ UNCHANGED <<uploads, public, votes, page, publishing, voting>>

\* votePostPoll: the option is looked for in the poll of the document ...
CheckVote(v) ==
    /\ voting[v] = "idle" /\ v \notin votes
    /\ post.status = "published" /\ ~post.hidden /\ Choice[v] \in PollOf[post.doc]
    /\ voting' = [voting EXCEPT ![v] = "checked"]
    /\ UNCHANGED <<post, uploads, public, votes, page, sent, publishing, loose, revised>>

\* ... and inserted; there is one row for a user and poll.
CastVote(v) ==
    /\ voting[v] = "checked"
    /\ voting' = [voting EXCEPT ![v] = "idle"]
    /\ votes' = votes \cup {v}
    /\ UNCHANGED <<post, uploads, public, page, sent, publishing, loose, revised>>

BoardNext ==
    \/ \E t \in Tabs :
        \/ ResumeDraft(t) \/ SaveDraft(t) \/ FinishSave(t) \/ Submit(t)
        \/ SubmissionFails(t) \/ CheckFinal(t) \/ WriteFinal(t) \/ CheckPublication(t) \/ Publish(t)
        \/ \E d \in Documents : Type(t, d)
        \/ \E i \in ImagesOf[t] : UploadImage(t, i)
        \/ \E step \in {"editing", "uploading"} : CreateDraft(t, step)
    \/ DeletePost \/ ShowPost
    \/ \E e \in Edits : AttachPicture(e) \/ CheckEdit(e) \/ WriteEdit(e)
    \/ \E v \in Voters : CheckVote(v) \/ CastVote(v)

BoardSpec == BoardInit /\ [][BoardNext]_boardVars

-----------------------------------------------------------------------------
BoardTypeOK ==
    /\ post.status \in {"absent", "draft", "published", "gone"}
    /\ post.doc \in Documents \cup {NoDocument}
    /\ post.images \subseteq uploads
    /\ public \subseteq uploads
    /\ votes \subseteq Voters

\* What everybody sees of a published post is whole: it has text, and the images
\* it embeds are public, unless its document was checked against a status or a
\* document that was overtaken before it was written (updatePost, publishPost).
WholePost ==
    post.status = "published" => loose \/ (post.doc # Blank /\ post.images \subseteq public)

\* Nothing of a draft is public.
PrivateDraft == post.status = "draft" => public = {}

\* A file of a submission hangs on the post once, unless a submission failed
\* half way and was sent again.
AttachedOnce == \A t \in Tabs : page[t].attempt = 0 => \A f \in uploads : f[1] = t => f[3] = 0

\* A vote is for an option that is there, unless the author changed the poll
\* after the vote was checked; such a vote is not counted and cannot be repeated.
VotesCount ==
    \A v \in votes : post.status = "published" => v \in revised \/ Choice[v] \in PollOf[post.doc]

\* What a post promises its readers and voters, whoever overtakes whom.
PostsAreSound == WholePost /\ PrivateDraft /\ AttachedOnce /\ VotesCount
=============================================================================
