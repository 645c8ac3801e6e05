----------------------------- MODULE LinkMessage -----------------------------
(***************************************************************************)
(* How the answer of a link parser is cut into the messages that QQ        *)
(* accepts, and into the few replies that an official bot has left.  A     *)
(* message is a sequence of kinds of segments; a batch is a sequence of    *)
(* positions in it.                                                        *)
(***************************************************************************)
EXTENDS Integers, Sequences, SequencesExt

CONSTANTS
  MaxLen,    \* longest message
  MaxMedia,  \* MAX_MEDIA_PER_MESSAGE
  MaxBudget, \* replies of an event
  None

VARIABLES
  parser,
  message,
  budget,  \* official_reply_remaining, or None on OneBot
  batches, \* of reply_batches, or the official reply: one batch of one segment each
  notice,  \* media that the caption announces to be left out
  preview  \* images drawn into the album preview

vars == <<parser, message, budget, batches, notice, preview>>

Kinds == {"text", "blank", "image", "video"}

Init ==
  /\ parser \in {"bilibili", "douyin", "x"}
  /\ message \in UNION {[1 .. n -> Kinds] : n \in 0 .. MaxLen}
  /\ budget \in {None} \cup 0 .. MaxBudget
  /\ batches = None /\ notice = 0 /\ preview = {}

All == [i \in 1 .. Len(message) |-> i]
Of(s, kinds) == SelectSeq(s, LAMBDA i : message[i] \in kinds)
NonEmpty(s)  == IF s = <<>> THEN <<>> ELSE <<s>>

\* split_media_and_caption
Media   == Of(All, {"image", "video"})
Caption == Of(All, {"text"})

-----------------------------------------------------------------------------
(* reply_batches *)

\* _chunk_media
Chunks(s) ==
  [k \in 1 .. (Len(s) + MaxMedia - 1) \div MaxMedia |->
     SubSeq(s, (k - 1) * MaxMedia + 1, IF k * MaxMedia < Len(s) THEN k * MaxMedia ELSE Len(s))]

\* Few images and the text make one message.
Joined(chunks, caption) ==
  IF Len(chunks) = 1 /\ caption # <<>> THEN <<chunks[1] \o caption>>
  ELSE chunks \o NonEmpty(caption)

Bilibili ==
  [k \in 1 .. Len(Of(Media, {"video"})) |-> <<Of(Media, {"video"})[k]>>]
    \o Joined(Chunks(Of(Media, {"image"})), Caption)

Douyin ==
  IF Of(Media, {"video"}) = <<>> THEN Joined(Chunks(Media), Caption)
  ELSE Chunks(Media) \o NonEmpty(Caption)

\* _text_image_batches: too many images are parted from the text, which stays on its side.
TextImage(s) ==
  LET images == Of(s, {"image"})
      text   == Of(s, {"text"})
  IN IF Len(images) <= MaxMedia THEN NonEmpty(s)
     ELSE IF text # <<>> /\ text[1] < images[1] THEN <<text>> \o Chunks(images)
     ELSE Chunks(images) \o NonEmpty(text)

Flush(state, i) == [out |-> state.out \o TextImage(state.open) \o <<<<i>>>>, open |-> <<>>]

\* One scan; a video ends what came before it.
X ==
  LET scan == FoldLeft(LAMBDA state, i :
                         IF message[i] = "video" THEN Flush(state, i)
                         ELSE IF message[i] = "blank" THEN state
                         ELSE [state EXCEPT !.open = Append(@, i)],
                       [out |-> <<>>, open |-> <<>>], All)
  IN scan.out \o TextImage(scan.open)

reply_batches == CASE parser = "bilibili" -> Bilibili [] parser = "douyin" -> Douyin [] parser = "x" -> X

-----------------------------------------------------------------------------
(* official_reply_message, prepare_official_reply *)

\* Only Bilibili has dropped blank text when it asks whether there is a caption.
HasCaption ==
  Caption # <<>> \/ (parser = "x" /\ Of(All, {"blank"}) # <<>>)

Limit(n, caption) == IF caption \/ n > budget THEN budget - 1 ELSE budget

\* Douyin draws the images of an album into one when they are too many.
Crowded ==
  /\ parser = "douyin" /\ budget > 1 /\ Len(Of(Media, {"image"})) > 1
  /\ Len(Media) + (IF Caption # <<>> THEN 1 ELSE 0) > budget

\* The preview is the first medium; position 0 stands for it.
OfficialReply(drawn) ==
  LET media   == IF drawn THEN <<0>> \o Of(Media, {"video"}) ELSE Media
      caption == drawn \/ HasCaption
      limit   == Limit(Len(media), caption)
      kept    == SubSeq(media, 1, IF limit < Len(media) THEN limit ELSE Len(media))
      omitted == Len(media) - Len(kept)
      text    == drawn \/ Caption # <<>> \/ omitted > 0
  IN /\ batches' = [k \in 1 .. Len(kept) |-> <<kept[k]>>] \o (IF text THEN <<Caption>> ELSE <<>>)
     /\ notice' = omitted
     /\ preview' = IF drawn THEN ToSet(Of(Media, {"image"})) ELSE {}

Build ==
  /\ batches = None /\ budget = None
  /\ batches' = reply_batches
  /\ UNCHANGED <<parser, message, budget, notice, preview>>

\* Without replies left nothing is built.  Drawing the preview may fail.
Official(drawn) ==
  /\ batches = None /\ budget # None
  /\ drawn => Crowded
  /\ IF budget = 0 THEN batches' = <<>> /\ UNCHANGED <<notice, preview>>
     ELSE OfficialReply(drawn)
  /\ UNCHANGED <<parser, message, budget>>

Next == Build \/ \E drawn \in BOOLEAN : Official(drawn)

Spec == Init /\ [][Next]_vars

-----------------------------------------------------------------------------
(* Properties *)

Sent  == IF batches = None THEN <<>> ELSE FlattenSeq(batches)
Count(batch, kinds) == Len(SelectSeq(batch, LAMBDA i : i > 0 /\ message[i] \in kinds))

\* On OneBot every segment but blank text is sent exactly once, no video shares a message
\* with text (nor, but for Douyin, with anything), no message has too many media, and the
\* media keep their order: for X, unless texts and images are parted, with the text.
Complete ==
  batches # None /\ budget = None =>
    /\ ToSet(Sent) = {i \in DOMAIN message : message[i] # "blank"} /\ IsInjective(Sent)
    /\ \A k \in DOMAIN batches :
         /\ batches[k] # <<>> /\ Count(batches[k], {"image", "video"}) <= MaxMedia
         /\ Count(batches[k], {"video"}) > 0 =>
              Count(batches[k], {"text"}) = 0 /\ (parser = "douyin" \/ Len(batches[k]) = 1)
    /\ LET ordered(kinds) == LET s == Of(Sent, kinds)
                             IN  \A i, j \in DOMAIN s : i < j => s[i] < s[j]
       IN /\ ordered({"image"}) /\ ordered({"video"}) /\ ordered({"text"})
          /\ parser # "bilibili" => ordered({"image", "video"})
          /\ parser = "x" /\ Count(All, {"image"}) <= MaxMedia => ordered(Kinds)

\* An official reply stays within the budget of its event, keeps the text, and says how
\* many of the media it leaves out.
WithinBudget ==
  batches # None /\ budget # None =>
    /\ Len(batches) <= budget
    /\ budget > 0 =>
         /\ ToSet(Caption) \subseteq ToSet(Sent)
         /\ LET shown == ToSet(Sent) \cup (IF 0 \in ToSet(Sent) THEN preview ELSE {})
            IN  Len(Media) = Len(SelectSeq(Media, LAMBDA i : i \in shown)) + notice
=============================================================================
