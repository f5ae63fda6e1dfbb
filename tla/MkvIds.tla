------------------------------- MODULE MkvIds -------------------------------
(* Matroska element IDs (src/src/libwebm/webmids.hpp), those the muxer writes
   and the parser looks for, under their names without the prefix kMkv.  *)
EXTENDS Naturals

Id ==
  [EBML |-> \h1A45DFA3, EBMLVersion |-> \h4286, EBMLReadVersion |-> \h42F7,
   EBMLMaxIDLength |-> \h42F2, EBMLMaxSizeLength |-> \h42F3,
   DocType |-> \h4282, DocTypeVersion |-> \h4287, DocTypeReadVersion |-> \h4285,
   Void |-> \hEC, Segment |-> \h18538067,
   SeekHead |-> \h114D9B74, Seek |-> \h4DBB, SeekID |-> \h53AB,
   SeekPosition |-> \h53AC,
   Info |-> \h1549A966, TimecodeScale |-> \h2AD7B1, Duration |-> \h4489,
   DateUTC |-> \h4461, Title |-> \h7BA9, MuxingApp |-> \h4D80,
   WritingApp |-> \h5741,
   Cluster |-> \h1F43B675, Timecode |-> \hE7, PrevSize |-> \hAB,
   BlockGroup |-> \hA0, Block |-> \hA1, BlockDuration |-> \h9B,
   ReferenceBlock |-> \hFB, LaceNumber |-> \hCC, SimpleBlock |-> \hA3,
   BlockAdditions |-> \h75A1, BlockMore |-> \hA6, BlockAddID |-> \hEE,
   BlockAdditional |-> \hA5, DiscardPadding |-> \h75A2,
   Tracks |-> \h1654AE6B, TrackEntry |-> \hAE, TrackNumber |-> \hD7,
   TrackUID |-> \h73C5, TrackType |-> \h83, FlagLacing |-> \h9C,
   DefaultDuration |-> \h23E383, MaxBlockAdditionID |-> \h55EE,
   Name |-> \h536E, Language |-> \h22B59C, CodecID |-> \h86,
   CodecPrivate |-> \h63A2, CodecName |-> \h258688, CodecDelay |-> \h56AA,
   SeekPreRoll |-> \h56BB,
   Video |-> \hE0, StereoMode |-> \h53B8, AlphaMode |-> \h53C0,
   PixelWidth |-> \hB0, PixelHeight |-> \hBA, PixelCropBottom |-> \h54AA,
   PixelCropTop |-> \h54BB, PixelCropLeft |-> \h54CC,
   PixelCropRight |-> \h54DD, DisplayWidth |-> \h54B0,
   DisplayHeight |-> \h54BA, DisplayUnit |-> \h54B2, FrameRate |-> \h2383E3,
   Audio |-> \hE1, SamplingFrequency |-> \hB5, Channels |-> \h9F,
   BitDepth |-> \h6264,
   ContentEncodings |-> \h6D80, ContentEncoding |-> \h6240,
   ContentEncodingOrder |-> \h5031, ContentEncodingScope |-> \h5032,
   ContentEncodingType |-> \h5033, ContentCompression |-> \h5034,
   ContentCompAlgo |-> \h4254, ContentCompSettings |-> \h4255,
   ContentEncryption |-> \h5035, ContentEncAlgo |-> \h47E1,
   ContentEncKeyID |-> \h47E2, ContentSignature |-> \h47E3,
   ContentSigKeyID |-> \h47E4, ContentSigAlgo |-> \h47E5,
   ContentSigHashAlgo |-> \h47E6, ContentEncAESSettings |-> \h47E7,
   AESSettingsCipherMode |-> \h47E8,
   Cues |-> \h1C53BB6B, CuePoint |-> \hBB, CueTime |-> \hB3,
   CueTrackPositions |-> \hB7, CueTrack |-> \hF7,
   CueClusterPosition |-> \hF1, CueBlockNumber |-> \h5378,
   Chapters |-> \h1043A770, EditionEntry |-> \h45B9, ChapterAtom |-> \hB6,
   ChapterUID |-> \h73C4, ChapterStringUID |-> \h5654,
   ChapterTimeStart |-> \h91, ChapterTimeEnd |-> \h92,
   ChapterDisplay |-> \h80, ChapString |-> \h85, ChapLanguage |-> \h437C,
   ChapCountry |-> \h437E,
   Tags |-> \h1254C367, Tag |-> \h7373, SimpleTag |-> \h67C8,
   TagName |-> \h45A3, TagString |-> \h4487]
=============================================================================
