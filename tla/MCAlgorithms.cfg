SPECIFICATION Spec
CONSTANTS
  None = None
  Absent = Absent
  MAX_TRANSCRIPT_MESSAGES = 4
  Trimmed <- MCTrimmed
  Truncated <- MCTruncated
  Opens <- MCOpens
  Closes <- MCCloses
  Pieces <- MCPieces
  Updates <- MCUpdates
  Albums <- MCAlbums
  Dialogues <- MCDialogues
  Replies <- MCReplies
  Texts <- MCTexts
CHECK_DEADLOCK FALSE
INVARIANT ChatsAreAnswered
INVARIANT QuotesAreExplained
INVARIANT MessagesSurviveStorage
INVARIANT AlbumsMerge
INVARIANT TranscriptsAreWhole
INVARIANT AnswersAreFound
INVARIANT KeyboardsAreUsable
INVARIANT RepliesAreSentAsParsed
INVARIANT TextIsShown
INVARIANT MarkupIsRendered
INVARIANT TagsAreLocal
