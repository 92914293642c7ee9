SPECIFICATION Spec
CONSTANTS
  None = None
  Display <- MCDisplay
  Today <- MCFirstDay
  Offset = 1
  Known <- MCKnown
  Fragments <- MCFragments
  Inexact <- MCInexact
  FirstDay <- MCFirstDay
  Days = 365
  Elements <- MCElements
  MaxTokens = 6
  Boxes <- MCBoxes
  Matrices <- MCMatrices
  ViewBoxes <- MCViewBoxes
  Calendars <- MCCalendars
  Pictures <- MCPictures
  Settings <- MCSettings
  Screens <- MCScreens
  Shades = {0, 1}
  Sizes <- MCSizes
  MaxBytes = 9700
  LastSequence = 7
INVARIANTS CalendarShown ArrowsHit FirstPageOnly DrawnTracked TopmostHit HitCovers PictureKept TapSeesPixel PartialPaints ChunksReassemble SequencesFresh
CHECK_DEADLOCK FALSE
