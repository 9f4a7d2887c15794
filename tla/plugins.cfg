SPECIFICATION Spec
CONSTANTS
  Plugins = {"wav", "vorbis", "mad", "flac", "mpc", "aac", "mp4", "ffmpeg", "wavpack", "mikmod", "modplug"}
  FrameLen = 3
  Total = 21
  Damaged = {3}
  Counts = {4, 8}
  Places = {0, 3, 5, 8, 10, 15, 20}
  TmpSize = 2
  Interval = 7
  Reservoir = 1
  Parts = 7
  TocError = 1
  Packet = 6
  Second = 4
  MetaInt = 3
  Network <- MCNetwork
  MaxLines = 2
  MaxHeld = 2
  OutLists <- MCLists
  Frame = 2
  Period = 6
  Silence = 8
  BufferSize = 5
  BufferCounts = {3, 4}
  Sizes = {3, 4, 8}
INVARIANTS InStreamOrder SeekTableRight ReleasesOwn AudioOnly OutputAgrees PeriodsPadded RingConsistent
