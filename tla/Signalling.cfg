CONSTANTS
  p1 = p1  p2 = p2
  Owners = {p1, p2}
  Shadows = {h1}
  Unmanaged = {w1}
  Streamers = {u1}
  NoPlayer = NoPlayer
  NoStreamer = NoStreamer
  NoPolicy = NoPolicy
  NoOffer = NoOffer
  NoDeal = NoDeal
  NoCodec = NoCodec
  Codecs = {"VP9", "H264"}
  Policies <- PrefersVP9
  MaxSubscribers = 0
  MaxGeneration = 1
  ControlTypes = FALSE
SPECIFICATION SpecAfterOne
INVARIANTS
  H264ViewersAreAlone
  NoOrphanedShadow
  RegistriesAgree
PROPERTY PeersAreFresh
SYMMETRY Symmetry
CHECK_DEADLOCK FALSE
