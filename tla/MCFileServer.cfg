SPECIFICATION Spec
CONSTANTS
    Conns = {c1, c2}
    Media = {film}
    Pages = {page}
    Dirs = {folder}
    Size = 3
    BufferSize = 2
    None = None
INVARIANTS TypeOK StreamsDoNotMix BodyAsAnnounced
PROPERTY ResponsesEnd
