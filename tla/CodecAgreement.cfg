SPECIFICATION Spec
CONSTANTS
    Base = 4
    IdMax = 2
    NameMax = 3
    ArtifactMax = 6
    Manifests <- MCManifests
    Requests <- MCRequests
    FilenameMax = 8
    LineMax = 16
    Texts <- MCTexts
    TextBytes <- MCTextBytes
    Names <- MCNames
    NameChars <- MCNameChars
    Arguments <- MCArguments
INVARIANTS ReadersAgree SignedBytesAgree MessagesUnderstood TextRoundTrip ArgumentsKept
