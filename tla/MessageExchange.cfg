CONSTANTS
    Texts <- SomeTexts
    Numbers <- SomeNumbers
    SlideNos <- SomeSlides
    MaxReplies = 2
    SLIDE_SIZE = 1
    FoundSlides <- TwoSlides
    Md5Of <- TwoFiles
SPECIFICATION Spec
INVARIANTS
    RequestIsSeen
    RepliesMerge
PROPERTIES DownloadIsUpload
