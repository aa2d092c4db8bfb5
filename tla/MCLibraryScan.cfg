\* One library with two folders; quick, full and selective requests.
CONSTANTS
    l1 = l1
    l2 = l2
    f1 = f1
    f2 = f2
    Library = {l1}
    Folder = {f1, f2}
    LibOf <- OneLibrary
    Requests <- AllRequests
    MaxChanges = 2
    MaxInterrupts = 2
    MaxFaults = 1
SYMMETRY FolderSymmetry
SPECIFICATION Spec
INVARIANTS
    SkippedIsImported
    IncompleteAlbumsTouched
    ResumeIsSound
PROPERTY MarkedFullScanCovers
