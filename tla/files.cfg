SPECIFICATION FilesSpec
CONSTANTS
    v1 = v1
    v2 = v2
    product = product
    organization = organization
    foreignImage = foreignImage
    doc1 = doc1
    doc2 = doc2
    logo1 = logo1
    logo2 = logo2
    Null = Null
    Files = {foreignImage, doc1, doc2, logo1, logo2}
    FileOwner <- MCFileOwner
    FileKind <- MCFileKind
    Rows = {product, organization}
    RowOwner <- MCRowOwner
    Columns <- MCColumns
    Requests = {w1, w2}
PROPERTIES
    FilesAreRemovedByTheirOwner
    ReplacementLeavesNoDanglingRow
CONSTRAINT Bound
SYMMETRY Symmetry
